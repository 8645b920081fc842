---------------------------- MODULE TrackerProofs ----------------------------
(***************************************************************************)
(* What the tracker measures is right, for any number of generations, in   *)
(* whatever order watch events, answers of calls and goroutines come.      *)
(*                                                                         *)
(* The inductive invariant says where each observation is (a goroutine     *)
(* holds it or it is stored), that the generations before a recorded one   *)
(* have a ready time, and that what is still to be recorded is requested.  *)
(***************************************************************************)
EXTENDS Tracker, WellFoundedInduction, TLAPS

Site == [exists : BOOLEAN, generation : 0 .. MaxGenerations, observed : 0 .. MaxGenerations,
         ready : BOOLEAN]

WriterRecord == [kind : {"created", "ready"}, generation : Generations, at : Nat,
                 slow : BOOLEAN, awaited : BOOLEAN]

Types ==
  /\ web \in Site /\ watched \in Site
  /\ call \in Generations \cup {None}
  /\ writers \in SUBSET WriterRecord
  /\ object = None \/ \E known \in SUBSET Generations : object \in [known -> GenerationTimes]
  /\ request \in BOOLEAN /\ now \in Nat \ {0}
  /\ seen \in [Generations -> Nat] /\ changed \in SUBSET Generations

Known == IF object = None THEN {} ELSE DOMAIN object

\* Generations only grow, and a status that is ready stays so until the next
\* generation: what was observed is not newer than the watched copy, and that is
\* not newer than the Website.
Order ==
  /\ web.exists => web.generation >= 1
  /\ web.observed <= web.generation
  /\ web.ready => web.observed >= 1
  /\ \/ watched.observed < web.observed
     \/ watched.observed = web.observed /\ (watched.ready => web.ready)
  /\ \A h \in Generations :
       seen[h] # 0 => h < watched.observed \/ (h = watched.observed /\ watched.ready)

Before ==
  /\ \A w \in writers : w.at >= 1 /\ w.at <= now /\ (w.kind = "ready" => w.at < now)
  /\ \A g \in Known : object[g].created <= now /\ object[g].ready < now
  /\ \A h \in Generations : seen[h] < now

\* What goroutines hold.  Of spec changes that is the newest.
Held ==
  /\ \A w \in writers : w.generation <= web.generation
  /\ \A w \in writers : w.kind = "created" => w.generation = web.generation /\ call = None
  /\ \A w \in writers : w.kind = "ready" => seen[w.generation] = w.at /\ w.awaited /\ request
  /\ call # None => call = web.generation
  /\ \A g \in Known : g <= web.generation

\* t is when generation g was observed as ready, or the next newer one that was
Backed(g, t) ==
  \E h \in g .. MaxGenerations : seen[h] # 0 /\ t = seen[h] /\ \A i \in g .. h - 1 : seen[i] = 0

Stores ==
  /\ \A g \in Known : object[g].ready # 0 => Backed(g, object[g].ready)
  /\ \A i \in Generations : seen[i] # 0 =>
       \/ \E w \in writers : w.kind = "ready" /\ w.generation = i
       \/ i \in Known /\ object[i].ready # 0
  /\ \A g \in Known, i \in Known : g < i /\ object[i].recorded => object[g].ready # 0
  /\ \A g \in Known : object[g].recorded => object[g].created # 0 /\ object[g].ready # 0
  /\ \A g \in changed : g \in Known /\ object[g].created # 0

Requested ==
  /\ \A g \in changed, h \in Generations :
       h >= g /\ seen[h] # 0 /\ ~object[g].recorded => request
  /\ \A g \in Known : object[g].ready # 0 /\ ~object[g].recorded => request

TrackerInv == Types /\ Order /\ Before /\ Held /\ Stores /\ Requested

-----------------------------------------------------------------------------
(* The operators.                                                          *)

\* Min is the least element.
LEMMA Least ==
  ASSUME NEW S, S \subseteq Nat, S # {}
  PROVE  Min(S) \in S /\ \A y \in S : Min(S) <= y
<1> DEFINE R == {ss \in Nat \X Nat : ss[1] < ss[2]}
<1>1. IsWellFoundedOn(R, Nat)
  BY NatLessThanWellFounded DEF OpToRel
<1>2. \A x, y \in Nat : y < x => <<y, x>> \in R
  OBVIOUS
<1> HIDE DEF R
<1>3. PICK x \in S : \A y \in S : ~(<<y, x>> \in R)
  BY <1>1, WFMin
<1>4. \A y \in S : ~(y < x)
  BY <1>2, <1>3
<1>5. \A y \in S : x <= y
  BY <1>4
<1> QED
  BY <1>5 DEF Min

\* setGeneration changes one time of one generation, if it was zero.
LEMMA SetsTime ==
  ASSUME NEW known \in SUBSET Generations, NEW o \in [known -> GenerationTimes],
         NEW w \in WriterRecord, NEW t, t = Times(o, w.generation), NEW p, p = setGeneration(o, w)
  PROVE  /\ p \in [known \cup {w.generation} -> GenerationTimes]
         /\ \A g \in known : g # w.generation => p[g] = o[g]
         /\ t \in GenerationTimes
         /\ p[w.generation].recorded = t.recorded
         /\ w.kind = "created" => /\ p[w.generation].ready = t.ready
                                  /\ p[w.generation].created = IF t.created = 0 THEN w.at ELSE t.created
         /\ w.kind = "ready" => /\ p[w.generation].created = t.created
                                /\ p[w.generation].ready = IF t.ready = 0 THEN w.at ELSE t.ready
<1> DEFINE u == IF t[w.kind] = 0 THEN [t EXCEPT ![w.kind] = w.at] ELSE t
<1>1. t \in GenerationTimes
  BY DEF Times, NoTimes, GenerationTimes
<1>2. w.at \in Nat /\ w.generation \in Generations /\ w.kind \in {"created", "ready"}
  BY DEF WriterRecord
<1>3. p = [h \in known \cup {w.generation} |-> IF h = w.generation THEN u ELSE o[h]]
  BY DEF setGeneration, With
<1>4. CASE w.kind = "created"
  <2>1. u = IF t.created = 0 THEN [t EXCEPT !.created = w.at] ELSE t
    BY <1>4
  <2>2. u \in GenerationTimes /\ u.ready = t.ready /\ u.recorded = t.recorded
        /\ u.created = IF t.created = 0 THEN w.at ELSE t.created
    BY <1>1, <1>2, <2>1 DEF GenerationTimes
  <2> HIDE DEF u
  <2> QED
    BY <1>1, <1>3, <1>4, <2>2
<1>5. CASE w.kind = "ready"
  <2>1. u = IF t.ready = 0 THEN [t EXCEPT !.ready = w.at] ELSE t
    BY <1>5
  <2>2. u \in GenerationTimes /\ u.created = t.created /\ u.recorded = t.recorded
        /\ u.ready = IF t.ready = 0 THEN w.at ELSE t.ready
    BY <1>1, <1>2, <2>1 DEF GenerationTimes
  <2> HIDE DEF u
  <2> QED
    BY <1>1, <1>3, <1>5, <2>2
<1> QED
  BY <1>2, <1>4, <1>5

\* generations whose ready time may stand in for that of g
Newer(o, g) == {h \in sortedValues(o, g) : ~o[h].recorded /\ o[h].ready # 0}

\* What Reconcile does with the times of one generation: p[g] after o[g].
FilledAndRecorded(o, p, g) ==
  /\ p[g].created = o[g].created
  /\ p[g].recorded <=> o[g].recorded \/ (p[g].created # 0 /\ p[g].ready # 0)
  /\ o[g].recorded \/ o[g].ready # 0 => p[g].ready = o[g].ready
  /\ ~o[g].recorded /\ o[g].ready = 0 /\ Newer(o, g) = {} => p[g].ready = 0
  /\ ~o[g].recorded /\ o[g].ready = 0 /\ Newer(o, g) # {} =>
       \E m \in Newer(o, g) : p[g].ready = o[m].ready /\ \A h \in Newer(o, g) : m <= h

LEMMA Reconciled ==
  ASSUME NEW known \in SUBSET Generations, NEW o \in [known -> GenerationTimes],
         NEW p, p = recordNewReadyGenerations(backfillGenerations(o))
  PROVE  /\ p \in [known -> GenerationTimes]
         /\ \A g \in known : FilledAndRecorded(o, p, g)
<1> DEFINE b == backfillGenerations(o)
<1>1. DOMAIN o = known /\ known \subseteq Nat
  BY TrackerAssumption DEF Generations
<1>2. ASSUME NEW g \in known
      PROVE  /\ Newer(o, g) \subseteq known
             /\ Newer(o, g) # {} => Min(Newer(o, g)) \in Newer(o, g) /\ \A h \in Newer(o, g) : Min(Newer(o, g)) <= h
  BY <1>1, Least DEF Newer, sortedValues
<1>3. b = [g \in known |-> IF ~o[g].recorded /\ o[g].ready = 0 /\ Newer(o, g) # {}
                           THEN [o[g] EXCEPT !.ready = o[Min(Newer(o, g))].ready] ELSE o[g]]
  BY <1>1 DEF backfillGenerations, Newer
<1>4. ASSUME NEW g \in known
      PROVE  /\ b[g] \in GenerationTimes
             /\ b[g].created = o[g].created /\ b[g].recorded = o[g].recorded
             /\ b[g].ready = IF ~o[g].recorded /\ o[g].ready = 0 /\ Newer(o, g) # {}
                             THEN o[Min(Newer(o, g))].ready ELSE o[g].ready
  <2>1. o[g] \in GenerationTimes
    OBVIOUS
  <2>2. CASE ~o[g].recorded /\ o[g].ready = 0 /\ Newer(o, g) # {}
    <3>1. PICK n \in Nat : n = o[Min(Newer(o, g))].ready
      BY <1>2, <2>2 DEF GenerationTimes
    <3>2. b[g] = [o[g] EXCEPT !.ready = n]
      BY <1>3, <2>2, <3>1
    <3> QED
      BY <2>1, <2>2, <3>1, <3>2 DEF GenerationTimes
  <2>3. CASE ~(~o[g].recorded /\ o[g].ready = 0 /\ Newer(o, g) # {})
    BY <1>3, <2>1, <2>3
  <2> QED
    BY <2>2, <2>3
<1>5. DOMAIN b = known
  BY <1>3
<1> HIDE DEF b
<1>6. p = [g \in known |-> [b[g] EXCEPT !.recorded = b[g].recorded \/ (b[g].created # 0 /\ b[g].ready # 0)]]
  BY <1>4, <1>5 DEF recordNewReadyGenerations, b, GenerationTimes
<1>7. ASSUME NEW g \in known
      PROVE  /\ p[g] \in GenerationTimes
             /\ p[g].created = b[g].created /\ p[g].ready = b[g].ready
             /\ p[g].recorded <=> b[g].recorded \/ (b[g].created # 0 /\ b[g].ready # 0)
  <2>1. PICK e \in BOOLEAN : e <=> b[g].recorded \/ (b[g].created # 0 /\ b[g].ready # 0)
    OBVIOUS
  <2>2. p[g] = [b[g] EXCEPT !.recorded = e]
    BY <1>4, <1>6, <2>1 DEF GenerationTimes
  <2> QED
    BY <1>4, <2>1, <2>2 DEF GenerationTimes
<1>8. p \in [known -> GenerationTimes]
  BY <1>6, <1>7
<1>9. ASSUME NEW g \in known PROVE FilledAndRecorded(o, p, g)
  BY <1>2, <1>4, <1>7 DEF FilledAndRecorded
<1> QED
  BY <1>8, <1>9

-----------------------------------------------------------------------------
(* The Website and the load generator.                                     *)

\* The types of the tracker's map, without None.
LEMMA ObjectTyped ==
  ASSUME Types
  PROVE  /\ Known \in SUBSET Generations
         /\ object # None => object \in [Known -> GenerationTimes]
         /\ \A g \in Known : object[g] \in GenerationTimes
<1>1. CASE object = None
  BY <1>1 DEF Known
<1>2. CASE object # None
  <2>1. PICK known \in SUBSET Generations : object \in [known -> GenerationTimes]
    BY <1>2 DEF Types
  <2>2. Known = known
    BY <1>2, <2>1 DEF Known
  <2> QED
    BY <2>1, <2>2
<1> QED
  BY <1>1, <1>2

\* Steps of the Website itself or of the load generator: generations and
\* observed statuses grow, no goroutine stores a time.
LEMMA WebsiteSteps ==
  ASSUME TrackerInv, web' \in Site, call' \in Generations \cup {None},
         UNCHANGED <<watched, writers, object, request, now, seen, changed>>,
         web'.exists => web'.generation >= 1,
         web'.observed <= web'.generation,
         web'.ready => web'.observed >= 1,
         web'.generation >= web.generation,
         web.observed < web'.observed \/ (web.observed = web'.observed /\ (web.ready => web'.ready)),
         call' # None => call' = web'.generation /\ \A w \in writers : w.kind # "created",
         web'.generation = web.generation \/ \A w \in writers : w.kind # "created"
  PROVE  TrackerInv'
<1> USE DEF TrackerInv
<1>1. Known' = Known
  BY DEF Known
<1>2. Types'
  BY DEF Types
<1>3. Order'
  BY DEF Order, Types, Site
<1>4. Before'
  BY <1>1 DEF Before
<1>5. Held'
  <2>1. Known \in SUBSET Generations /\ \A w \in writers : w \in WriterRecord
    BY ObjectTyped DEF Types
  <2>2. web.generation \in Nat /\ web'.generation \in Nat
    BY DEF Types, Site
  <2>3. \A w \in writers : w.generation \in Nat
    BY <2>1 DEF WriterRecord, Generations
  <2>4. Known \subseteq Nat
    BY <2>1 DEF Generations
  <2> QED
    BY <1>1, <2>2, <2>3, <2>4 DEF Held
<1>6. Stores'
  BY <1>1 DEF Stores, Backed
<1>7. Requested'
  BY <1>1 DEF Requested
<1> QED
  BY <1>2, <1>3, <1>4, <1>5, <1>6, <1>7

LEMMA CreateWebsiteInv == ASSUME TrackerInv, CreateWebsite PROVE TrackerInv'
<1>1. web' = [exists |-> TRUE, generation |-> 1, observed |-> 0, ready |-> FALSE]
  BY DEF CreateWebsite, NoWebsite
<1>2. 1 \in Generations /\ MaxGenerations \in Nat
  BY TrackerAssumption DEF Generations
<1>3. web' \in Site
  BY <1>1, <1>2 DEF Site, Generations
<1>4. web.generation = 0 /\ web \in Site /\ web.observed <= 0 /\ web.observed \in Nat
  BY DEF CreateWebsite, TrackerInv, Types, Order, Site
<1>5. ~web.ready
  BY <1>4 DEF TrackerInv, Order
<1>6. \A w \in writers : w.kind # "created"
  BY <1>4, TrackerAssumption DEF TrackerInv, Types, Held, WriterRecord, Generations
<1>7. /\ web'.exists => web'.generation >= 1
      /\ web'.observed <= web'.generation /\ ~web'.ready /\ web'.generation >= web.generation
      /\ web.observed = web'.observed /\ web'.generation = 1
  BY <1>1, <1>4
<1> QED
  BY <1>2, <1>3, <1>5, <1>6, <1>7, WebsiteSteps DEF CreateWebsite

LEMMA MutateWebsiteInv == ASSUME TrackerInv, MutateWebsite PROVE TrackerInv'
<1>1. web \in Site /\ web.exists /\ web.generation \in Generations /\ MaxGenerations \in Nat
  BY TrackerAssumption DEF TrackerInv, Types, Order, Site, MutateWebsite, Generations
<1>2. PICK n \in Generations : web' = [web EXCEPT !.generation = n] /\ n >= web.generation
  <2>1. CASE web' = [web EXCEPT !.generation = @ + 1] /\ web.generation < MaxGenerations
    BY <1>1, <2>1 DEF Generations, Site
  <2>2. CASE UNCHANGED web
    <3>1. web = [web EXCEPT !.generation = web.generation]
      BY <1>1 DEF Site
    <3> QED
      BY <1>1, <2>2, <3>1 DEF Generations
  <2> QED
    BY <2>1, <2>2 DEF MutateWebsite
<1>3. web' \in Site /\ web'.generation = n /\ web'.exists = web.exists /\ web'.observed = web.observed
      /\ web'.ready = web.ready
  <2>1. n \in 0 .. MaxGenerations
    BY <1>1 DEF Generations
  <2> QED
    BY <1>1, <1>2, <2>1 DEF Site
<1>4. web.observed <= n /\ n >= 1
  BY <1>1, <1>2 DEF Site, Generations, TrackerInv, Order
<1> QED
  BY <1>1, <1>2, <1>3, <1>4, WebsiteSteps DEF MutateWebsite, TrackerInv, Order

\* DeleteWebsite, and the garbage collector
LEMMA GoneInv ==
  ASSUME TrackerInv, web' = [web EXCEPT !.exists = FALSE],
         UNCHANGED <<watched, call, writers, object, request, now, seen, changed>>
  PROVE  TrackerInv'
<1>1. web \in Site /\ call \in Generations \cup {None}
  BY DEF TrackerInv, Types
<1>2. web' \in Site /\ web'.generation = web.generation /\ ~web'.exists /\ web'.observed = web.observed
      /\ web'.ready = web.ready
  BY <1>1 DEF Site
<1>3. web.generation >= web.generation
  BY <1>1 DEF Site
<1> QED
  BY <1>1, <1>2, <1>3, WebsiteSteps DEF TrackerInv, Order, Held

LEMMA UpdateStatusInv == ASSUME TrackerInv, UpdateWebsiteStatus PROVE TrackerInv'
<1>1. web \in Site /\ call \in Generations \cup {None} /\ web.exists /\ web.generation >= 1
      /\ web.observed <= web.generation
  BY DEF TrackerInv, Types, Order, UpdateWebsiteStatus
<1>2. PICK ready \in BOOLEAN : /\ web.observed < web.generation \/ (ready /\ ~web.ready)
                               /\ web' = [web EXCEPT !.observed = web.generation, !.ready = ready]
  BY DEF UpdateWebsiteStatus
<1>3. web' \in Site /\ web'.generation = web.generation /\ web'.exists = web.exists
      /\ web'.observed = web.generation /\ web'.ready = ready
  BY <1>1, <1>2 DEF Site
<1>4. web.observed < web'.observed \/ (web.observed = web'.observed /\ (web.ready => web'.ready))
  BY <1>1, <1>2, <1>3 DEF Site
<1>5. web.generation >= web.generation /\ web.generation <= web.generation
  BY <1>1 DEF Site
<1> QED
  BY <1>1, <1>3, <1>4, <1>5, WebsiteSteps DEF UpdateWebsiteStatus, TrackerInv, Held

LEMMA LoseResponseInv == ASSUME TrackerInv, LoseResponse PROVE TrackerInv'
<1>1. web \in Site
  BY DEF TrackerInv, Types
<1>2. web.generation >= web.generation
  BY <1>1 DEF Site
<1> QED
  BY <1>1, <1>2, WebsiteSteps DEF LoseResponse, TrackerInv, Order

-----------------------------------------------------------------------------
(* The tracker.                                                            *)

LEMMA RecordSpecChangeInv == ASSUME TrackerInv, RecordSpecChange PROVE TrackerInv'
<1> DEFINE n == Writer("created", call)
<1>1. call \in Generations /\ now \in Nat \ {0} /\ call = web.generation
  BY DEF TrackerInv, Types, Held, RecordSpecChange
<1>2. /\ n \in WriterRecord /\ n.kind = "created" /\ n.generation = call /\ n.at = now
  BY <1>1 DEF Writer, WriterRecord
<1> HIDE DEF n
<1>3. writers' = writers \cup {n} /\ call' = None
      /\ UNCHANGED <<web, watched, object, request, now, seen, changed>>
  BY DEF RecordSpecChange, n
<1>4. Known' = Known
  BY <1>3 DEF Known
<1>5. Types'
  BY <1>2, <1>3 DEF TrackerInv, Types
<1>6. Order'
  BY <1>3 DEF TrackerInv, Order
<1>7. Before'
  BY <1>1, <1>2, <1>3, <1>4 DEF TrackerInv, Before
<1>8. Held'
  <2>1. web.generation <= web.generation
    BY DEF TrackerInv, Types, Site
  <2> QED
    BY <1>1, <1>2, <1>3, <1>4, <2>1 DEF TrackerInv, Held
<1>9. Stores'
  BY <1>3, <1>4 DEF TrackerInv, Stores, Backed
<1>10. Requested'
  BY <1>3, <1>4 DEF TrackerInv, Requested
<1> QED
  BY <1>5, <1>6, <1>7, <1>8, <1>9, <1>10 DEF TrackerInv

LEMMA DeliverWebsiteInv == ASSUME TrackerInv, DeliverWebsite PROVE TrackerInv'
<1> DEFINE j == web.observed
<1>0. /\ watched' = web /\ UNCHANGED <<web, call, object, changed>> /\ Known' = Known
      /\ web \in Site /\ watched \in Site /\ now \in Nat \ {0} /\ seen \in [Generations -> Nat]
      /\ MaxGenerations \in Nat
  BY TrackerAssumption DEF DeliverWebsite, TrackerInv, Types, Known
<1>1. CASE UNCHANGED <<writers, request, now, seen>>
  <2>1. Types'
    BY <1>0, <1>1 DEF TrackerInv, Types
  <2>2. Order'
    <3>1. ASSUME NEW h \in Generations, seen[h] # 0
          PROVE  h < web.observed \/ (h = web.observed /\ web.ready)
      BY <1>0, <3>1, SMTT(30) DEF TrackerInv, Order, Site, Generations
    <3> QED
      BY <1>0, <1>1, <3>1 DEF TrackerInv, Order
  <2>3. Before' /\ Held'
    BY <1>0, <1>1 DEF TrackerInv, Before, Held
  <2>4. Stores' /\ Requested'
    BY <1>0, <1>1 DEF TrackerInv, Stores, Requested, Backed
  <2> QED
    BY <2>1, <2>2, <2>3, <2>4 DEF TrackerInv
<1>2. CASE observedNewReadyGeneration(watched, web)
  <2> DEFINE n == Writer("ready", j)
  <2> DEFINE A(w) == [w EXCEPT !.awaited = TRUE]
  <2>1. j \in Generations /\ web.ready
    BY <1>0, <1>2 DEF observedNewReadyGeneration, TrackerInv, Order, Site, Generations
  <2>2. watched.observed < j \/ (watched.observed = j /\ ~watched.ready)
    BY <1>0, <1>2 DEF observedNewReadyGeneration, TrackerInv, Order, Site
  <2>3. \A h \in Generations : seen[h] # 0 => h < j
    BY <1>0, <2>2 DEF TrackerInv, Order, Site, Generations
  <2>4. seen[j] = 0
    BY <2>1, <2>3 DEF Generations
  <2>5. /\ writers' = {A(w) : w \in writers \cup {n}} /\ request' = TRUE /\ now' = now + 1
        /\ seen' = [seen EXCEPT ![j] = now]
    BY <1>0, <1>2, <2>4, <2>1 DEF DeliverWebsite
  <2>6. n \in WriterRecord /\ n.kind = "ready" /\ n.generation = j /\ n.at = now
    BY <1>0, <2>1 DEF Writer, WriterRecord
  <2> HIDE DEF n
  <2>7. ASSUME NEW w \in WriterRecord
        PROVE  /\ A(w) \in WriterRecord /\ A(w).kind = w.kind /\ A(w).generation = w.generation
               /\ A(w).at = w.at /\ A(w).awaited
    BY DEF WriterRecord
  <2> HIDE DEF A
  <2>8. writers \subseteq WriterRecord
    BY DEF TrackerInv, Types
  <2>9. seen' \in [Generations -> Nat] /\ seen'[j] = now /\ \A h \in Generations : h # j => seen'[h] = seen[h]
    BY <1>0, <2>1, <2>5
  <2>10. \A h \in Generations : seen[h] # 0 => seen'[h] = seen[h] /\ h < j
    BY <2>3, <2>4, <2>9
  <2>11. \A g \in Known : g \in Generations
    BY ObjectTyped DEF TrackerInv
  <2>12. Types'
    BY <1>0, <2>5, <2>6, <2>7, <2>8, <2>9 DEF TrackerInv, Types
  <2>13. Order'
    <3>1. \A h \in Generations : seen'[h] # 0 => h < j \/ (h = j /\ web.ready)
      BY <2>1, <2>3, <2>9
    <3> QED
      BY <1>0, <3>1 DEF TrackerInv, Order
  <2>14. Before'
    <3>1. \A w \in writers' : w.at >= 1 /\ w.at <= now /\ w.at \in Nat
      BY <1>0, <2>5, <2>6, <2>7, <2>8 DEF TrackerInv, Before, WriterRecord
    <3>2. \A w \in writers' : w.at >= 1 /\ w.at <= now' /\ w.at < now'
      BY <1>0, <2>5, <3>1
    <3>3. \A g \in Known : object[g].created <= now' /\ object[g].ready < now'
      BY <1>0, <2>5, ObjectTyped DEF TrackerInv, Before, GenerationTimes
    <3>4. \A h \in Generations : seen'[h] < now'
      BY <1>0, <2>5, <2>9 DEF TrackerInv, Before
    <3> QED
      BY <1>0, <3>2, <3>3, <3>4 DEF Before
  <2>15. Held'
    <3>1. ASSUME NEW w \in writers'
          PROVE  /\ w.generation <= web.generation
                 /\ w.kind = "created" => w.generation = web.generation /\ call = None
                 /\ w.kind = "ready" => seen'[w.generation] = w.at /\ w.awaited
      <4>1. PICK v \in writers \cup {n} : w = A(v)
        BY <2>5
      <4>2. CASE v = n
        BY <2>1, <2>6, <2>7, <2>9, <4>1, <4>2 DEF TrackerInv, Order
      <4>3. CASE v \in writers
        <5>1. v \in WriterRecord /\ v.generation \in Generations /\ v.at >= 1 /\ v.at \in Nat
          BY <2>8, <4>3 DEF TrackerInv, Before, WriterRecord
        <5>2. v.kind = "ready" => seen[v.generation] # 0 /\ seen[v.generation] = v.at
          BY <4>3, <5>1 DEF TrackerInv, Held
        <5> QED
          BY <2>7, <2>10, <4>1, <4>3, <5>1, <5>2 DEF TrackerInv, Held
      <4> QED
        BY <4>2, <4>3
    <3> QED
      BY <1>0, <2>5, <3>1 DEF TrackerInv, Held
  <2>16. Stores'
    <3>1. ASSUME NEW g \in Generations, NEW t, Backed(g, t) PROVE Backed(g, t)'
      <4>1. PICK h \in g .. MaxGenerations : seen[h] # 0 /\ t = seen[h] /\ \A i \in g .. h - 1 : seen[i] = 0
        BY <3>1 DEF Backed
      <4>2. h \in Generations /\ h < j
        BY <1>0, <2>3, <4>1 DEF Generations
      <4>3. \A i \in g .. h - 1 : i \in Generations /\ i # j
        BY <1>0, <2>1, <4>2 DEF Generations
      <4>4. seen'[h] # 0 /\ t = seen'[h] /\ \A i \in g .. h - 1 : seen'[i] = 0
        BY <2>9, <4>1, <4>2, <4>3, <2>10
      <4> QED
        BY <4>4 DEF Backed
    <3>2. ASSUME NEW i \in Generations, seen'[i] # 0
          PROVE  \/ \E w \in writers' : w.kind = "ready" /\ w.generation = i
                 \/ i \in Known /\ object[i].ready # 0
      <4>1. CASE i = j
        <5>1. A(n) \in writers' /\ A(n).kind = "ready" /\ A(n).generation = j
          BY <2>5, <2>6, <2>7
        <5> QED
          BY <4>1, <5>1
      <4>2. CASE i # j
        <5>1. seen[i] # 0
          BY <2>9, <3>2, <4>2
        <5>2. CASE i \in Known /\ object[i].ready # 0
          BY <5>2
        <5>3. ASSUME NEW w \in writers, w.kind = "ready", w.generation = i
              PROVE  \E v \in writers' : v.kind = "ready" /\ v.generation = i
          BY <2>5, <2>7, <2>8, <5>3
        <5> QED
          BY <5>1, <5>2, <5>3 DEF TrackerInv, Stores
      <4> QED
        BY <4>1, <4>2
    <3> QED
      BY <1>0, <2>11, <3>1, <3>2 DEF TrackerInv, Stores
  <2>17. Requested'
    BY <2>5 DEF Requested
  <2> QED
    BY <2>12, <2>13, <2>14, <2>15, <2>16, <2>17 DEF TrackerInv
<1> QED
  BY <1>1, <1>2 DEF DeliverWebsite

\* The map after a goroutine has stored its time: what is there stays, what is
\* new is the goroutine's.
LEMMA StoredTimes ==
  ASSUME TrackerInv, NEW w \in writers,
         object' = setGeneration(IF object = None THEN NoGenerations ELSE object, w)
  PROVE  /\ w \in WriterRecord /\ w.generation \in Generations /\ w.at \in Nat \ {0}
         /\ object' \in [Known \cup {w.generation} -> GenerationTimes]
         /\ object' # None /\ Known' = Known \cup {w.generation}
         /\ \A g \in Known : /\ object'[g].recorded = object[g].recorded
                             /\ object[g].ready # 0 => object'[g].ready = object[g].ready
                             /\ object[g].created # 0 => object'[g].created = object[g].created
         /\ w.generation \notin Known => ~object'[w.generation].recorded
         /\ \A g \in Known' :
              /\ \/ object'[g].ready = 0
                 \/ g \in Known /\ object'[g].ready = object[g].ready
                 \/ g = w.generation /\ w.kind = "ready" /\ object'[g].ready = w.at
              /\ \/ object'[g].created = 0
                 \/ g \in Known /\ object'[g].created = object[g].created
                 \/ g = w.generation /\ w.kind = "created" /\ object'[g].created = w.at
         /\ w.kind = "ready" => object'[w.generation].ready # 0
         /\ w.kind = "created" => object'[w.generation].created # 0
<1> DEFINE base == IF object = None THEN NoGenerations ELSE object
<1> DEFINE k == w.generation
<1>1. w \in WriterRecord /\ k \in Generations /\ w.at \in Nat \ {0} /\ w.kind \in {"created", "ready"}
  <2>1. w \in WriterRecord /\ w.at >= 1
    BY DEF TrackerInv, Types, Before
  <2> QED
    BY <2>1 DEF WriterRecord
<1>2. Known \in SUBSET Generations /\ base \in [Known -> GenerationTimes]
  <2>1. CASE object = None
    BY <2>1 DEF Known, NoGenerations
  <2>2. CASE object # None
    BY <2>2, ObjectTyped DEF TrackerInv
  <2> QED
    BY <2>1, <2>2
<1>3. \A g \in Known : base[g] = object[g]
  BY DEF Known
<1> HIDE DEF base
<1>b. PICK b : b = base
  OBVIOUS
<1>4. PICK p : p = setGeneration(b, w)
  OBVIOUS
<1>p. object' = p
  BY <1>4, <1>b DEF base
<1>k. PICK known \in SUBSET Generations : b \in [known -> GenerationTimes] /\ known = Known
  BY <1>2, <1>b
<1>t. PICK t : t = Times(b, k)
  OBVIOUS
<1>5. /\ t \in GenerationTimes
      /\ p \in [known \cup {k} -> GenerationTimes] /\ \A g \in known : g # k => p[g] = b[g]
      /\ p[k].recorded = t.recorded
      /\ w.kind = "created" => /\ p[k].ready = t.ready
                               /\ p[k].created = IF t.created = 0 THEN w.at ELSE t.created
      /\ w.kind = "ready" => /\ p[k].created = t.created
                             /\ p[k].ready = IF t.ready = 0 THEN w.at ELSE t.ready
  BY <1>1, <1>k, <1>4, <1>t, SetsTime
<1>6. object' \in [Known \cup {k} -> GenerationTimes] /\ \A g \in Known : g # k => object'[g] = object[g]
  BY <1>3, <1>5, <1>p, <1>b, <1>k
<1>7. object' # None
  BY <1>1, <1>2, <1>6, TrackerAssumption
<1>8. Known' = Known \cup {k}
  BY <1>6, <1>7 DEF Known
<1>9. t = IF k \in Known THEN object[k] ELSE NoTimes
  BY <1>2, <1>3, <1>t, <1>b DEF Times
<1>10. k \notin Known => t.created = 0 /\ t.ready = 0 /\ ~t.recorded
  BY <1>9 DEF NoTimes
<1>11. k \in Known => t = object[k]
  BY <1>9
<1>12. ASSUME NEW g \in Known
       PROVE  /\ object'[g].recorded = object[g].recorded
              /\ object[g].ready # 0 => object'[g].ready = object[g].ready
              /\ object[g].created # 0 => object'[g].created = object[g].created
  BY <1>1, <1>5, <1>p, <1>6, <1>11
<1>13. ASSUME NEW g \in Known'
       PROVE  /\ \/ object'[g].ready = 0
                 \/ g \in Known /\ object'[g].ready = object[g].ready
                 \/ g = k /\ w.kind = "ready" /\ object'[g].ready = w.at
              /\ \/ object'[g].created = 0
                 \/ g \in Known /\ object'[g].created = object[g].created
                 \/ g = k /\ w.kind = "created" /\ object'[g].created = w.at
  BY <1>1, <1>5, <1>p, <1>6, <1>8, <1>10, <1>11
<1>14. w.kind = "ready" => object'[k].ready # 0
  BY <1>1, <1>5, <1>p
<1>15. w.kind = "created" => object'[k].created # 0
  BY <1>1, <1>5, <1>p
<1> QED
  BY <1>1, <1>5, <1>p, <1>6, <1>7, <1>8, <1>10, <1>12, <1>13, <1>14, <1>15

LEMMA StoreInv ==
  ASSUME TrackerInv, NEW w \in writers,
         object' = setGeneration(IF object = None THEN NoGenerations ELSE object, w), Stored(w),
         UNCHANGED <<web, watched, call, request, now, seen>>
  PROVE  TrackerInv'
<1> DEFINE k == w.generation
<1>0. /\ w \in WriterRecord /\ w.generation \in Generations /\ w.at \in Nat \ {0}
      /\ object' \in [Known \cup {w.generation} -> GenerationTimes]
      /\ object' # None /\ Known' = Known \cup {w.generation}
      /\ \A g \in Known : /\ object'[g].recorded = object[g].recorded
                          /\ object[g].ready # 0 => object'[g].ready = object[g].ready
                          /\ object[g].created # 0 => object'[g].created = object[g].created
      /\ w.generation \notin Known => ~object'[w.generation].recorded
      /\ \A g \in Known' :
           /\ \/ object'[g].ready = 0
              \/ g \in Known /\ object'[g].ready = object[g].ready
              \/ g = w.generation /\ w.kind = "ready" /\ object'[g].ready = w.at
           /\ \/ object'[g].created = 0
              \/ g \in Known /\ object'[g].created = object[g].created
              \/ g = w.generation /\ w.kind = "created" /\ object'[g].created = w.at
      /\ w.kind = "ready" => object'[w.generation].ready # 0
      /\ w.kind = "created" => object'[w.generation].created # 0
  BY StoredTimes
<1>1. /\ writers' \subseteq writers /\ \A v \in writers : v # w => v \in writers'
      /\ changed \subseteq changed' /\ \A g \in changed' : g \in changed \/ (g = k /\ w.kind = "created")
  BY DEF Stored
<1>2. /\ k \in Generations /\ Known \subseteq Generations /\ Generations \subseteq Nat
      /\ web.generation \in Nat /\ MaxGenerations \in Nat /\ now \in Nat
      /\ seen \in [Generations -> Nat]
  BY <1>0, ObjectTyped, TrackerAssumption, SMTT(30) DEF TrackerInv, Types, Site, Generations
<1>3. Types'
  <2>1. object' \in [Known \cup {k} -> GenerationTimes]
    BY <1>0
  <2>2. changed' \in SUBSET Generations
    BY <1>1, <1>2 DEF TrackerInv, Types
  <2>3. Known \cup {k} \in SUBSET Generations
    BY <1>2
  <2>4. \E known \in SUBSET Generations : object' \in [known -> GenerationTimes]
    BY <2>1, <2>3
  <2> QED
    BY <1>1, <2>2, <2>4 DEF TrackerInv, Types
<1>4. Order'
  BY DEF TrackerInv, Order
<1>5. Before'
  <2>1. \A g \in Known' : object'[g].created <= now /\ object'[g].ready < now
    <3> SUFFICES ASSUME NEW g \in Known' PROVE object'[g].created <= now /\ object'[g].ready < now
      OBVIOUS
    <3>1. now >= 1 /\ w.at <= now /\ (w.kind = "ready" => w.at < now)
      BY DEF TrackerInv, Types, Before
    <3>2. g \in Known => object[g].created <= now /\ object[g].ready < now
      BY DEF TrackerInv, Before
    <3> QED
      BY <1>2, <3>1, <3>2, <1>0
  <2> QED
    BY <1>1, <2>1 DEF TrackerInv, Before
<1>6. Held'
  <2>1. k <= web.generation
    BY DEF TrackerInv, Held
  <2>2. \A g \in Known' : g <= web.generation
    BY <2>1, <1>0 DEF TrackerInv, Held
  <2> QED
    BY <1>1, <2>2 DEF TrackerInv, Held
<1>7. Stores'
  <2>1. w.kind = "ready" => seen[k] = w.at /\ seen[k] # 0
    BY <1>0 DEF TrackerInv, Held
  <2>2. ASSUME NEW g \in Known', object'[g].ready # 0 PROVE Backed(g, object'[g].ready)
    <3>1. CASE g \in Known /\ object'[g].ready = object[g].ready
      BY <2>2, <3>1 DEF TrackerInv, Stores
    <3>2. CASE g = k /\ w.kind = "ready" /\ object'[g].ready = w.at
      <4>1. k \in k .. MaxGenerations /\ \A i \in k .. k - 1 : seen[i] = 0
        BY <1>2 DEF Generations
      <4> QED
        BY <2>1, <3>2, <4>1 DEF Backed
    <3> QED
      BY <2>2, <3>1, <3>2, <1>0
  <2>3. ASSUME NEW i \in Generations, seen[i] # 0
        PROVE  \/ \E v \in writers' : v.kind = "ready" /\ v.generation = i
               \/ i \in Known' /\ object'[i].ready # 0
    <3>1. CASE i \in Known /\ object[i].ready # 0
      BY <3>1, <1>0
    <3>2. ASSUME NEW v \in writers, v.kind = "ready", v.generation = i
          PROVE  \/ \E u \in writers' : u.kind = "ready" /\ u.generation = i
                 \/ i \in Known' /\ object'[i].ready # 0
      <4>1. CASE v = w
        BY <3>2, <4>1, <1>0
      <4>2. CASE v # w
        BY <1>1, <3>2, <4>2
      <4> QED
        BY <4>1, <4>2
    <3> QED
      BY <2>3, <3>1, <3>2 DEF TrackerInv, Stores
  <2>4. ASSUME NEW g \in Known', NEW i \in Known', g < i, object'[i].recorded
        PROVE  object'[g].ready # 0
    <3>1. i \in Known /\ object[i].recorded
      BY <2>4, <1>0
    <3>2. CASE g \in Known
      <4>1. object[g].ready # 0
        BY <2>4, <3>1, <3>2 DEF TrackerInv, Stores
      <4> QED
        BY <3>2, <4>1, <1>0
    <3>3. CASE g \notin Known
      <4>1. g = k
        BY <3>3, <1>0
      <4>2. i <= web.generation
        BY <3>1 DEF TrackerInv, Held
      <4>3. w.kind # "created"
        <5>1. g \in Nat /\ i \in Nat
          BY <1>2, <3>1, <4>1
        <5>2. g # web.generation
          BY <1>2, <2>4, <4>2, <5>1
        <5> QED
          BY <4>1, <5>2 DEF TrackerInv, Held
      <4>4. w.kind = "ready"
        BY <4>3, <1>0 DEF WriterRecord
      <4> QED
        BY <4>1, <4>4, <1>0
    <3> QED
      BY <3>2, <3>3
  <2>5. ASSUME NEW g \in Known', object'[g].recorded
        PROVE  object'[g].created # 0 /\ object'[g].ready # 0
    <3>1. g \in Known /\ object[g].recorded
      BY <2>5, <1>0
    <3>2. object[g].created # 0 /\ object[g].ready # 0
      BY <3>1 DEF TrackerInv, Stores
    <3> QED
      BY <3>1, <3>2, <1>0
  <2>6. ASSUME NEW g \in changed' PROVE g \in Known' /\ object'[g].created # 0
    <3>1. CASE g \in changed
      <4>1. g \in Known /\ object[g].created # 0
        BY <3>1 DEF TrackerInv, Stores
      <4> QED
        BY <4>1, <1>0
    <3>2. CASE g = k /\ w.kind = "created"
      BY <3>2, <1>0
    <3> QED
      BY <1>1, <3>1, <3>2
  <2>7. \A g \in Known' : object'[g].ready # 0 => Backed(g, object[g].ready)'
    BY <2>2 DEF Backed
  <2> QED
    BY <2>3, <2>4, <2>5, <2>6, <2>7 DEF Stores
<1>8. Requested'
  <2>1. ASSUME NEW g \in Known', object'[g].ready # 0, ~object'[g].recorded PROVE request
    <3>1. CASE g \in Known /\ object'[g].ready = object[g].ready
      BY <2>1, <3>1, <1>0 DEF TrackerInv, Requested
    <3>2. CASE w.kind = "ready"
      BY <3>2 DEF TrackerInv, Held
    <3> QED
      BY <2>1, <3>1, <3>2, <1>0
  <2>2. ASSUME NEW g \in changed', NEW h \in Generations, h >= g, seen[h] # 0, ~object'[g].recorded
        PROVE  request
    <3>1. CASE g \in changed
      <4>1. g \in Known
        BY <3>1 DEF TrackerInv, Stores
      <4> QED
        BY <2>2, <3>1, <4>1, <1>0 DEF TrackerInv, Requested
    <3>2. CASE g = k /\ w.kind = "created"
      <4>1. g = web.generation
        BY <3>2 DEF TrackerInv, Held
      <4>2. h <= web.generation
        BY <2>2, <1>2 DEF TrackerInv, Types, Order, Site
      <4>3. h = g
        BY <1>2, <2>2, <4>1, <4>2
      <4>4. CASE g \in Known /\ object[g].ready # 0
        BY <2>2, <4>4, <1>0 DEF TrackerInv, Requested
      <4>5. CASE \E v \in writers : v.kind = "ready" /\ v.generation = g
        BY <4>5 DEF TrackerInv, Held
      <4> QED
        BY <2>2, <4>3, <4>4, <4>5 DEF TrackerInv, Stores
    <3> QED
      BY <1>1, <3>1, <3>2
  <2> QED
    BY <2>1, <2>2 DEF Requested
<1> QED
  BY <1>3, <1>4, <1>5, <1>6, <1>7, <1>8 DEF TrackerInv

LEMMA SetInv == ASSUME TrackerInv, NEW w \in writers, setFast(w) \/ setSlow(w) PROVE TrackerInv'
<1>1. CASE setSlow(w)
  BY <1>1, StoreInv DEF setSlow
<1>2. CASE setFast(w) /\ object # None
  <2>1. object = IF object = None THEN NoGenerations ELSE object
    BY <1>2
  <2> QED
    BY <1>2, <2>1, StoreInv DEF setFast
<1>3. CASE setFast(w) /\ object = None
  <2> DEFINE n == [w EXCEPT !.slow = TRUE]
  <2>1. /\ writers' = (writers \ {w}) \cup {n}
        /\ UNCHANGED <<web, watched, call, object, request, now, seen, changed>> /\ Known' = Known
    BY <1>3 DEF setFast, Known
  <2>2. w \in WriterRecord
    BY DEF TrackerInv, Types
  <2>3. n \in WriterRecord /\ n.kind = w.kind /\ n.generation = w.generation /\ n.at = w.at
        /\ n.awaited = w.awaited
    BY <2>2 DEF WriterRecord
  <2> HIDE DEF n
  <2>4. Types'
    BY <2>1, <2>3 DEF TrackerInv, Types
  <2>5. Order'
    BY <2>1 DEF TrackerInv, Order
  <2>6. Before'
    BY <2>1, <2>3 DEF TrackerInv, Before
  <2>7. Held'
    BY <2>1, <2>3 DEF TrackerInv, Held
  <2>8. Stores'
    <3>1. ASSUME NEW i \in Generations, seen[i] # 0
          PROVE  \/ \E v \in writers' : v.kind = "ready" /\ v.generation = i
                 \/ i \in Known /\ object[i].ready # 0
      BY <2>1, <2>3, <3>1 DEF TrackerInv, Stores
    <3> QED
      BY <2>1, <3>1 DEF TrackerInv, Stores, Backed
  <2>9. Requested'
    BY <2>1 DEF TrackerInv, Requested
  <2> QED
    BY <2>4, <2>5, <2>6, <2>7, <2>8, <2>9 DEF TrackerInv
<1> QED
  BY <1>1, <1>2, <1>3

\* Unless a goroutine holds a time, each observation is in the map: a newer
\* generation's time that stands in for g is that of the next one observed.
LEMMA BackfillBacked ==
  ASSUME TrackerInv, \A w \in writers : ~w.awaited,
         NEW g \in Known, object[g].ready = 0, NEW m \in Newer(object, g),
         \A h \in Newer(object, g) : m <= h
  PROVE  Backed(g, object[m].ready)
<1>1. m \in Known /\ m > g /\ ~object[m].recorded /\ object[m].ready # 0
  BY DEF Newer, sortedValues, Known
<1>2. Known \subseteq Generations /\ Generations \subseteq Nat /\ MaxGenerations \in Nat
  BY ObjectTyped, TrackerAssumption DEF TrackerInv, Generations
<1>3. PICK h \in m .. MaxGenerations :
        seen[h] # 0 /\ object[m].ready = seen[h] /\ \A i \in m .. h - 1 : seen[i] = 0
  BY <1>1 DEF TrackerInv, Stores, Backed
<1>4. ASSUME NEW i \in g .. m - 1, seen[i] # 0 PROVE FALSE
  <2>1. i \in Generations
    BY <1>1, <1>2 DEF Generations
  <2>2. ~\E w \in writers : w.kind = "ready" /\ w.generation = i
    BY DEF TrackerInv, Held
  <2>3. i \in Known /\ object[i].ready # 0
    BY <1>4, <2>1, <2>2 DEF TrackerInv, Stores
  <2>4. i > g
    BY <1>2, <2>3
  <2>5. ~object[i].recorded
    BY <2>3, <2>4, <1>2 DEF TrackerInv, Stores
  <2>6. i \in Newer(object, g)
    BY <2>3, <2>4, <2>5 DEF Newer, sortedValues, Known
  <2>7. m <= i
    BY <2>6
  <2> QED
    BY <1>1, <1>2, <2>7
<1>5. h \in g .. MaxGenerations /\ \A i \in g .. h - 1 : i \in g .. m - 1 \/ i \in m .. h - 1
  BY <1>1, <1>2, <1>3
<1> QED
  BY <1>3, <1>4, <1>5 DEF Backed

\* The map after Reconcile.
LEMMA ReconciledTimes ==
  ASSUME TrackerInv, NEW p,
         p = recordNewReadyGenerations(backfillGenerations(IF object = None THEN NoGenerations ELSE object))
  PROVE  /\ Known \in SUBSET Generations
         /\ p \in [Known -> GenerationTimes]
         /\ \A g \in Known :
              /\ object[g] \in GenerationTimes
              /\ p[g].created = object[g].created
              /\ p[g].recorded <=> object[g].recorded \/ (p[g].created # 0 /\ p[g].ready # 0)
              /\ object[g].ready # 0 => p[g].ready = object[g].ready
              /\ object[g].ready = 0 /\ Newer(object, g) = {} => p[g].ready = 0
              /\ object[g].ready = 0 /\ Newer(object, g) # {} =>
                   \E m \in Newer(object, g) : p[g].ready = object[m].ready /\ \A h \in Newer(object, g) : m <= h
<1>1. Known \in SUBSET Generations /\ \A g \in Known : object[g] \in GenerationTimes
  BY ObjectTyped DEF TrackerInv
<1>2. CASE object = None
  <2>1. NoGenerations \in [{} -> GenerationTimes] /\ Known = {} /\ {} \in SUBSET Generations
    BY <1>2 DEF NoGenerations, Known
  <2>2. PICK o : o = NoGenerations
    OBVIOUS
  <2>3. p = recordNewReadyGenerations(backfillGenerations(o)) /\ o \in [{} -> GenerationTimes]
    BY <1>2, <2>1, <2>2
  <2>4. p \in [{} -> GenerationTimes]
    BY <2>1, <2>3, Reconciled
  <2> QED
    BY <1>1, <2>1, <2>4
<1>3. CASE object # None
  <2>1. object \in [Known -> GenerationTimes]
    BY <1>3, ObjectTyped DEF TrackerInv
  <2>2. PICK o : o = object
    OBVIOUS
  <2>3. PICK known \in SUBSET Generations : known = Known
    BY <1>1
  <2>4. o \in [known -> GenerationTimes] /\ p = recordNewReadyGenerations(backfillGenerations(o))
    BY <1>3, <2>1, <2>2, <2>3
  <2>5. /\ p \in [known -> GenerationTimes]
        /\ \A g \in known : FilledAndRecorded(o, p, g)
    BY <2>4, Reconciled
  <2>6. \A g \in Known : object[g].ready = 0 => ~object[g].recorded
    BY DEF TrackerInv, Stores
  <2>7. p \in [Known -> GenerationTimes]
    BY <2>3, <2>5
  <2>8. ASSUME NEW g \in Known
        PROVE  /\ p[g].created = object[g].created
               /\ p[g].recorded <=> object[g].recorded \/ (p[g].created # 0 /\ p[g].ready # 0)
               /\ object[g].ready # 0 => p[g].ready = object[g].ready
               /\ object[g].ready = 0 /\ Newer(object, g) = {} => p[g].ready = 0
               /\ object[g].ready = 0 /\ Newer(object, g) # {} =>
                    \E m \in Newer(object, g) : p[g].ready = object[m].ready /\ \A h \in Newer(object, g) : m <= h
    <3>1. g \in known /\ (o[g].ready = 0 => ~o[g].recorded)
      BY <2>2, <2>3, <2>6
    <3>2. /\ p[g].created = o[g].created
          /\ p[g].recorded <=> o[g].recorded \/ (p[g].created # 0 /\ p[g].ready # 0)
          /\ o[g].ready # 0 => p[g].ready = o[g].ready
          /\ o[g].ready = 0 /\ Newer(o, g) = {} => p[g].ready = 0
          /\ o[g].ready = 0 /\ Newer(o, g) # {} =>
               \E m \in Newer(o, g) : p[g].ready = o[m].ready /\ \A h \in Newer(o, g) : m <= h
      BY <2>5, <3>1 DEF FilledAndRecorded
    <3> QED
      BY <2>2, <3>2, Zenon
  <2> QED
    BY <1>1, <2>7, <2>8
<1> QED
  BY <1>2, <1>3

LEMMA ReconcileInv == ASSUME TrackerInv, ReconcileObject PROVE TrackerInv'
<1>1. PICK p : p = recordNewReadyGenerations(backfillGenerations(IF object = None THEN NoGenerations ELSE object))
  OBVIOUS
<1>2. /\ object' = p /\ request' = (\E g \in DOMAIN object' : ~object'[g].recorded)
      /\ \A w \in writers : ~w.awaited
      /\ UNCHANGED <<web, watched, call, writers, now, seen, changed>>
  BY <1>1 DEF ReconcileObject
<1>3. /\ Known \in SUBSET Generations /\ p \in [Known -> GenerationTimes]
      /\ \A g \in Known :
              /\ object[g] \in GenerationTimes
              /\ p[g].created = object[g].created
              /\ p[g].recorded <=> object[g].recorded \/ (p[g].created # 0 /\ p[g].ready # 0)
              /\ object[g].ready # 0 => p[g].ready = object[g].ready
              /\ object[g].ready = 0 /\ Newer(object, g) = {} => p[g].ready = 0
              /\ object[g].ready = 0 /\ Newer(object, g) # {} =>
                   \E m \in Newer(object, g) : p[g].ready = object[m].ready /\ \A h \in Newer(object, g) : m <= h
  BY <1>1, ReconciledTimes
<1>4. Known' = Known
  <2>1. p # None
    BY <1>3, TrackerAssumption
  <2> QED
    BY <1>2, <1>3, <2>1 DEF Known
<1>5. \A w \in writers : w.kind # "ready"
  BY <1>2 DEF TrackerInv, Held
<1>6. \A g \in Known : \A m \in Newer(object, g) : m \in Known /\ m > g /\ ~object[m].recorded /\ object[m].ready # 0
  BY DEF Newer, sortedValues, Known
<1>7. \A g \in Known, m \in Known : m > g /\ ~object[m].recorded /\ object[m].ready # 0 => m \in Newer(object, g)
  BY DEF Newer, sortedValues, Known
<1>8. Known \subseteq Nat
  BY <1>3 DEF Generations
<1>9. Types'
  BY <1>2, <1>3 DEF TrackerInv, Types
<1>10. Order' /\ Held'
  BY <1>2, <1>4, <1>5 DEF TrackerInv, Order, Held
<1>11. Before'
  <2>1. ASSUME NEW g \in Known PROVE p[g].created <= now /\ p[g].ready < now
    <3>1. \A h \in Known : object[h].created <= now /\ object[h].ready < now
      BY DEF TrackerInv, Before
    <3>2. now \in Nat \ {0}
      BY DEF TrackerInv, Types
    <3>3. p[g].ready = object[g].ready \/ p[g].ready = 0 \/ \E m \in Known : p[g].ready = object[m].ready
      BY <1>3, <1>6
    <3> QED
      BY <1>3, <3>1, <3>2, <3>3
  <2> QED
    BY <1>2, <1>4, <2>1 DEF TrackerInv, Before
<1>12. Stores'
  <2>1. ASSUME NEW g \in Known, p[g].ready # 0 PROVE Backed(g, p[g].ready)
    <3>1. CASE object[g].ready # 0
      BY <1>3, <3>1 DEF TrackerInv, Stores
    <3>2. CASE object[g].ready = 0
      <4>1. PICK m \in Newer(object, g) : p[g].ready = object[m].ready /\ \A h \in Newer(object, g) : m <= h
        BY <1>3, <2>1, <3>2
      <4> QED
        BY <1>2, <3>2, <4>1, BackfillBacked
    <3> QED
      BY <3>1, <3>2
  <2>2. ASSUME NEW i \in Generations, seen[i] # 0 PROVE i \in Known /\ p[i].ready # 0
    BY <1>3, <1>5, <2>2 DEF TrackerInv, Stores
  <2>3. ASSUME NEW g \in Known, NEW i \in Known, g < i, p[i].recorded PROVE p[g].ready # 0
    <3>1. CASE object[g].ready # 0
      BY <1>3, <3>1
    <3>2. CASE object[g].ready = 0
      <4>1. ~object[i].recorded
        BY <2>3, <3>2 DEF TrackerInv, Stores
      <4>2. p[i].ready # 0
        BY <1>3, <2>3, <4>1
      <4>3. Newer(object, g) # {}
        <5>1. CASE object[i].ready # 0
          BY <1>7, <2>3, <4>1, <5>1
        <5>2. CASE object[i].ready = 0
          <6>1. PICK m \in Newer(object, i) : TRUE
            BY <1>3, <4>2, <5>2
          <6>2. m \in Known /\ m > i /\ ~object[m].recorded /\ object[m].ready # 0
            BY <1>6, <6>1
          <6>3. m > g
            BY <1>8, <2>3, <6>2
          <6> QED
            BY <1>7, <6>2, <6>3
        <5> QED
          BY <5>1, <5>2
      <4>4. PICK m \in Newer(object, g) : p[g].ready = object[m].ready
        BY <1>3, <3>2, <4>3
      <4> QED
        BY <1>6, <4>4
    <3> QED
      BY <3>1, <3>2
  <2>4. ASSUME NEW g \in Known, p[g].recorded PROVE p[g].created # 0 /\ p[g].ready # 0
    BY <1>3, <2>4 DEF TrackerInv, Stores
  <2>5. ASSUME NEW g \in changed PROVE g \in Known /\ p[g].created # 0
    BY <1>3 DEF TrackerInv, Stores
  <2>6. \A g \in Known' : object'[g].ready # 0 => Backed(g, object[g].ready)'
    BY <1>2, <1>4, <2>1 DEF Backed
  <2> QED
    BY <1>2, <1>4, <2>2, <2>3, <2>4, <2>5, <2>6 DEF Stores
<1>13. Requested'
  <2>1. \A g \in Known : ~p[g].recorded => request'
    BY <1>2, <1>3
  <2>2. changed \subseteq Known
    BY DEF TrackerInv, Stores
  <2> QED
    BY <1>2, <1>4, <2>1, <2>2 DEF Requested
<1> QED
  BY <1>9, <1>10, <1>11, <1>12, <1>13 DEF TrackerInv

-----------------------------------------------------------------------------
(* The tracker as a whole.                                                 *)

LEMMA TrackerInitInv == TrackerInit => TrackerInv
<1> SUFFICES ASSUME TrackerInit PROVE TrackerInv
  OBVIOUS
<1> USE DEF TrackerInit
<1>1. MaxGenerations \in Nat /\ NoWebsite \in Site
  <2>1. 0 \in 0 .. MaxGenerations
    BY TrackerAssumption
  <2> QED
    BY <2>1, TrackerAssumption DEF NoWebsite, Site
<1>2. Types
  <2>1. seen \in [Generations -> Nat] /\ changed \in SUBSET Generations /\ writers \in SUBSET WriterRecord
    OBVIOUS
  <2>2. web \in Site /\ watched \in Site
    BY <1>1, Zenon
  <2>3. request \in BOOLEAN /\ call \in Generations \cup {None} /\ object = None
    BY Zenon
  <2>4. now \in Nat \ {0}
    BY SMT
  <2> QED
    BY <2>1, <2>2, <2>3, <2>4, Zenon DEF Types
<1>3. Known = {}
  BY DEF Known
<1>4. Order
  BY DEF Order, NoWebsite
<1>5. Before /\ Held /\ Stores /\ Requested
  BY <1>3 DEF Before, Held, Stores, Requested, NoWebsite
<1> QED
  BY <1>2, <1>4, <1>5 DEF TrackerInv

\* every step that changes the tracker's state, whoever takes it
TrackerStep ==
  \/ CreateWebsite \/ MutateWebsite \/ DeleteWebsite \/ UpdateWebsiteStatus \/ LoseResponse
  \/ /\ web' = [web EXCEPT !.exists = FALSE]
     /\ UNCHANGED <<watched, call, writers, object, request, now, seen, changed>>
  \/ RecordSpecChange \/ DeliverWebsite \/ ReconcileObject
  \/ \E w \in writers : setFast(w) \/ setSlow(w)

LEMMA TrackerStepInv == ASSUME TrackerInv, [TrackerStep]_trackerVars PROVE TrackerInv'
<1>1. CASE UNCHANGED trackerVars
  <2> USE <1>1 DEF trackerVars
  <2>1. Types' /\ Order' /\ Known' = Known
    BY DEF TrackerInv, Types, Order, Known
  <2>2. Before' /\ Held'
    BY <2>1 DEF TrackerInv, Before, Held
  <2>3. Stores' /\ Requested'
    BY <2>1 DEF TrackerInv, Stores, Requested, Backed
  <2> QED
    BY <2>1, <2>2, <2>3 DEF TrackerInv
<1>2. CASE DeleteWebsite
  BY <1>2, GoneInv DEF DeleteWebsite
<1> QED
  BY <1>1, <1>2, CreateWebsiteInv, MutateWebsiteInv, UpdateStatusInv, LoseResponseInv, GoneInv,
     RecordSpecChangeInv, DeliverWebsiteInv, ReconcileInv, SetInv DEF TrackerStep

LEMMA TrackerTyped == TrackerInv => TrackerTypeOK
<1> SUFFICES ASSUME TrackerInv PROVE TrackerTypeOK
  OBVIOUS
<1>1. web.generation \in 0 .. MaxGenerations /\ web.observed <= web.generation
  BY DEF TrackerInv, Types, Order, Site
<1>2. \A w \in writers : w.generation \in Generations /\ w.at \in 1 .. now
  BY DEF TrackerInv, Types, Before, WriterRecord
<1>3. object # None => DOMAIN object = Known /\ Known \subseteq Generations
  BY ObjectTyped DEF TrackerInv, Known
<1> QED
  BY <1>1, <1>2, <1>3 DEF TrackerTypeOK, TrackerInv, Types, Before

LEMMA TrackerAccurate == TrackerInv => LatencyAccurate
<1> SUFFICES ASSUME TrackerInv, NEW g \in Generations, Recorded(g)
             PROVE  \E h \in g .. MaxGenerations :
                      /\ seen[h] # 0 /\ object[g].ready = seen[h]
                      /\ \A i \in g .. h - 1 : seen[i] = 0
  BY DEF LatencyAccurate
<1>1. g \in Known /\ object[g].recorded
  BY DEF Recorded, Known
<1>2. Backed(g, object[g].ready)
  BY <1>1 DEF TrackerInv, Stores
<1> QED
  BY <1>2 DEF Backed

LEMMA TrackerMeasured == TrackerInv => Measured
<1> SUFFICES ASSUME TrackerInv, NEW g \in changed, NEW h \in Generations, h >= g, seen[h] # 0, ~Recorded(g)
             PROVE  /\ request
                    /\ writers = {} => recordNewReadyGenerations(backfillGenerations(object))[g].recorded
  BY DEF Measured
<1>1. g \in Known /\ object # None /\ object[g].created # 0 /\ ~object[g].recorded
  <2>1. g \in Known /\ object[g].created # 0
    BY DEF TrackerInv, Stores
  <2> QED
    BY <2>1 DEF Known, Recorded
<1>2. request
  BY <1>1 DEF TrackerInv, Requested
<1>3. ASSUME writers = {} PROVE recordNewReadyGenerations(backfillGenerations(object))[g].recorded
  <2>1. PICK p : p = recordNewReadyGenerations(backfillGenerations(object))
    OBVIOUS
  <2>2. p = recordNewReadyGenerations(backfillGenerations(IF object = None THEN NoGenerations ELSE object))
    BY <1>1, <2>1
  <2>3. /\ p[g].created = object[g].created
        /\ p[g].recorded <=> object[g].recorded \/ (p[g].created # 0 /\ p[g].ready # 0)
        /\ object[g].ready # 0 => p[g].ready = object[g].ready
        /\ object[g].ready = 0 /\ Newer(object, g) # {} =>
             \E m \in Newer(object, g) : p[g].ready = object[m].ready
    BY <1>1, <2>2, ReconciledTimes
  <2>4. h \in Known /\ object[h].ready # 0
    BY <1>3 DEF TrackerInv, Stores
  <2>5. Known \subseteq Nat
    BY ObjectTyped DEF TrackerInv, Generations
  <2>6. CASE object[g].ready = 0
    <3>1. h > g
      BY <1>1, <2>4, <2>5, <2>6
    <3>2. ~object[h].recorded
      BY <1>1, <2>4, <2>6, <3>1, <2>5 DEF TrackerInv, Stores
    <3>3. h \in Newer(object, g)
      BY <2>4, <3>1, <3>2 DEF Newer, sortedValues, Known
    <3>4. PICK m \in Newer(object, g) : p[g].ready = object[m].ready
      BY <2>3, <2>6, <3>3
    <3>5. p[g].ready # 0
      BY <3>4 DEF Newer
    <3> QED
      BY <1>1, <2>1, <2>3, <3>5
  <2> QED
    BY <1>1, <2>1, <2>3, <2>6
<1> QED
  BY <1>2, <1>3
=============================================================================
