--------------------------- MODULE ShardingProofs ---------------------------
(***************************************************************************)
(* Proofs about Sharding, for every set of shards, objects and replicas    *)
(* and every hash ring.  The exclusion theorems hold under JoinsSettled.   *)
(***************************************************************************)
EXTENDS Sharding, WellFoundedInduction, TLAPS

\* only available shards run, and nobody overlooks an available shard
AvailableSeen ==
  /\ running \subseteq avail
  /\ \A r \in Replicas : avail \subseteq view[r]
  /\ resyncing => avail \subseteq snapshot
  /\ ~resyncing => items = {}

\* an object that is to be moved without drain has no available shard
MoveSafe ==
  \A o \in Mains : [obj |-> o, drain |-> FALSE] \in items => store[o].shard \notin avail

\* what copies say
CopiesSound ==
  \A s \in Shards, o \in Objects :
    /\ cache[s][o].cur => /\ cache[s][o].shard = store[o].shard
                          /\ cache[s][o].drain = store[o].drain
    /\ s \notin running => cache[s][o] = NoCopy
    /\ cache[s][o].shard = s /\ ~cache[s][o].drain /\ o \in Mains => store[o].shard = s

\* nobody works on what is not assigned to it
ReconOwned ==
  \A s \in Shards : \A o \in recon[s] : s \in running /\ store[o].shard = s

\* an object that does not exist has no labels and no work items
Uncreated == /\ \A o \in Objects \ objects : store[o] = Unassigned
             /\ \A i \in items : i.obj \in objects

IndInv == AvailableSeen /\ MoveSafe /\ CopiesSound /\ ReconOwned /\ Uncreated

\* a write may take object o from whoever has it: nobody can be working on it
Untouched(o) == o \in Mains => \A s \in running : store[o].shard = s =>
                                  o \notin recon[s] /\ (cache[s][o].shard = s => cache[s][o].drain)
-----------------------------------------------------------------------------
(* What the operators return *)

\* the hash ring has a first shard after every key
LEMMA HashTyped ==
  ASSUME NEW ring \in SUBSET Shards, NEW k \in Mains
  PROVE  /\ Hash(ring, k) \in Label
         /\ ring # {} => Hash(ring, k) \in ring
<1>1. CASE ring = {}
  BY <1>1 DEF Hash, Label
<1>2. CASE ring # {}
  <2> DEFINE T == {Position[k][s] : s \in ring}
  <2>1. T \subseteq Nat /\ T # {}
    BY <1>2, PositionAssumption
  <2>2. PICK m \in T : \A n \in T : ~(<<n, m>> \in OpToRel(<, Nat))
    BY <2>1, WFMin, NatLessThanWellFounded
  <2>3. \A n \in T : m <= n
    <3> SUFFICES ASSUME NEW n \in T PROVE m <= n
      OBVIOUS
    <3>1. ~(<<n, m>> \in OpToRel(<, Nat))
      BY <2>2
    <3>2. n \in Nat /\ m \in Nat
      BY <2>1
    <3>3. ~(n < m)
      BY <3>1, <3>2 DEF OpToRel
    <3> QED  BY <3>2, <3>3
  <2>4. PICK s \in ring : Position[k][s] = m
    OBVIOUS
  <2>5. \A t \in ring : Position[k][s] <= Position[k][t]
    BY <2>3, <2>4
  <2>6. Hash(ring, k) \in ring
    BY <1>2, <2>5 DEF Hash
  <2> QED  BY <2>6 DEF Label
<1> QED  BY <1>1, <1>2

LEMMA KeyTyped == \A o \in Objects : Key(o) \in Mains
BY ShardingAssumption DEF Key, Objects

\* the webhook's answers are labels without drain
LEMMA AssignmentsTyped ==
  ASSUME TypeOK, NEW o \in Objects
  PROVE  Assignments(o) \subseteq Labels
<1> SUFFICES ASSUME NEW r \in Replicas
             PROVE  [shard |-> Hash(view[r], Key(o)), drain |-> FALSE] \in Labels
  BY DEF Assignments
<1>1. view[r] \in SUBSET Shards
  BY DEF TypeOK
<1> QED  BY <1>1, HashTyped, KeyTyped DEF Labels

LEMMA OutdatedCopy ==
  ASSUME NEW c \in Copy
  PROVE  /\ Outdated(c) \in Copy
         /\ Outdated(c).shard = c.shard /\ Outdated(c).drain = c.drain /\ ~Outdated(c).cur
         /\ c = NoCopy => Outdated(c) = NoCopy
<1>1. Outdated(c).shard = c.shard /\ Outdated(c).drain = c.drain /\ Outdated(c).cur = FALSE
  BY DEF Outdated
<1>2. c.shard \in Label /\ c.drain \in BOOLEAN
  BY DEF Copy
<1>3. Outdated(c) \in Copy
  BY <1>2 DEF Copy, Outdated
<1>4. c = NoCopy => Outdated(c) = NoCopy
  BY DEF Outdated, NoCopy
<1> QED  BY <1>1, <1>3, <1>4

\* what a write does to the labels, to the copies and to the work items
LEMMA PatchEffect ==
  ASSUME TypeOK, NEW o \in Objects, NEW labels \in Labels,
         Patch(o, labels) \/ Write(o, labels)
  PROVE  /\ store' = [store EXCEPT ![o] = labels]
         /\ cache' \in [Shards -> [Objects -> Copy]]
         /\ \A s \in Shards, p \in Objects :
              /\ cache'[s][p].shard = cache[s][p].shard
              /\ cache'[s][p].drain = cache[s][p].drain
              /\ cache'[s][p].cur => cache[s][p].cur /\ store'[p] = store[p]
              /\ cache[s][p] = NoCopy => cache'[s][p] = NoCopy
         /\ items' = {i \in items : i.obj # o}
<1>1. CASE UNCHANGED <<store, cache>> /\ labels = store[o] /\ items' = {i \in items : i.obj # o}
  BY <1>1 DEF TypeOK
<1>2. CASE Write(o, labels)
  <2>1. /\ store' = [store EXCEPT ![o] = labels]
        /\ items' = {i \in items : i.obj # o}
        /\ cache' = [s \in Shards |-> [cache[s] EXCEPT ![o] = Outdated(cache[s][o])]]
    BY <1>2 DEF Write
  <2>2. \A s \in Shards : cache[s] \in [Objects -> Copy]
    BY DEF TypeOK
  <2>3. \A s \in Shards, p \in Objects :
           cache'[s][p] = IF p = o THEN Outdated(cache[s][p]) ELSE cache[s][p]
    BY <2>1, <2>2
  <2>4. ASSUME NEW s \in Shards, NEW p \in Objects
        PROVE  /\ cache'[s][p] \in Copy
               /\ cache'[s][p].shard = cache[s][p].shard
               /\ cache'[s][p].drain = cache[s][p].drain
               /\ cache'[s][p].cur => p # o /\ cache[s][p].cur
               /\ cache[s][p] = NoCopy => cache'[s][p] = NoCopy
    <3>1. cache[s][p] \in Copy
      BY <2>2
    <3>2. CASE p = o
      <4>1. cache'[s][p] = Outdated(cache[s][p])
        BY <2>3, <3>2
      <4> QED  BY <3>1, <4>1, OutdatedCopy
    <3>3. CASE p # o
      <4>1. cache'[s][p] = cache[s][p]
        BY <2>3, <3>3
      <4> QED  BY <3>1, <3>3, <4>1
    <3> QED  BY <3>2, <3>3
  <2>5. cache' \in [Shards -> [Objects -> Copy]]
    BY <2>1, <2>2, <2>4
  <2>7. \A p \in Objects : p # o => store'[p] = store[p]
    BY <2>1 DEF TypeOK
  <2> QED  BY <2>1, <2>4, <2>5, <2>7
<1> QED  BY <1>1, <1>2 DEF Patch

\* a write through the webhook is a patch to some labels
LEMMA AdmittedEffect ==
  ASSUME TypeOK, NEW o \in Objects, Admitted(o)
  PROVE  /\ \E labels \in Labels : Patch(o, labels)
         /\ events' \in Nat
<1>1. Unassigned \in Labels
  BY DEF Unassigned, Labels, Label
<1>2. events \in Nat
  BY DEF TypeOK
<1> QED  BY <1>1, <1>2, AssignmentsTyped DEF Admitted, Event

\* an update of a user, too, and it keeps an assignment
LEMMA UpdateEffect ==
  ASSUME TypeOK, NEW o \in Objects, Update(o)
  PROVE  \E labels \in Labels : /\ Write(o, labels)
                                /\ store[o].shard # None => labels = store[o]
<1>1. store[o] \in Labels
  BY DEF TypeOK
<1> QED  BY <1>1, AssignmentsTyped DEF Update
-----------------------------------------------------------------------------
(* Types *)

LEMMA WriteTyped ==
  ASSUME TypeOK, NEW o \in Objects, NEW labels \in Labels,
         Patch(o, labels) \/ Write(o, labels)
  PROVE  /\ store' \in [Objects -> Labels]
         /\ cache' \in [Shards -> [Objects -> Copy]]
         /\ items' \subseteq Item
<1>1. store \in [Objects -> Labels] /\ items \subseteq Item
  BY DEF TypeOK
<1> QED  BY <1>1, PatchEffect

LEMMA TypeShards ==
  ASSUME TypeOK, NEW s \in Shards, Join(s) \/ Crash(s) \/ Restart(s) \/ Die(s)
  PROVE  TypeOK'
<1> USE DEF TypeOK, objectVars, opVars
<1>1. CASE Join(s)
  <2>1. view' \in [Replicas -> SUBSET Shards]
    BY <1>1 DEF Join
  <2>2. events' \in Nat
    BY <1>1 DEF Join, Event
  <2> QED  BY <1>1, <2>1, <2>2 DEF Join
<1>2. CASE Crash(s)
  <2>1. NoCopy \in Copy
    BY DEF NoCopy, Copy, Label
  <2>2. cache' \in [Shards -> [Objects -> Copy]]
    BY <1>2, <2>1 DEF Crash
  <2>3. recon' \in [Shards -> SUBSET Mains]
    BY <1>2 DEF Crash
  <2>4. events' \in Nat
    BY <1>2 DEF Crash, Event
  <2> QED  BY <1>2, <2>2, <2>3, <2>4 DEF Crash
<1>3. CASE Restart(s)
  BY <1>3 DEF Restart
<1>4. CASE Die(s)
  BY <1>4 DEF Die
<1> QED  BY <1>1, <1>2, <1>3, <1>4

LEMMA TypeUsers ==
  ASSUME TypeOK, NEW o \in Objects, Create(o) \/ Update(o)
  PROVE  TypeOK'
<1>1. CASE Create(o)
  <2>1. Admitted(o)
    BY <1>1 DEF Create
  <2> QED  BY <1>1, <2>1, AdmittedEffect, WriteTyped DEF Create, TypeOK, shardVars, opVars
<1>2. CASE Update(o)
  <2>1. events' \in Nat
    BY <1>2 DEF Update, Event, TypeOK
  <2> QED  BY <1>2, <2>1, UpdateEffect, WriteTyped DEF Update, TypeOK, shardVars, opVars
<1> QED  BY <1>1, <1>2

\* a work item of a listed object
LEMMA WorkItemsTyped ==
  ASSUME NEW o \in Objects
  PROVE  /\ WorkItems(o) \subseteq Item
         /\ \A i \in WorkItems(o) : i.obj = o /\ o \in objects /\ (i.drain \/ o \in Controlled
                                                   \/ store[o].shard \notin snapshot \/ store[o].shard = None)
<1> DEFINE d == store[o].shard # None /\ store[o].shard \in snapshot /\ o \notin Controlled
<1>1. WorkItems(o) \subseteq {[obj |-> o, drain |-> d]} /\ (WorkItems(o) # {} => o \in objects)
  BY DEF WorkItems
<1>2. d \in BOOLEAN
  OBVIOUS
<1>3. [obj |-> o, drain |-> d] \in Item
  BY <1>2 DEF Item
<1>4. [obj |-> o, drain |-> d].obj = o /\ [obj |-> o, drain |-> d].drain = d
  OBVIOUS
<1> QED  BY <1>1, <1>3, <1>4

LEMMA TypeResync ==
  ASSUME TypeOK, Resync \/ AbortResync
  PROVE  TypeOK'
<1>1. CASE StartResync
  BY <1>1, ShardingAssumption DEF StartResync, TypeOK, shardVars, objectVars
<1>2. CASE FinishResync
  BY <1>2 DEF FinishResync, TypeOK, shardVars, objectVars
<1>3. CASE AbortResync
  <2>1. events' \in Nat
    BY <1>3 DEF AbortResync, Event, TypeOK
  <2> QED  BY <1>3, <2>1 DEF AbortResync, TypeOK, shardVars, objectVars
<1>4. ASSUME NEW o \in Objects, ListObject(o) PROVE TypeOK'
  BY <1>4, WorkItemsTyped DEF ListObject, TypeOK, shardVars, objectVars
<1>5. ASSUME NEW o \in Objects, ListStale(o) PROVE TypeOK'
  <2>1. events' \in Nat
    BY <1>5 DEF ListStale, Event, TypeOK
  <2> QED  BY <1>5, <2>1 DEF ListStale, TypeOK, shardVars, objectVars
<1>6. ASSUME NEW o \in Objects, DrainObject(o) PROVE TypeOK'
  <2>1. store[o].shard \in Label
    BY DEF TypeOK, Labels
  <2>2. [shard |-> store[o].shard, drain |-> TRUE] \in Labels
    BY <2>1 DEF Labels
  <2> QED  BY <1>6, <2>2, WriteTyped DEF DrainObject, TypeOK, shardVars, opVars
<1>7. ASSUME NEW o \in Objects, MoveObject(o) PROVE TypeOK'
  <2>1. Admitted(o)
    BY <1>7 DEF MoveObject
  <2> QED  BY <1>7, <2>1, AdmittedEffect, WriteTyped DEF MoveObject, TypeOK, shardVars, opVars
<1> QED  BY <1>1, <1>2, <1>3, <1>4, <1>5, <1>6, <1>7 DEF Resync

LEMMA TypeShard ==
  ASSUME TypeOK, NEW s \in Shards, NEW o \in Objects,
         SyncCache(s, o) \/ BeginReconcile(s, o) \/ EndReconcile(s, o) \/ AckDrain(s, o)
  PROVE  TypeOK'
<1>1. CASE SyncCache(s, o)
  <2>1. store[o].shard \in Label /\ store[o].drain \in BOOLEAN
    BY DEF TypeOK, Labels
  <2>2. [shard |-> store[o].shard, drain |-> store[o].drain, cur |-> TRUE] \in Copy
    BY <2>1 DEF Copy
  <2>3. cache' \in [Shards -> [Objects -> Copy]]
    BY <1>1, <2>2 DEF SyncCache, TypeOK
  <2> QED  BY <1>1, <2>3 DEF SyncCache, TypeOK, shardVars, opVars
<1>2. CASE BeginReconcile(s, o)
  <2>1. recon' \in [Shards -> SUBSET Mains]
    BY <1>2 DEF BeginReconcile, TypeOK
  <2> QED  BY <1>2, <2>1 DEF BeginReconcile, TypeOK, shardVars, objectVars, opVars
<1>3. CASE EndReconcile(s, o)
  <2>1. recon' \in [Shards -> SUBSET Mains]
    BY <1>3 DEF EndReconcile, TypeOK
  <2> QED  BY <1>3, <2>1 DEF EndReconcile, TypeOK, shardVars, objectVars, opVars
<1>4. CASE AckDrain(s, o)
  <2>1. Admitted(o)
    BY <1>4 DEF AckDrain
  <2> QED  BY <1>4, <2>1, AdmittedEffect, WriteTyped DEF AckDrain, TypeOK, shardVars, opVars
<1> QED  BY <1>1, <1>2, <1>3, <1>4

LEMMA TypeInit == Init => TypeOK
<1> SUFFICES ASSUME Init PROVE TypeOK
  OBVIOUS
<1>1. Unassigned \in Labels /\ NoCopy \in Copy
  BY DEF Unassigned, NoCopy, Labels, Copy, Label
<1> QED  BY <1>1 DEF Init, TypeOK

LEMMA TypeNext == TypeOK /\ [Next]_vars => TypeOK'
<1> SUFFICES ASSUME TypeOK, [Next]_vars PROVE TypeOK'
  OBVIOUS
<1>1. CASE UNCHANGED vars
  BY <1>1 DEF TypeOK, vars, shardVars, objectVars, opVars
<1>2. ASSUME NEW r \in Replicas, NEW s \in Shards, Observe(r, s) PROVE TypeOK'
  BY <1>2 DEF Observe, TypeOK, objectVars, opVars
<1> QED  BY <1>1, <1>2, TypeShards, TypeUsers, TypeResync, TypeShard DEF Next

(***************************************************************************)
(* Every state of Sharding is well typed; in particular the webhook and    *)
(* the resync only ever write names of shards into the shard label.        *)
(***************************************************************************)
THEOREM TypeCorrect == Spec => []TypeOK
<1> QED  BY TypeInit, TypeNext, PTL DEF Spec
-----------------------------------------------------------------------------
(* Exclusion *)

\* a write keeps the invariant when it keeps the shard label or takes the
\* object from nobody
LEMMA WriteKeeps ==
  ASSUME TypeOK, IndInv, NEW o \in Objects, NEW labels \in Labels,
         Patch(o, labels) \/ Write(o, labels),
         labels.shard = store[o].shard \/ Untouched(o),
         UNCHANGED <<shardVars, recon, opVars>>,
         objects' = objects \/ objects' = objects \cup {o},
         o \in objects'
  PROVE  IndInv'
<1> USE DEF IndInv
<1>1. /\ store' = [store EXCEPT ![o] = labels]
      /\ items' = {i \in items : i.obj # o}
  BY PatchEffect
<1>2. \A p \in Objects : /\ p # o => store'[p] = store[p]
                         /\ store'[o] = labels
  BY <1>1 DEF TypeOK
<1>3. AvailableSeen'
  BY <1>1 DEF AvailableSeen, shardVars, opVars
<1>4. MoveSafe'
  <2> SUFFICES ASSUME NEW p \in Mains, [obj |-> p, drain |-> FALSE] \in items'
               PROVE  store'[p].shard \notin avail'
    BY DEF MoveSafe
  <2>1. [obj |-> p, drain |-> FALSE] \in items /\ [obj |-> p, drain |-> FALSE].obj # o
    BY <1>1
  <2>2. p # o /\ p \in Objects
    BY <2>1 DEF Objects
  <2> QED  BY <1>2, <2>1, <2>2 DEF MoveSafe, shardVars
<1>5. \A s \in running : o \in Mains /\ store[o].shard = s
                          /\ (o \in recon[s] \/ (cache[s][o].shard = s /\ ~cache[s][o].drain))
                        => labels.shard = s
  BY DEF Untouched
<1>6. CopiesSound'
  <2> SUFFICES ASSUME NEW s \in Shards, NEW p \in Objects
               PROVE  /\ cache'[s][p].cur => /\ cache'[s][p].shard = store'[p].shard
                                             /\ cache'[s][p].drain = store'[p].drain
                      /\ s \notin running' => cache'[s][p] = NoCopy
                      /\ cache'[s][p].shard = s /\ ~cache'[s][p].drain /\ p \in Mains
                            => store'[p].shard = s
    BY DEF CopiesSound
  <2>1. /\ cache'[s][p].shard = cache[s][p].shard
        /\ cache'[s][p].drain = cache[s][p].drain
        /\ cache'[s][p].cur => cache[s][p].cur /\ store'[p] = store[p]
        /\ cache[s][p] = NoCopy => cache'[s][p] = NoCopy
    BY PatchEffect
  <2>2. /\ cache[s][p].cur => /\ cache[s][p].shard = store[p].shard
                              /\ cache[s][p].drain = store[p].drain
        /\ s \notin running => cache[s][p] = NoCopy
        /\ cache[s][p].shard = s /\ ~cache[s][p].drain /\ p \in Mains => store[p].shard = s
    BY DEF CopiesSound
  <2>3. s \notin running => cache[s][p].shard # s
    BY <2>2, ShardingAssumption DEF NoCopy
  <2>4. cache'[s][p].shard = s /\ ~cache'[s][p].drain /\ p \in Mains => store'[p].shard = s
    BY <1>2, <1>5, <2>1, <2>2, <2>3
  <2> QED  BY <2>1, <2>2, <2>4 DEF shardVars
<1>7. ReconOwned'
  <2> SUFFICES ASSUME NEW s \in Shards, NEW p \in recon[s]
               PROVE  s \in running /\ store'[p].shard = s
    BY DEF ReconOwned, shardVars
  <2>1. s \in running /\ store[p].shard = s /\ p \in Mains /\ p \in Objects
    BY DEF ReconOwned, TypeOK, Objects
  <2> QED  BY <1>2, <1>5, <2>1
<1>8. Uncreated'
  BY <1>1, <1>2 DEF Uncreated
<1> QED  BY <1>3, <1>4, <1>6, <1>7, <1>8

\* nobody has an object without label, or one that is to be moved
LEMMA UntouchedFree ==
  ASSUME TypeOK, IndInv, NEW o \in Objects,
         store[o].shard = None \/ store[o].shard \notin avail
  PROVE  Untouched(o)
BY ShardingAssumption DEF IndInv, AvailableSeen, Untouched, TypeOK

LEMMA IndShards ==
  ASSUME JoinsSettled, TypeOK, IndInv, NEW s \in Shards,
         Join(s) \/ Crash(s) \/ Restart(s) \/ Die(s)
  PROVE  IndInv'
<1> USE DEF IndInv, objectVars, opVars
<1>1. CASE Join(s)
  <2>1. ~resyncing /\ items = {}
    BY <1>1 DEF Join, AvailableSeen
  <2>2. AvailableSeen'
    BY <1>1, <2>1 DEF Join, AvailableSeen, TypeOK
  <2>3. MoveSafe' /\ ReconOwned' /\ Uncreated' /\ CopiesSound'
    BY <1>1, <2>1 DEF Join, MoveSafe, ReconOwned, Uncreated, CopiesSound
  <2> QED  BY <2>2, <2>3
<1>2. CASE Crash(s)
  <2>1. AvailableSeen' /\ MoveSafe' /\ Uncreated'
    BY <1>2 DEF Crash, AvailableSeen, MoveSafe, Uncreated
  <2>2. ReconOwned'
    BY <1>2 DEF Crash, ReconOwned, TypeOK
  <2>3. CopiesSound'
    <3> SUFFICES ASSUME NEW t \in Shards, NEW p \in Objects
                 PROVE  /\ cache'[t][p].cur => /\ cache'[t][p].shard = store'[p].shard
                                               /\ cache'[t][p].drain = store'[p].drain
                        /\ t \notin running' => cache'[t][p] = NoCopy
                        /\ cache'[t][p].shard = t /\ ~cache'[t][p].drain /\ p \in Mains
                              => store'[p].shard = t
      BY DEF CopiesSound
    <3>1. CASE t = s
      <4>1. cache'[t][p] = NoCopy
        BY <1>2, <3>1 DEF Crash, TypeOK
      <4>2. NoCopy.shard = None /\ NoCopy.cur = FALSE
        BY DEF NoCopy
      <4> QED  BY <4>1, <4>2, ShardingAssumption
    <3>2. CASE t # s
      <4>1. cache'[t][p] = cache[t][p] /\ (t \in running <=> t \in running') /\ store' = store
        BY <1>2, <3>2 DEF Crash, TypeOK
      <4> QED  BY <4>1 DEF CopiesSound
    <3> QED  BY <3>1, <3>2
  <2> QED  BY <2>1, <2>2, <2>3
<1>3. CASE Restart(s)
  BY <1>3 DEF Restart, AvailableSeen, MoveSafe, ReconOwned, Uncreated, CopiesSound
<1>4. CASE Die(s)
  <2>1. AvailableSeen'
    BY <1>4 DEF Die, AvailableSeen
  <2> QED  BY <1>4, <2>1 DEF Die, MoveSafe, ReconOwned, Uncreated, CopiesSound
<1> QED  BY <1>1, <1>2, <1>3, <1>4

\* the actions that write object o
Writes(o) == \/ Create(o) \/ Update(o) \/ DrainObject(o) \/ MoveObject(o)
             \/ \E s \in Shards : AckDrain(s, o)

\* all of them keep the shard label or take the object from nobody
LEMMA SafeWrite ==
  ASSUME TypeOK, IndInv, NEW o \in Objects, Writes(o)
  PROVE  /\ o \in objects'
         /\ \E labels \in Labels : /\ Patch(o, labels) \/ Write(o, labels)
                                   /\ labels.shard = store[o].shard \/ Untouched(o)
<1>1. CASE Create(o)
  <2>1. store[o].shard = None
    BY <1>1 DEF Create, IndInv, Uncreated, Unassigned
  <2> QED  BY <1>1, <2>1, AdmittedEffect, UntouchedFree DEF Create
<1>2. CASE Update(o)
  <2>1. PICK labels \in Labels : Write(o, labels) /\ (store[o].shard # None => labels = store[o])
    BY <1>2, UpdateEffect
  <2>2. labels.shard = store[o].shard \/ Untouched(o)
    BY <2>1, UntouchedFree
  <2> QED  BY <1>2, <2>1, <2>2 DEF Update
<1>3. CASE DrainObject(o)
  <2> DEFINE labels == [shard |-> store[o].shard, drain |-> TRUE]
  <2>1. store[o].shard \in Label
    BY DEF TypeOK, Labels
  <2>2. labels \in Labels /\ labels.shard = store[o].shard
    BY <2>1 DEF Labels
  <2>3. [obj |-> o, drain |-> TRUE].obj \in objects
    BY <1>3 DEF DrainObject, IndInv, Uncreated
  <2> QED  BY <1>3, <2>2, <2>3 DEF DrainObject
<1>4. CASE MoveObject(o)
  <2>1. [obj |-> o, drain |-> FALSE].obj \in objects
    BY <1>4 DEF MoveObject, IndInv, Uncreated
  <2>2. Untouched(o)
    BY <1>4, UntouchedFree DEF MoveObject, IndInv, MoveSafe, Untouched
  <2> QED  BY <1>4, <2>1, <2>2, AdmittedEffect DEF MoveObject
<1>5. ASSUME NEW s \in Shards, AckDrain(s, o)
      PROVE  o \in objects' /\ Untouched(o)
  <2>1. store[o].shard = s /\ o \notin recon[s] /\ cache[s][o].drain
    BY <1>5 DEF AckDrain, IndInv, CopiesSound
  <2>2. o \in objects
    BY <2>1, ShardingAssumption DEF IndInv, Uncreated, Unassigned
  <2> QED  BY <1>5, <2>1, <2>2 DEF AckDrain, Untouched
<1>6. ASSUME NEW s \in Shards, AckDrain(s, o)
      PROVE  \E labels \in Labels : Patch(o, labels)
  BY <1>6, AdmittedEffect DEF AckDrain
<1> QED  BY <1>1, <1>2, <1>3, <1>4, <1>5, <1>6 DEF Writes

LEMMA IndWrites ==
  ASSUME TypeOK, IndInv, NEW o \in Objects, Writes(o)
  PROVE  IndInv'
<1>1. /\ UNCHANGED <<shardVars, recon, opVars>>
      /\ objects' = objects \/ objects' = objects \cup {o}
  BY DEF Writes, Create, Update, DrainObject, MoveObject, AckDrain
<1> QED  BY <1>1, SafeWrite, WriteKeeps

LEMMA IndResync ==
  ASSUME TypeOK, IndInv, Resync \/ AbortResync
  PROVE  IndInv'
<1> USE DEF IndInv
<1>0. IndInv
  OBVIOUS
<1>1. CASE StartResync
  BY <1>1, ShardingAssumption
     DEF StartResync, AvailableSeen, MoveSafe, CopiesSound, ReconOwned, Uncreated, shardVars, objectVars
<1>2. CASE FinishResync
  BY <1>2 DEF FinishResync, AvailableSeen, MoveSafe, CopiesSound, ReconOwned, Uncreated, shardVars, objectVars
<1>3. CASE AbortResync
  BY <1>3 DEF AbortResync, AvailableSeen, MoveSafe, CopiesSound, ReconOwned, Uncreated, shardVars, objectVars
<1>4. ASSUME NEW o \in Objects, ListObject(o) PROVE IndInv'
  <2>1. MoveSafe'
    <3> SUFFICES ASSUME NEW p \in Mains, [obj |-> p, drain |-> FALSE] \in items'
                 PROVE  store[p].shard \notin avail
      BY <1>4 DEF MoveSafe, ListObject, shardVars, objectVars
    <3>1. CASE [obj |-> p, drain |-> FALSE] \in items
      BY <3>1 DEF MoveSafe
    <3>2. CASE [obj |-> p, drain |-> FALSE] \in WorkItems(o)
      <4>1. p = o /\ (o \in Controlled \/ store[o].shard \notin snapshot \/ store[o].shard = None)
        BY <3>2, WorkItemsTyped
      <4>2. avail \subseteq snapshot /\ None \notin avail
        BY <1>4, ShardingAssumption DEF AvailableSeen, ListObject, TypeOK
      <4> QED  BY <4>1, <4>2, ShardingAssumption
    <3> QED  BY <1>4, <3>1, <3>2 DEF ListObject
  <2>2. Uncreated'
    BY <1>4, WorkItemsTyped DEF ListObject, Uncreated, objectVars
  <2> QED  BY <1>4, <2>1, <2>2 DEF ListObject, AvailableSeen, CopiesSound, ReconOwned, shardVars, objectVars
<1>5. ASSUME NEW o \in Objects, ListStale(o) PROVE IndInv'
  BY <1>5 DEF ListStale, AvailableSeen, MoveSafe, CopiesSound, ReconOwned, Uncreated, shardVars, objectVars
<1>6. ASSUME NEW o \in Objects, DrainObject(o) \/ MoveObject(o) PROVE IndInv'
  BY <1>0, <1>6, IndWrites DEF Writes
<1> QED  BY <1>1, <1>2, <1>3, <1>4, <1>5, <1>6 DEF Resync

LEMMA IndShard ==
  ASSUME TypeOK, IndInv, NEW s \in Shards, NEW o \in Objects,
         SyncCache(s, o) \/ BeginReconcile(s, o) \/ EndReconcile(s, o) \/ AckDrain(s, o)
  PROVE  IndInv'
<1> USE DEF IndInv
<1>0. IndInv
  OBVIOUS
<1>1. CASE SyncCache(s, o)
  <2> DEFINE copy == [shard |-> store[o].shard, drain |-> store[o].drain, cur |-> TRUE]
  <2>1. AvailableSeen' /\ MoveSafe' /\ ReconOwned' /\ Uncreated'
    BY <1>1 DEF SyncCache, AvailableSeen, MoveSafe, ReconOwned, Uncreated, shardVars, opVars
  <2>2. CopiesSound'
    <3> SUFFICES ASSUME NEW t \in Shards, NEW p \in Objects
                 PROVE  /\ cache'[t][p].cur => /\ cache'[t][p].shard = store[p].shard
                                               /\ cache'[t][p].drain = store[p].drain
                        /\ t \notin running => cache'[t][p] = NoCopy
                        /\ cache'[t][p].shard = t /\ ~cache'[t][p].drain /\ p \in Mains
                              => store[p].shard = t
      BY <1>1 DEF CopiesSound, SyncCache, shardVars
    <3>1. CASE t = s /\ p = o
      <4>1. cache'[t][p] = copy /\ t \in running
        BY <1>1, <3>1 DEF SyncCache, TypeOK
      <4>2. copy.shard = store[p].shard /\ copy.drain = store[p].drain
        BY <3>1
      <4> QED  BY <4>1, <4>2
    <3>2. CASE ~(t = s /\ p = o)
      <4>1. cache'[t][p] = cache[t][p]
        BY <1>1, <3>2 DEF SyncCache, TypeOK
      <4> QED  BY <4>1 DEF CopiesSound
    <3> QED  BY <3>1, <3>2
  <2> QED  BY <2>1, <2>2
<1>2. CASE BeginReconcile(s, o)
  <2>1. AvailableSeen' /\ MoveSafe' /\ CopiesSound' /\ Uncreated'
    BY <1>2 DEF BeginReconcile, AvailableSeen, MoveSafe, CopiesSound, Uncreated,
                shardVars, objectVars, opVars
  <2>2. s \in running /\ store[o].shard = s
    BY <1>2 DEF BeginReconcile, CopiesSound
  <2>3. ReconOwned'
    BY <1>2, <2>2 DEF BeginReconcile, ReconOwned, TypeOK, shardVars, objectVars
  <2> QED  BY <2>1, <2>3
<1>3. CASE EndReconcile(s, o)
  <2>1. AvailableSeen' /\ MoveSafe' /\ CopiesSound' /\ Uncreated'
    BY <1>3 DEF EndReconcile, AvailableSeen, MoveSafe, CopiesSound, Uncreated,
                shardVars, objectVars, opVars
  <2>2. ReconOwned'
    BY <1>3 DEF EndReconcile, ReconOwned, TypeOK, shardVars, objectVars
  <2> QED  BY <2>1, <2>2
<1>4. CASE AckDrain(s, o)
  BY <1>0, <1>4, IndWrites DEF Writes
<1> QED  BY <1>1, <1>2, <1>3, <1>4

LEMMA IndInit == Init => IndInv
<1> SUFFICES ASSUME Init PROVE IndInv
  OBVIOUS
<1>1. /\ \A s \in Shards, o \in Objects : cache[s][o] = NoCopy
      /\ \A o \in Objects : store[o] = Unassigned
      /\ \A s \in Shards : recon[s] = {}
  BY DEF Init
<1>2. NoCopy.cur = FALSE /\ NoCopy.shard = None
  BY DEF NoCopy
<1>3. CopiesSound
  BY <1>1, <1>2, ShardingAssumption DEF CopiesSound
<1> QED  BY <1>1, <1>3 DEF Init, IndInv, AvailableSeen, MoveSafe, ReconOwned, Uncreated

LEMMA IndNext ==
  ASSUME JoinsSettled, TypeOK, IndInv, [Next]_vars
  PROVE  IndInv'
<1>1. CASE UNCHANGED vars
  BY <1>1 DEF IndInv, AvailableSeen, MoveSafe, CopiesSound, ReconOwned, Uncreated,
              vars, shardVars, objectVars, opVars
<1>2. ASSUME NEW r \in Replicas, NEW s \in Shards, Observe(r, s) PROVE IndInv'
  <2>1. AvailableSeen'
    BY <1>2 DEF IndInv, Observe, AvailableSeen, TypeOK, opVars
  <2> QED  BY <1>2, <2>1 DEF IndInv, Observe, MoveSafe, CopiesSound, ReconOwned, Uncreated, objectVars
<1>3. ASSUME NEW o \in Objects, Create(o) \/ Update(o) PROVE IndInv'
  BY <1>3, IndWrites DEF Writes
<1> QED  BY <1>1, <1>2, <1>3, IndShards, IndResync, IndShard DEF Next

\* the inductive invariant, when joins settle between resyncs
THEOREM Invariance ==
  ASSUME JoinsSettled
  PROVE  Spec => [](TypeOK /\ IndInv)
<1>1. TypeOK /\ IndInv /\ [Next]_vars => (TypeOK /\ IndInv)'
  BY TypeNext, IndNext
<1> QED  BY TypeInit, IndInit, <1>1, PTL DEF Spec

(***************************************************************************)
(* No two shards reconcile one object, for any number of shards, sharder   *)
(* replicas and objects: drain and acknowledgement, the optimistic lock of *)
(* every patch and the death of a shard before it loses its lease suffice, *)
(* as long as the sharder never meets a shard it does not know.            *)
(***************************************************************************)
THEOREM Exclusive ==
  ASSUME JoinsSettled
  PROVE  Spec => []ExclusiveReconcile
<1>1. TypeOK /\ IndInv => ExclusiveReconcile
  BY DEF TypeOK, IndInv, ReconOwned, ExclusiveReconcile
<1> QED  BY Invariance, <1>1, PTL

(***************************************************************************)
(* No assignment is taken from a shard that works on the object.           *)
(***************************************************************************)
THEOREM AssignmentKept ==
  ASSUME JoinsSettled
  PROVE  Spec => []AssignedWhileReconciled
<1>1. IndInv => AssignedWhileReconciled
  BY DEF IndInv, ReconOwned, AssignedWhileReconciled
<1> QED  BY Invariance, <1>1, PTL
-----------------------------------------------------------------------------
(* Sharding implements Ownership *)

owner == [o \in Mains |-> store[o].shard]

\* a write is a reassignment that takes the object from nobody, or no step
LEMMA WriteReassigns ==
  ASSUME TypeOK, IndInv, NEW o \in Objects, Writes(o)
  PROVE  [Abstract!Next]_(Abstract!ovars)
<1>0. recon' = recon
  BY DEF Writes, Create, Update, DrainObject, MoveObject, AckDrain
<1>1. PICK labels \in Labels : /\ Patch(o, labels) \/ Write(o, labels)
                               /\ labels.shard = store[o].shard \/ Untouched(o)
  BY SafeWrite
<1>2. store' = [store EXCEPT ![o] = labels]
  <2>1. Patch(o, labels) \/ Write(o, labels)
    BY <1>1
  <2> QED  BY <2>1, PatchEffect
<1>3. \A p \in Mains : p \in Objects
  BY DEF Objects
<1>4. CASE o \in Mains /\ Untouched(o)
  <2>1. \A t \in Shards : o \notin recon[t]
    BY <1>4 DEF IndInv, ReconOwned, Untouched
  <2>2. owner' = [owner EXCEPT ![o] = labels.shard]
    BY <1>2, <1>3, <1>4 DEF TypeOK, owner
  <2>3. labels.shard \in Shards \cup {None}
    BY DEF Labels, Label
  <2>4. Abstract!Reassign(o, labels.shard)
    BY <1>0, <2>1, <2>2 DEF Abstract!Reassign, owner
  <2> QED  BY <1>4, <2>3, <2>4 DEF Abstract!Next
<1>5. CASE o \notin Mains \/ labels.shard = store[o].shard
  <2>1. owner' = owner
    BY <1>2, <1>3, <1>5 DEF TypeOK, owner
  <2> QED  BY <1>0, <2>1 DEF Abstract!ovars, owner
<1> QED  BY <1>1, <1>4, <1>5

\* every step is a step of Ownership or changes neither labels nor work
LEMMA StepRefines ==
  ASSUME TypeOK, IndInv, [Next]_vars
  PROVE  [Abstract!Next]_(Abstract!ovars)
<1>1. CASE UNCHANGED <<store, recon>>
  BY <1>1 DEF Abstract!ovars
<1>2. ASSUME NEW s \in Shards, Crash(s) PROVE Abstract!Crash(s)
  BY <1>2 DEF Crash, Abstract!Crash
<1>3. ASSUME NEW s \in Shards, NEW o \in Objects, BeginReconcile(s, o)
      PROVE  o \in Mains /\ Abstract!Begin(s, o)
  <2>1. o \in Mains /\ store[o].shard = s
    BY <1>3 DEF BeginReconcile, IndInv, CopiesSound
  <2> QED  BY <1>3, <2>1 DEF BeginReconcile, Abstract!Begin, objectVars
<1>4. ASSUME NEW s \in Shards, NEW o \in Objects, EndReconcile(s, o)
      PROVE  o \in Mains /\ Abstract!End(s, o)
  <2>1. o \in Mains
    BY <1>4 DEF EndReconcile, TypeOK
  <2> QED  BY <1>4, <2>1 DEF EndReconcile, Abstract!End, objectVars
<1>5. ASSUME NEW o \in Objects, Writes(o) PROVE [Abstract!Next]_(Abstract!ovars)
  BY <1>5, WriteReassigns
<1>6. CASE Next
  <2>1. CASE \E s \in Shards : Join(s) \/ Restart(s) \/ Die(s)
    BY <1>1, <2>1 DEF Join, Restart, Die, objectVars
  <2>2. CASE \E r \in Replicas, s \in Shards : Observe(r, s)
    BY <1>1, <2>2 DEF Observe, objectVars
  <2>3. CASE \/ StartResync \/ FinishResync \/ AbortResync
             \/ \E o \in Objects : ListObject(o) \/ ListStale(o)
    BY <1>1, <2>3 DEF StartResync, FinishResync, AbortResync, ListObject, ListStale, objectVars
  <2>4. CASE \E s \in Shards, o \in Objects : SyncCache(s, o)
    BY <1>1, <2>4 DEF SyncCache
  <2>5. CASE \E s \in Shards : Crash(s)
    BY <1>2, <2>5 DEF Abstract!Next
  <2>6. CASE \E s \in Shards, o \in Objects : BeginReconcile(s, o) \/ EndReconcile(s, o)
    BY <1>3, <1>4, <2>6 DEF Abstract!Next
  <2>7. CASE \E o \in Objects : Writes(o)
    BY <1>5, <2>7
  <2> QED  BY <1>6, <2>1, <2>2, <2>3, <2>4, <2>5, <2>6, <2>7 DEF Next, Resync, Writes
<1>7. CASE UNCHANGED vars
  BY <1>1, <1>7 DEF vars, objectVars
<1> QED  BY <1>6, <1>7

(***************************************************************************)
(* Sharding keeps the promise of Ownership: labels are the ownership,      *)
(* reconciles are the work, and no step of webhook, resync, shard or lease *)
(* changes the owner of an object that somebody works on.                  *)
(***************************************************************************)
THEOREM ImplementsOwnership ==
  ASSUME JoinsSettled
  PROVE  Spec => OwnershipKept
<1>1. Init => Abstract!Init
  <2> SUFFICES ASSUME Init PROVE Abstract!Init
    OBVIOUS
  <2>1. \A o \in Mains : store[o].shard = None
    BY DEF Init, Unassigned, Objects
  <2> QED  BY <2>1 DEF Init, Abstract!Init
<1>2. TypeOK /\ IndInv /\ [Next]_vars => [Abstract!Next]_(Abstract!ovars)
  BY StepRefines
<1> QED  BY Invariance, <1>1, <1>2, PTL DEF Spec, OwnershipKept, Abstract!Spec
=============================================================================
