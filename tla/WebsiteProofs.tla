--------------------------- MODULE WebsiteProofs ---------------------------
(***************************************************************************)
(* Proofs about the Website controller: what it leaves behind when it has  *)
(* nothing to do is right, for all themes, kinds and numbers of changes    *)
(* and faults.                                                             *)
(*                                                                         *)
(* The argument: whatever is not as wanted has an event on its way that    *)
(* will pass the predicates and queue the Website.  A kid either is as the *)
(* last reconcile wanted it in the cache, or the cached copy Differs from  *)
(* the API server in what the predicates look at; the same for the status. *)
(***************************************************************************)
EXTENDS Website, TLAPS

\* a record with the fields of a kid
IsKid(d) ==
  /\ d = [exists |-> d.exists, spec |-> d.spec, shard |-> d.shard,
          generation |-> d.generation, observed |-> d.observed, rolledOut |-> d.rolledOut]
  /\ d.exists \in BOOLEAN /\ d.shard \in {"me", "other"} /\ d.rolledOut \in BOOLEAN
  /\ d.generation \in Nat /\ d.observed \in Nat

SpecOK(k, d) ==
  d.exists => /\ k = "Service" => d.spec \in {"ClusterIP", Edited}
              /\ k = "Ingress" => d.spec \in {"fake", "default", Edited}

\* Shapes and types of the variables.
Types ==
  /\ site \in SiteObject /\ (site.drain => site.shard = "me")
  /\ theme \in [Themes -> Nat]
  /\ kid = [k \in Kinds |-> kid[k]]
  /\ \A k \in Kinds : IsKid(kid[k]) /\ SpecOK(k, kid[k])
  /\ cache = [site |-> cache.site, theme |-> cache.theme, kid |-> cache.kid]
  /\ cache.site \in SiteObject /\ (cache.site.exists => cache.site.shard = "me")
  /\ cache.theme \in [Themes -> Nat]
  /\ cache.kid = [k \in Kinds |-> cache.kid[k]]
  /\ \A k \in Kinds : IsKid(cache.kid[k]) /\ SpecOK(k, cache.kid[k])
  /\ queued \in BOOLEAN
  /\ work = [pc |-> work.pc, site |-> work.site, content |-> work.content,
             phase |-> work.phase, err |-> work.err]
  /\ work.site \in SiteObject
  /\ work.pc \in Kinds \cup {"idle", "status"} /\ work.phase \in Phases /\ work.err \in BOOLEAN
  /\ changes \in 0 .. MaxChanges /\ faults \in 0 .. MaxFaults

-----------------------------------------------------------------------------
(* Cached copies.                                                          *)

\* A cached Website is not newer than the Website, and of the same generation
\* only with the same spec.  While it is not draining the Website stays with
\* the shard; once it is, the Website has left or will be seen to drain again.
SiteCopy ==
  cache.site.exists /\ site.exists =>
    /\ cache.site.generation <= site.generation
    /\ cache.site.generation = site.generation =>
         cache.site.theme = site.theme /\ cache.site.deleting = site.deleting
    /\ IF cache.site.drain THEN site.shard = "me" => site.drain ELSE site.shard = "me"
    /\ cache.site.drain /\ ~queued => site.rv > cache.site.rv

\* A cached kid, if there is a generation to tell, is not newer than the kid,
\* and of the same generation only with the same spec: kids are not created
\* again before their deletion was seen.
KidCopies ==
  \A k \in Kinds \cap {"Ingress", "Deployment"} :
    cache.kid[k].exists /\ kid[k].exists =>
      /\ cache.kid[k].generation <= kid[k].generation
      /\ cache.kid[k].generation = kid[k].generation => cache.kid[k].spec = kid[k].spec

\* A Deployment that has nothing left to do runs the pods of its spec.
RolledOut ==
  LET d == kid["Deployment"] IN
    d.exists =>
      /\ d.observed <= d.generation
      /\ d.observed = d.generation /\ d.rolledOut => served.spec = d.spec

-----------------------------------------------------------------------------
(* What the last reconcile has left behind.                                *)

\* the predicates will notice when the kid d replaces the cached copy c
DiffersFrom(k, c, d) ==
  \/ c.exists /\ ~d.exists
  \/ ~c.exists /\ d.exists /\ d.shard = "me"
  \/ c.exists /\ d.exists /\ k = "ConfigMap" /\ c.spec # d.spec
  \/ c.exists /\ d.exists /\ k \in {"Ingress", "Deployment"} /\ c.generation # d.generation

Differs(k) == DiffersFrom(k, cache.kid[k], kid[k])

\* the content that the cached Website asks for
Content == <<cache.site.theme, cache.theme[cache.site.theme]>>

FineKid(k, c, d, want) ==
  \/ DiffersFrom(k, c, d)
  \/ c.exists /\ (k = "Service" \/ c.spec = want)

Wanted(k) == Desired(k, cache.site, cache.theme[cache.site.theme], Content)

Fine(k) == FineKid(k, cache.kid[k], kid[k], Wanted(k))

\* The controller knows the current spec of its Website and has no reason to
\* look at it again.
Settled ==
  /\ ~queued
  /\ cache.site.exists /\ ~cache.site.drain
  /\ site.exists /\ cache.site.generation = site.generation

Serving == ~cache.site.deleting /\ cache.site.theme # NoTheme

Rank == [ConfigMap |-> 1, Service |-> 2, Ingress |-> 3, Deployment |-> 4]

\* the kids that the last reconcile, or the running one so far, has dealt with
Due ==
  {k \in Kinds : \/ work.pc = "idle"
                 \/ work.pc = "status" /\ ~work.err
                 \/ work.pc \in Kinds /\ Rank[k] < Rank[work.pc]}

GoodPhase(phase) ==
  /\ cache.site.deleting => phase = "Terminating"
  /\ Serving => \/ Differs("Deployment")
                \/ phase = IF IsDeploymentReady(cache.kid["Deployment"]) THEN "Ready" ELSE "Pending"

\* The running reconcile works on the cached Website, unless it runs again.
WorkCopy ==
  work.pc # "idle" /\ ~queued /\ cache.site.exists =>
    /\ work.site.generation = cache.site.generation
    /\ work.site.theme = cache.site.theme
    /\ work.site.deleting = cache.site.deleting
    /\ work.site.status = cache.site.status

\* Kids that were dealt with are as wanted or differ from the cached copy.
KidsDone ==
  Settled /\ Serving =>
    /\ \A k \in Due : Fine(k)
    /\ work.pc \in Kinds => work.content = Content
    /\ ~(work.pc = "status" /\ work.err) => cache.theme[cache.site.theme] # 0

\* The status to write or written is right, or an event will tell that it is not.
StatusDone ==
  Settled =>
    /\ work.pc \in Kinds => ~cache.site.deleting
    /\ work.pc = "status" /\ ~work.err => GoodPhase(work.phase)
    /\ work.pc = "idle" =>
         \/ site.status # cache.site.status
         \/ site.status.observed = site.generation /\ GoodPhase(site.status.phase)

IndInv ==
  /\ Types /\ SiteCopy /\ KidCopies /\ RolledOut
  /\ WorkCopy /\ KidsDone /\ StatusDone

-----------------------------------------------------------------------------
(* Updates of records, field by field.                                     *)

KidRecord(exists, spec, shard, generation, observed, rolledOut) ==
  [exists |-> exists, spec |-> spec, shard |-> shard,
   generation |-> generation, observed |-> observed, rolledOut |-> rolledOut]

LEMMA KidUpdates ==
  ASSUME NEW d, IsKid(d)
  PROVE  /\ \A s, g : [d EXCEPT !.spec = s, !.generation = g]
                        = KidRecord(d.exists, s, d.shard, g, d.observed, d.rolledOut)
         /\ \A s : [d EXCEPT !.shard = s]
                        = KidRecord(d.exists, d.spec, s, d.generation, d.observed, d.rolledOut)
         /\ \A o, r : [d EXCEPT !.observed = o, !.rolledOut = r]
                        = KidRecord(d.exists, d.spec, d.shard, d.generation, o, r)
         /\ \A r : [d EXCEPT !.rolledOut = r]
                        = KidRecord(d.exists, d.spec, d.shard, d.generation, d.observed, r)
<1>1. PICK e, s, h, g, o, r : d = [exists |-> e, spec |-> s, shard |-> h,
                                   generation |-> g, observed |-> o, rolledOut |-> r]
  BY DEF IsKid
<1> DEFINE R(a, b, c, x, y, z) == [exists |-> a, spec |-> b, shard |-> c,
                                   generation |-> x, observed |-> y, rolledOut |-> z]
<1>2. \A t, v : [R(e, s, h, g, o, r) EXCEPT !.spec = t, !.generation = v] = R(e, t, h, v, o, r)
  <2>1. \A t : [R(e, s, h, g, o, r) EXCEPT !.spec = t] = R(e, t, h, g, o, r)
    OBVIOUS
  <2>2. \A t, v : [R(e, t, h, g, o, r) EXCEPT !.generation = v] = R(e, t, h, v, o, r)
    OBVIOUS
  <2> HIDE DEF R
  <2> QED
    BY <2>1, <2>2, Zenon
<1>3. \A t : [R(e, s, h, g, o, r) EXCEPT !.shard = t] = R(e, s, t, g, o, r)
  OBVIOUS
<1>4. \A t, v : [R(e, s, h, g, o, r) EXCEPT !.observed = t, !.rolledOut = v] = R(e, s, h, g, t, v)
  <2>1. \A t : [R(e, s, h, g, o, r) EXCEPT !.observed = t] = R(e, s, h, g, t, r)
    OBVIOUS
  <2>2. \A t, v : [R(e, s, h, g, t, r) EXCEPT !.rolledOut = v] = R(e, s, h, g, t, v)
    OBVIOUS
  <2> HIDE DEF R
  <2> QED
    BY <2>1, <2>2, Zenon
<1>5. \A t : [R(e, s, h, g, o, r) EXCEPT !.rolledOut = t] = R(e, s, h, g, o, t)
  OBVIOUS
<1>6. d.exists = e /\ d.spec = s /\ d.shard = h /\ d.generation = g /\ d.observed = o /\ d.rolledOut = r
  BY <1>1
<1> QED
  BY <1>1, <1>2, <1>3, <1>4, <1>5, <1>6, Zenon DEF KidRecord

LEMMA KidObserved ==
  ASSUME NEW d, IsKid(d), NEW o, NEW r
  PROVE  [d EXCEPT !.observed = o, !.rolledOut = r]
           = KidRecord(d.exists, d.spec, d.shard, d.generation, o, r)
<1>1. \A p, q : [d EXCEPT !.observed = p, !.rolledOut = q]
                  = KidRecord(d.exists, d.spec, d.shard, d.generation, p, q)
  BY KidUpdates
<1> QED
  BY <1>1, Zenon

LEMMA KidRecordIsKid ==
  ASSUME NEW e \in BOOLEAN, NEW s, NEW h \in {"me", "other"}, NEW g \in Nat, NEW o \in Nat, NEW r \in BOOLEAN
  PROVE  IsKid(KidRecord(e, s, h, g, o, r))
  BY DEF IsKid, KidRecord

LEMMA NoKidIsKid == IsKid(NoKid)
  BY DEF IsKid, NoKid

SiteRecord(exists, rv, generation, t, deleting, shard, drain, status) ==
  [exists |-> exists, rv |-> rv, generation |-> generation, theme |-> t, deleting |-> deleting,
   shard |-> shard, drain |-> drain, status |-> status]

LEMMA SiteIsRecord ==
  ASSUME NEW w \in SiteObject
  PROVE  w = SiteRecord(w.exists, w.rv, w.generation, w.theme, w.deleting, w.shard, w.drain, w.status)
  BY DEF SiteObject, SiteRecord

LEMMA SpecUpdate ==
  ASSUME NEW w \in SiteObject, NEW v, NEW g, NEW t
  PROVE  [w EXCEPT !.rv = v, !.generation = g, !.theme = t] =
           SiteRecord(w.exists, v, g, t, w.deleting, w.shard, w.drain, w.status)
<1>1. [SiteRecord(w.exists, w.rv, w.generation, w.theme, w.deleting, w.shard, w.drain, w.status) EXCEPT !.rv = v] =
        SiteRecord(w.exists, v, w.generation, w.theme, w.deleting, w.shard, w.drain, w.status)
  BY DEF SiteRecord
<1>2. [SiteRecord(w.exists, v, w.generation, w.theme, w.deleting, w.shard, w.drain, w.status) EXCEPT !.generation = g] =
        SiteRecord(w.exists, v, g, w.theme, w.deleting, w.shard, w.drain, w.status)
  BY DEF SiteRecord
<1>3. [SiteRecord(w.exists, v, g, w.theme, w.deleting, w.shard, w.drain, w.status) EXCEPT !.theme = t] =
        SiteRecord(w.exists, v, g, t, w.deleting, w.shard, w.drain, w.status)
  BY DEF SiteRecord
<1> QED
  BY <1>1, <1>2, <1>3, SiteIsRecord, Zenon

LEMMA DeleteUpdate ==
  ASSUME NEW w \in SiteObject, NEW v, NEW g, NEW d
  PROVE  [w EXCEPT !.rv = v, !.generation = g, !.deleting = d] =
           SiteRecord(w.exists, v, g, w.theme, d, w.shard, w.drain, w.status)
<1>1. [SiteRecord(w.exists, w.rv, w.generation, w.theme, w.deleting, w.shard, w.drain, w.status) EXCEPT !.rv = v] =
        SiteRecord(w.exists, v, w.generation, w.theme, w.deleting, w.shard, w.drain, w.status)
  BY DEF SiteRecord
<1>2. [SiteRecord(w.exists, v, w.generation, w.theme, w.deleting, w.shard, w.drain, w.status) EXCEPT !.generation = g] =
        SiteRecord(w.exists, v, g, w.theme, w.deleting, w.shard, w.drain, w.status)
  BY DEF SiteRecord
<1>3. [SiteRecord(w.exists, v, g, w.theme, w.deleting, w.shard, w.drain, w.status) EXCEPT !.deleting = d] =
        SiteRecord(w.exists, v, g, w.theme, d, w.shard, w.drain, w.status)
  BY DEF SiteRecord
<1> QED
  BY <1>1, <1>2, <1>3, SiteIsRecord, Zenon

LEMMA DrainUpdate ==
  ASSUME NEW w \in SiteObject, NEW v, NEW r
  PROVE  [w EXCEPT !.rv = v, !.drain = r] =
           SiteRecord(w.exists, v, w.generation, w.theme, w.deleting, w.shard, r, w.status)
<1>1. [SiteRecord(w.exists, w.rv, w.generation, w.theme, w.deleting, w.shard, w.drain, w.status) EXCEPT !.rv = v] =
        SiteRecord(w.exists, v, w.generation, w.theme, w.deleting, w.shard, w.drain, w.status)
  BY DEF SiteRecord
<1>2. [SiteRecord(w.exists, v, w.generation, w.theme, w.deleting, w.shard, w.drain, w.status) EXCEPT !.drain = r] =
        SiteRecord(w.exists, v, w.generation, w.theme, w.deleting, w.shard, r, w.status)
  BY DEF SiteRecord
<1> QED
  BY <1>1, <1>2, SiteIsRecord, Zenon

LEMMA ShardUpdate ==
  ASSUME NEW w \in SiteObject, NEW v, NEW s
  PROVE  [w EXCEPT !.rv = v, !.shard = s] =
           SiteRecord(w.exists, v, w.generation, w.theme, w.deleting, s, w.drain, w.status)
<1>1. [SiteRecord(w.exists, w.rv, w.generation, w.theme, w.deleting, w.shard, w.drain, w.status) EXCEPT !.rv = v] =
        SiteRecord(w.exists, v, w.generation, w.theme, w.deleting, w.shard, w.drain, w.status)
  BY DEF SiteRecord
<1>2. [SiteRecord(w.exists, v, w.generation, w.theme, w.deleting, w.shard, w.drain, w.status) EXCEPT !.shard = s] =
        SiteRecord(w.exists, v, w.generation, w.theme, w.deleting, s, w.drain, w.status)
  BY DEF SiteRecord
<1> QED
  BY <1>1, <1>2, SiteIsRecord, Zenon

LEMMA AckUpdate ==
  ASSUME NEW w \in SiteObject, NEW v, NEW s, NEW r
  PROVE  [w EXCEPT !.rv = v, !.shard = s, !.drain = r] =
           SiteRecord(w.exists, v, w.generation, w.theme, w.deleting, s, r, w.status)
<1>1. [SiteRecord(w.exists, w.rv, w.generation, w.theme, w.deleting, w.shard, w.drain, w.status) EXCEPT !.rv = v] =
        SiteRecord(w.exists, v, w.generation, w.theme, w.deleting, w.shard, w.drain, w.status)
  BY DEF SiteRecord
<1>2. [SiteRecord(w.exists, v, w.generation, w.theme, w.deleting, w.shard, w.drain, w.status) EXCEPT !.shard = s] =
        SiteRecord(w.exists, v, w.generation, w.theme, w.deleting, s, w.drain, w.status)
  BY DEF SiteRecord
<1>3. [SiteRecord(w.exists, v, w.generation, w.theme, w.deleting, s, w.drain, w.status) EXCEPT !.drain = r] =
        SiteRecord(w.exists, v, w.generation, w.theme, w.deleting, s, r, w.status)
  BY DEF SiteRecord
<1> QED
  BY <1>1, <1>2, <1>3, SiteIsRecord, Zenon

LEMMA StatusUpdate ==
  ASSUME NEW w \in SiteObject, NEW v, NEW u
  PROVE  [w EXCEPT !.rv = v, !.status = u] =
           SiteRecord(w.exists, v, w.generation, w.theme, w.deleting, w.shard, w.drain, u)
<1>1. [SiteRecord(w.exists, w.rv, w.generation, w.theme, w.deleting, w.shard, w.drain, w.status) EXCEPT !.rv = v] =
        SiteRecord(w.exists, v, w.generation, w.theme, w.deleting, w.shard, w.drain, w.status)
  BY DEF SiteRecord
<1>2. [SiteRecord(w.exists, v, w.generation, w.theme, w.deleting, w.shard, w.drain, w.status) EXCEPT !.status = u] =
        SiteRecord(w.exists, v, w.generation, w.theme, w.deleting, w.shard, w.drain, u)
  BY DEF SiteRecord
<1> QED
  BY <1>1, <1>2, SiteIsRecord, Zenon

SiteStatus == [observed : Nat, phase : Phases]

LEMMA SiteRecordType ==
  ASSUME NEW e \in BOOLEAN, NEW v \in Nat, NEW g \in Nat, NEW t \in Themes \cup {NoTheme},
         NEW d \in BOOLEAN, NEW s \in {"me", "other"}, NEW r \in BOOLEAN, NEW u \in SiteStatus
  PROVE  SiteRecord(e, v, g, t, d, s, r, u) \in SiteObject
  BY DEF SiteObject, SiteRecord, SiteStatus

LEMMA SiteFields ==
  ASSUME NEW w \in SiteObject
  PROVE  /\ w.exists \in BOOLEAN /\ w.rv \in Nat /\ w.generation \in Nat /\ w.theme \in Themes \cup {NoTheme}
         /\ w.deleting \in BOOLEAN /\ w.shard \in {"me", "other"} /\ w.drain \in BOOLEAN
         /\ w.status \in SiteStatus
  BY DEF SiteObject, SiteStatus

WorkRecord(pc, w, content, phase, err) ==
  [pc |-> pc, site |-> w, content |-> content, phase |-> phase, err |-> err]

IsWork(x) == x = WorkRecord(x.pc, x.site, x.content, x.phase, x.err)

LEMMA WorkStart ==
  ASSUME NEW x, IsWork(x), NEW p, NEW w, NEW c
  PROVE  [x EXCEPT !.pc = p, !.site = w, !.content = c] = WorkRecord(p, w, c, x.phase, x.err)
<1>1. [WorkRecord(x.pc, x.site, x.content, x.phase, x.err) EXCEPT !.pc = p] = WorkRecord(p, x.site, x.content, x.phase, x.err)
  BY DEF WorkRecord
<1>2. [WorkRecord(p, x.site, x.content, x.phase, x.err) EXCEPT !.site = w] = WorkRecord(p, w, x.content, x.phase, x.err)
  BY DEF WorkRecord
<1>3. [WorkRecord(p, w, x.content, x.phase, x.err) EXCEPT !.content = c] = WorkRecord(p, w, c, x.phase, x.err)
  BY DEF WorkRecord
<1> QED
  BY <1>1, <1>2, <1>3, Zenon DEF IsWork

LEMMA WorkEnd ==
  ASSUME NEW x, IsWork(x), NEW p, NEW w, NEW h, NEW e
  PROVE  [x EXCEPT !.pc = p, !.site = w, !.phase = h, !.err = e] = WorkRecord(p, w, x.content, h, e)
<1>1. [WorkRecord(x.pc, x.site, x.content, x.phase, x.err) EXCEPT !.pc = p] = WorkRecord(p, x.site, x.content, x.phase, x.err)
  BY DEF WorkRecord
<1>2. [WorkRecord(p, x.site, x.content, x.phase, x.err) EXCEPT !.site = w] = WorkRecord(p, w, x.content, x.phase, x.err)
  BY DEF WorkRecord
<1>3. [WorkRecord(p, w, x.content, x.phase, x.err) EXCEPT !.phase = h] = WorkRecord(p, w, x.content, h, x.err)
  BY DEF WorkRecord
<1>4. [WorkRecord(p, w, x.content, h, x.err) EXCEPT !.err = e] = WorkRecord(p, w, x.content, h, e)
  BY DEF WorkRecord
<1> QED
  <2>1. x = WorkRecord(x.pc, x.site, x.content, x.phase, x.err)
    BY DEF IsWork
  <2>2. [[x EXCEPT !.pc = p] EXCEPT !.site = w] = WorkRecord(p, w, x.content, x.phase, x.err)
    BY <1>1, <1>2, <2>1, Zenon
  <2>3. [[[x EXCEPT !.pc = p] EXCEPT !.site = w] EXCEPT !.phase = h] = WorkRecord(p, w, x.content, h, x.err)
    BY <1>3, <2>2, Zenon
  <2>4. [[[[x EXCEPT !.pc = p] EXCEPT !.site = w] EXCEPT !.phase = h] EXCEPT !.err = e]
          = WorkRecord(p, w, x.content, h, e)
    BY <1>4, <2>3, Zenon
  <2> QED
    BY <2>4

LEMMA WorkStep ==
  ASSUME NEW x, IsWork(x), NEW p
  PROVE  [x EXCEPT !.pc = p] = WorkRecord(p, x.site, x.content, x.phase, x.err)
<1>1. [WorkRecord(x.pc, x.site, x.content, x.phase, x.err) EXCEPT !.pc = p] = WorkRecord(p, x.site, x.content, x.phase, x.err)
  BY DEF WorkRecord
<1> QED
  BY <1>1, Zenon DEF IsWork

LEMMA WorkReady ==
  ASSUME NEW x, IsWork(x), NEW p, NEW h
  PROVE  [x EXCEPT !.pc = p, !.phase = h] = WorkRecord(p, x.site, x.content, h, x.err)
<1>1. [WorkRecord(x.pc, x.site, x.content, x.phase, x.err) EXCEPT !.pc = p] = WorkRecord(p, x.site, x.content, x.phase, x.err)
  BY DEF WorkRecord
<1>2. [WorkRecord(p, x.site, x.content, x.phase, x.err) EXCEPT !.phase = h] = WorkRecord(p, x.site, x.content, h, x.err)
  BY DEF WorkRecord
<1> QED
  BY <1>1, <1>2, Zenon DEF IsWork

-----------------------------------------------------------------------------
(* Steps that leave something alone.                                       *)

\* Only kids change: what is fine stays so.
LEMMA KidStep ==
  ASSUME IndInv, UNCHANGED <<site, theme, cache, queued, work>>,
         Settled /\ Serving =>
           /\ \A k \in Kinds : Fine(k) => Fine(k)'
           /\ Differs("Deployment") => Differs("Deployment")'
  PROVE  SiteCopy' /\ WorkCopy' /\ KidsDone' /\ StatusDone'
<1>1. (Settled' <=> Settled) /\ (Serving' <=> Serving) /\ Due' = Due /\ Content' = Content
  BY DEF Settled, Serving, Due, Content
<1>2. SiteCopy' /\ WorkCopy'
  BY DEF IndInv, SiteCopy, WorkCopy
<1>3. KidsDone'
  <2>1. Due \subseteq Kinds
    BY DEF Due
  <2> QED
    BY <1>1, <2>1 DEF IndInv, KidsDone
<1>4. \A phase : Settled /\ GoodPhase(phase) => GoodPhase(phase)'
  BY <1>1 DEF GoodPhase
<1>5. StatusDone'
  BY <1>1, <1>4 DEF IndInv, StatusDone
<1> QED
  BY <1>2, <1>3, <1>5

\* The step changes the kid of one kind and makes it d.
OneKid(k, d) == kid'[k] = d /\ \A j \in Kinds \ {k} : kid'[j] = kid[j]

\* c may be an older version of d.
CopyOf(k, c, d) ==
  k \in {"Ingress", "Deployment"} /\ c.exists /\ d.exists =>
    /\ c.generation <= d.generation
    /\ c.generation = d.generation => c.spec = d.spec

LEMMA OneKidInv ==
  ASSUME IndInv, UNCHANGED <<site, theme, cache, queued, work>>,
         changes' \in 0 .. MaxChanges, faults' \in 0 .. MaxFaults,
         NEW k \in Kinds, NEW d, OneKid(k, d), kid' = [j \in Kinds |-> kid'[j]],
         IsKid(d), SpecOK(k, d), CopyOf(k, cache.kid[k], d), RolledOut',
         Settled /\ Serving =>
           /\ Fine(k) => FineKid(k, cache.kid[k], d, Wanted(k))
           /\ k = "Deployment" /\ Differs(k) => DiffersFrom(k, cache.kid[k], d)
  PROVE  IndInv'
<1>1. Types'
  <2>1. \A j \in Kinds : IsKid(kid'[j]) /\ SpecOK(j, kid'[j])
    BY DEF IndInv, Types, OneKid
  <2> QED
    BY <2>1 DEF IndInv, Types
<1>2. KidCopies'
  BY DEF IndInv, KidCopies, OneKid, CopyOf
<1>3. \A j \in Kinds : Wanted(j)' = Wanted(j)
  BY DEF Wanted, Content
<1>4. \A j \in Kinds \ {k} : (Fine(j)' <=> Fine(j)) /\ (Differs(j)' <=> Differs(j))
  BY <1>3 DEF Fine, Differs, OneKid
<1>5. /\ Fine(k)' <=> FineKid(k, cache.kid[k], d, Wanted(k))
      /\ Differs(k)' <=> DiffersFrom(k, cache.kid[k], d)
  BY <1>3 DEF Fine, Differs, OneKid
<1>6. "Deployment" \in Kinds
  BY WebsiteAssumption
<1>7. Settled /\ Serving =>
        /\ \A j \in Kinds : Fine(j) => Fine(j)'
        /\ Differs("Deployment") => Differs("Deployment")'
  BY <1>4, <1>5, <1>6
<1>8. SiteCopy' /\ WorkCopy' /\ KidsDone' /\ StatusDone'
  BY <1>7, KidStep
<1> QED
  BY <1>1, <1>2, <1>8 DEF IndInv

-----------------------------------------------------------------------------
(* Users, the sharder, and the controllers of Kubernetes.                  *)

LEMMA TamperInv ==
  ASSUME IndInv, NEW k \in Kinds, Tamper(k)
  PROVE  IndInv'
<1>1. IsKid(kid[k]) /\ kid = [j \in Kinds |-> kid[j]] /\ SpecOK(k, kid[k]) /\ kid[k].exists
  BY DEF IndInv, Types, Tamper
<1>2. UNCHANGED <<site, theme, cache, queued, work>> /\ (k # "Deployment" => UNCHANGED served)
  BY DEF Tamper, Remove, operatorVars
<1>3. changes' \in 0 .. MaxChanges /\ faults' \in 0 .. MaxFaults
  BY WebsiteAssumption DEF Tamper, Change, operatorVars, IndInv, Types
<1>4. PICK d :
        /\ OneKid(k, d) /\ kid' = [j \in Kinds |-> kid'[j]]
        /\ \/ d = NoKid
           \/ d = KidRecord(TRUE, Edited, kid[k].shard, NextGeneration(k, kid[k].generation),
                            kid[k].observed, kid[k].rolledOut)
  <2>1. CASE kid' = [kid EXCEPT ![k] = NoKid]
    BY <2>1, <1>1 DEF OneKid
  <2>2. CASE kid' = [kid EXCEPT ![k].spec = Edited, ![k].generation = NextGeneration(k, @)]
    <3>1. kid'[k] = [kid[k] EXCEPT !.spec = Edited, !.generation = NextGeneration(k, kid[k].generation)]
      BY <2>2, <1>1 DEF IsKid
    <3>2. kid'[k] = KidRecord(kid[k].exists, Edited, kid[k].shard, NextGeneration(k, kid[k].generation),
                              kid[k].observed, kid[k].rolledOut)
      BY <3>1, <1>1, KidUpdates
    <3> QED
      BY <2>2, <3>2, <1>1 DEF OneKid, IsKid
  <2> QED
    BY <2>1, <2>2 DEF Tamper, Remove
<1>5. IsKid(d) /\ SpecOK(k, d)
  <2>1. NextGeneration(k, kid[k].generation) \in Nat
    BY <1>1 DEF IsKid, NextGeneration
  <2>2. kid[k].shard \in {"me", "other"} /\ kid[k].observed \in Nat /\ kid[k].rolledOut \in BOOLEAN
    BY <1>1 DEF IsKid
  <2>3. IsKid(d)
    BY <1>4, <2>1, <2>2, KidRecordIsKid, NoKidIsKid
  <2> QED
    BY <2>3, <1>4 DEF SpecOK, NoKid, KidRecord
<1>6. k \in {"Ingress", "Deployment"} => d = NoKid \/ d.generation = kid[k].generation + 1
  BY <1>1, <1>4 DEF IsKid, NextGeneration, KidRecord
<1>7. IsKid(cache.kid[k]) /\ CopyOf(k, cache.kid[k], kid[k])
  BY DEF IndInv, Types, KidCopies, CopyOf
<1>8. CopyOf(k, cache.kid[k], d)
  BY <1>1, <1>6, <1>7 DEF CopyOf, IsKid, NoKid
<1>9. RolledOut'
  <2>1. CASE k # "Deployment"
    BY <2>1, <1>2, <1>4, WebsiteAssumption DEF IndInv, RolledOut, OneKid
  <2>2. CASE k = "Deployment"
    <3>1. kid'["Deployment"] = d
      BY <1>4, <2>2 DEF OneKid
    <3>2. kid[k].observed <= kid[k].generation
      BY <1>1, <2>2 DEF IndInv, RolledOut
    <3>3. d.exists => d.observed < d.generation
      BY <1>1, <1>4, <2>2, <3>2 DEF IsKid, NoKid, NextGeneration, KidRecord
    <3> QED
      BY <3>1, <3>3, <1>5 DEF RolledOut, IsKid
  <2> QED
    BY <2>1, <2>2
<1>10. Settled /\ Serving =>
         /\ Fine(k) => FineKid(k, cache.kid[k], d, Wanted(k))
         /\ k = "Deployment" /\ Differs(k) => DiffersFrom(k, cache.kid[k], d)
  <2> SUFFICES ASSUME Settled, Serving, Fine(k)
               PROVE  ~Differs(k) /\ FineKid(k, cache.kid[k], d, Wanted(k))
    BY DEF Fine, FineKid, Differs
  <2>1. Filtered(kid[k], NoKid) = cache.kid[k]
    BY DEF Tamper
  <2>2. ~Differs(k)
    BY <2>1, <1>1 DEF Filtered, Differs, DiffersFrom, NoKid, IsKid
  <2>3. cache.kid[k].exists /\ (k = "Service" \/ cache.kid[k].spec = Wanted(k))
    BY <2>2 DEF Fine, FineKid, Differs
  <2>4. cache.kid[k] = kid[k]
    BY <2>1, <2>3 DEF Filtered, NoKid
  <2>5. k = "ConfigMap" => Wanted(k) # Edited
    BY WebsiteAssumption DEF Wanted, Desired, reconcileConfigMap, RenderIndexHTML, Settled, Serving,
       IndInv, Types, SiteObject
  <2>6. d.exists => \/ k = "Service"
                    \/ k = "ConfigMap" /\ d.spec = Edited
                    \/ k \in {"Ingress", "Deployment"} /\ d.generation # kid[k].generation
    BY <1>1, <1>4, <1>6, WebsiteAssumption DEF IsKid, NoKid, KidRecord
  <2>7. d.exists \in BOOLEAN
    BY <1>5 DEF IsKid
  <2> QED
    BY <2>2, <2>3, <2>4, <2>5, <2>6, <2>7 DEF FineKid, DiffersFrom
<1> QED
  BY <1>2, <1>3, <1>4, <1>5, <1>8, <1>9, <1>10, OneKidInv

LEMMA MoveKidInv ==
  ASSUME IndInv, NEW k \in Kinds, MoveKid(k)
  PROVE  IndInv'
<1>1. IsKid(kid[k]) /\ kid = [j \in Kinds |-> kid[j]] /\ SpecOK(k, kid[k]) /\ kid[k].exists
  BY DEF IndInv, Types, MoveKid
<1>2. UNCHANGED <<site, theme, cache, queued, work, served, changes, faults>>
  BY DEF MoveKid, operatorVars
<1>3. changes' \in 0 .. MaxChanges /\ faults' \in 0 .. MaxFaults
  BY <1>2 DEF IndInv, Types
<1>4. PICK d : d = KidRecord(TRUE, kid[k].spec, site.shard, kid[k].generation, kid[k].observed, kid[k].rolledOut)
  OBVIOUS
<1>5. OneKid(k, d) /\ kid' = [j \in Kinds |-> kid'[j]]
  <2>1. kid'[k] = [kid[k] EXCEPT !.shard = site.shard]
    BY <1>1 DEF MoveKid, IsKid
  <2>2. kid'[k] = d
    <3>1. kid[k].exists = TRUE
      BY <1>1 DEF IsKid
    <3> QED
      BY <2>1, <3>1, <1>1, <1>4, KidUpdates
  <2> QED
    BY <2>2, <1>1 DEF MoveKid, OneKid
<1>6. IsKid(d) /\ SpecOK(k, d)
  <2>1. kid[k].generation \in Nat /\ kid[k].observed \in Nat /\ kid[k].rolledOut \in BOOLEAN
    BY <1>1 DEF IsKid
  <2>2. site.shard \in {"me", "other"}
    BY DEF IndInv, Types, SiteObject
  <2> QED
    <3>1. IsKid(d)
      BY <2>1, <2>2, <1>4, KidRecordIsKid
    <3>2. d.spec = kid[k].spec
      BY <1>4 DEF KidRecord
    <3> QED
      BY <3>1, <3>2, <1>1 DEF SpecOK
<1>7. d.exists /\ d.spec = kid[k].spec /\ d.generation = kid[k].generation /\ d.shard = site.shard
      /\ d.observed = kid[k].observed /\ d.rolledOut = kid[k].rolledOut
  BY <1>4 DEF KidRecord
<1>8. CopyOf(k, cache.kid[k], d)
  BY <1>1, <1>7 DEF CopyOf, IndInv, KidCopies
<1>9. RolledOut'
  BY <1>1, <1>2, <1>5, <1>7, WebsiteAssumption DEF IndInv, RolledOut, OneKid
<1>10. Settled /\ Serving =>
         /\ Fine(k) => FineKid(k, cache.kid[k], d, Wanted(k))
         /\ k = "Deployment" /\ Differs(k) => DiffersFrom(k, cache.kid[k], d)
  <2>1. Settled => site.shard = "me"
    BY DEF Settled, IndInv, SiteCopy
  <2> QED
    BY <2>1, <1>1, <1>7 DEF Fine, FineKid, Differs, DiffersFrom
<1> QED
  BY <1>2, <1>3, <1>5, <1>6, <1>8, <1>9, <1>10, OneKidInv

\* the deployment controller's steps
LEMMA DeploymentInv ==
  ASSUME IndInv, ObserveDeployment \/ RollOut
  PROVE  IndInv'
<1>1. PICK k \in Kinds : k = "Deployment"
  BY WebsiteAssumption
<1>2. IsKid(kid[k]) /\ kid = [j \in Kinds |-> kid[j]] /\ SpecOK(k, kid[k]) /\ kid[k].exists
  BY <1>1 DEF IndInv, Types, ObserveDeployment, RollOut
<1>3. UNCHANGED <<site, theme, cache, queued, work, changes, faults>>
  BY DEF ObserveDeployment, RollOut, operatorVars
<1>4. changes' \in 0 .. MaxChanges /\ faults' \in 0 .. MaxFaults
  BY <1>3 DEF IndInv, Types
<1>5. PICK d, r :
        /\ d = KidRecord(kid[k].exists, kid[k].spec, kid[k].shard, kid[k].generation, kid[k].generation, r)
        /\ r \in BOOLEAN /\ OneKid(k, d) /\ kid' = [j \in Kinds |-> kid'[j]]
        /\ r => served'.spec = kid[k].spec
  <2>1. CASE ObserveDeployment
    <3>1. PICK r \in BOOLEAN : r = FALSE
      OBVIOUS
    <3>2. PICK c, g : c = kid[k] /\ g = kid[k].generation
      OBVIOUS
    <3>3. kid'[k] = [c EXCEPT !.observed = g, !.rolledOut = r]
      BY <1>1, <1>2, <2>1, <3>1, <3>2 DEF ObserveDeployment, IsKid
    <3>4. [c EXCEPT !.observed = g, !.rolledOut = r] = KidRecord(c.exists, c.spec, c.shard, c.generation, g, r)
      <4>1. IsKid(c)
        BY <1>2, <3>2
      <4> QED
        BY <4>1, KidObserved, Zenon
    <3>5. kid'[k] = KidRecord(kid[k].exists, kid[k].spec, kid[k].shard, kid[k].generation, kid[k].generation, r)
      BY <3>2, <3>3, <3>4
    <3> QED
      BY <3>1, <3>5, <2>1, <1>1, <1>2 DEF ObserveDeployment, OneKid
  <2>2. CASE RollOut
    <3>1. PICK r \in BOOLEAN : r = TRUE
      OBVIOUS
    <3>2. kid'[k] = [kid[k] EXCEPT !.rolledOut = r] /\ kid[k].observed = kid[k].generation
      BY <1>1, <1>2, <2>2, <3>1 DEF RollOut, IsKid
    <3>3. kid'[k] = KidRecord(kid[k].exists, kid[k].spec, kid[k].shard, kid[k].generation, kid[k].observed, r)
      <4>1. PICK c : c = kid[k]
        OBVIOUS
      <4>2. IsKid(c) /\ kid'[k] = [c EXCEPT !.rolledOut = r]
        BY <1>2, <3>2, <4>1
      <4>3. \A q : [c EXCEPT !.rolledOut = q] = KidRecord(c.exists, c.spec, c.shard, c.generation, c.observed, q)
        BY <4>2, KidUpdates
      <4>4. kid'[k] = KidRecord(c.exists, c.spec, c.shard, c.generation, c.observed, r)
        BY <4>2, <4>3, Zenon
      <4> QED
        BY <4>1, <4>4
    <3>4. served'.spec = kid[k].spec
      BY <1>1, <2>2 DEF RollOut, Pods
    <3> QED
      BY <3>1, <3>2, <3>3, <3>4, <2>2, <1>1, <1>2 DEF RollOut, OneKid
  <2> QED
    BY <2>1, <2>2
<1>6. IsKid(d) /\ SpecOK(k, d)
  <2>1. kid[k].generation \in Nat /\ kid[k].shard \in {"me", "other"} /\ kid[k].exists \in BOOLEAN
    BY <1>2 DEF IsKid
  <2> QED
    <3>1. IsKid(d)
      BY <2>1, <1>5, KidRecordIsKid
    <3>2. d.spec = kid[k].spec /\ d.exists = kid[k].exists
      BY <1>5 DEF KidRecord
    <3> QED
      BY <3>1, <3>2, <1>2 DEF SpecOK
<1>7. d.exists /\ d.spec = kid[k].spec /\ d.generation = kid[k].generation /\ d.shard = kid[k].shard
      /\ d.observed = d.generation /\ d.rolledOut = r
  BY <1>2, <1>5 DEF KidRecord
<1>8. CopyOf(k, cache.kid[k], d)
  BY <1>1, <1>2, <1>7 DEF CopyOf, IndInv, KidCopies
<1>9. RolledOut'
  <2>1. kid'["Deployment"] = d /\ d.generation \in Nat
    BY <1>1, <1>5, <1>6 DEF OneKid, IsKid
  <2> QED
    BY <2>1, <1>5, <1>7 DEF RolledOut
<1>10. Settled /\ Serving =>
         /\ Fine(k) => FineKid(k, cache.kid[k], d, Wanted(k))
         /\ k = "Deployment" /\ Differs(k) => DiffersFrom(k, cache.kid[k], d)
  BY <1>2, <1>7 DEF Fine, FineKid, Differs, DiffersFrom
<1> QED
  BY <1>1, <1>3, <1>4, <1>5, <1>6, <1>8, <1>9, <1>10, OneKidInv

\* Only the Website changes, and its spec with a new generation: a spec of an
\* old generation is nothing that the controller could be done with.
LEMMA SiteStep ==
  ASSUME IndInv, UNCHANGED <<kid, served, cache, queued, work>>,
         site' \in SiteObject, site'.drain => site'.shard = "me",
         theme' \in [Themes -> Nat],
         changes' \in 0 .. MaxChanges, faults' \in 0 .. MaxFaults,
         SiteCopy', Settled' => Settled /\ site'.status = site.status
  PROVE  IndInv'
<1>1. Types' /\ KidCopies' /\ RolledOut' /\ WorkCopy'
  BY DEF IndInv, Types, KidCopies, RolledOut, WorkCopy
<1>2. /\ Due' = Due /\ (Serving' <=> Serving) /\ Content' = Content
      /\ \A k \in Kinds : Fine(k)' <=> Fine(k)
      /\ \A phase : GoodPhase(phase)' <=> GoodPhase(phase)
  BY DEF Due, Serving, Content, Fine, Differs, Wanted, GoodPhase
<1>3. Due \subseteq Kinds
  BY DEF Due
<1>4. KidsDone'
  BY <1>2, <1>3 DEF IndInv, KidsDone
<1>5. Settled' => site'.generation = site.generation
  BY DEF Settled
<1>6. StatusDone'
  BY <1>2, <1>5 DEF IndInv, StatusDone
<1> QED
  BY <1>1, <1>4, <1>6 DEF IndInv

LEMMA CollectGarbageInv ==
  ASSUME IndInv, CollectGarbage
  PROVE  IndInv'
<1>1. UNCHANGED <<theme, cache, queued, work, changes, faults>>
  BY DEF CollectGarbage, operatorVars
<1>2. changes' \in 0 .. MaxChanges /\ faults' \in 0 .. MaxFaults /\ theme' \in [Themes -> Nat]
  BY <1>1 DEF IndInv, Types
<1>3. CASE site' = NoSite /\ UNCHANGED <<kid, served>>
  <2>1. site' \in SiteObject /\ (site'.drain => site'.shard = "me") /\ ~site'.exists
    BY <1>3 DEF NoSite, SiteObject, NoStatus, Phases
  <2> QED
    BY <1>1, <1>2, <1>3, <2>1, SiteStep DEF SiteCopy, Settled
<1>4. CASE \E k \in Kinds : Remove(k) /\ UNCHANGED site
  <2>1. PICK k \in Kinds : /\ kid[k].exists /\ kid' = [kid EXCEPT ![k] = NoKid] /\ UNCHANGED site
                           /\ k # "Deployment" => UNCHANGED served
    BY <1>4 DEF Remove
  <2>2. PICK d : d = NoKid
    OBVIOUS
  <2>3. OneKid(k, d) /\ kid' = [j \in Kinds |-> kid'[j]]
    BY <2>1, <2>2 DEF OneKid, IndInv, Types
  <2>4. ~d.exists /\ IsKid(d)
    BY <2>2, NoKidIsKid DEF NoKid
  <2>5. SpecOK(k, d) /\ CopyOf(k, cache.kid[k], d)
    BY <2>4 DEF SpecOK, CopyOf
  <2>6. RolledOut'
    BY <2>1, <2>3, <2>4, WebsiteAssumption DEF IndInv, RolledOut, OneKid
  <2>7. ~(Settled /\ Serving)
    BY DEF IndInv, SiteCopy, Settled, Serving, CollectGarbage
  <2> QED
    BY <1>1, <1>2, <2>1, <2>3, <2>4, <2>5, <2>6, <2>7, OneKidInv
<1> QED
  BY <1>3, <1>4 DEF CollectGarbage

\* Only the pods change, and not the Deployment whose pods they are.
LEMMA RefreshInv ==
  ASSUME IndInv, Refresh
  PROVE  IndInv'
<1>1. UNCHANGED <<site, theme, kid, cache, queued, work, changes, faults>> /\ served'.spec = served.spec
  BY DEF Refresh, Pods, operatorVars
<1>2. Types' /\ SiteCopy' /\ KidCopies' /\ RolledOut' /\ WorkCopy'
  BY <1>1 DEF IndInv, Types, SiteCopy, KidCopies, RolledOut, WorkCopy
<1>3. KidsDone' /\ StatusDone'
  BY <1>1 DEF IndInv, KidsDone, StatusDone, Settled, Serving, Due, Fine, Wanted, Content, GoodPhase, Differs
<1> QED
  BY <1>2, <1>3 DEF IndInv

LEMMA CountsInv ==
  ASSUME IndInv
  PROVE  /\ Change => changes' \in 0 .. MaxChanges
         /\ Fault => faults' \in 0 .. MaxFaults
         /\ UNCHANGED changes => changes' \in 0 .. MaxChanges
         /\ UNCHANGED faults => faults' \in 0 .. MaxFaults
  BY WebsiteAssumption DEF IndInv, Types, Change, Fault

LEMMA SpecChangeInv ==
  ASSUME IndInv, DeleteSite \/ \E t \in Themes \cup {NoTheme} : UpdateSite(t)
  PROVE  IndInv'
<1>1. /\ UNCHANGED <<theme, kid, served, cache, queued, work, faults>> /\ Change
      /\ site.exists
  BY DEF DeleteSite, UpdateSite, operatorVars
<1>2. site' \in SiteObject /\ site'.generation = site.generation + 1 /\ site'.rv = site.rv + 1
      /\ site'.shard = site.shard /\ site'.drain = site.drain /\ site'.exists
  <2>1. site \in SiteObject /\ site.rv + 1 \in Nat /\ site.generation + 1 \in Nat
    BY SiteFields DEF IndInv, Types
  <2>2. CASE DeleteSite
    <3>1. PICK v \in Nat, g \in Nat, d \in BOOLEAN : v = site.rv + 1 /\ g = site.generation + 1 /\ d = TRUE
      BY <2>1
    <3>2. site' = [site EXCEPT !.rv = v, !.generation = g, !.deleting = d]
      BY <2>1, <2>2, <3>1 DEF DeleteSite
    <3>3. site' = SiteRecord(site.exists, v, g, site.theme, d, site.shard, site.drain, site.status)
      BY <2>1, <3>2, DeleteUpdate, Zenon
    <3>8. site' \in SiteObject
      <4>1. /\ site.exists \in BOOLEAN /\ site.theme \in Themes \cup {NoTheme} /\ site.shard \in {"me", "other"}
            /\ site.drain \in BOOLEAN /\ site.status \in SiteStatus
        BY <2>1, SiteFields
      <4> QED
        BY <3>3, <4>1, SiteRecordType
    <3>9. site'.exists = site.exists /\ site'.generation = site.generation + 1 /\ site'.rv = site.rv + 1
          /\ site'.shard = site.shard /\ site'.drain = site.drain
      BY <3>1, <3>3 DEF SiteRecord
    <3> QED
      BY <3>8, <3>9, <1>1
  <2>3. CASE \E t \in Themes \cup {NoTheme} : UpdateSite(t)
    <3>1. PICK t \in Themes \cup {NoTheme} : UpdateSite(t)
      BY <2>3
    <3>2. PICK v \in Nat, g \in Nat : v = site.rv + 1 /\ g = site.generation + 1
      BY <2>1
    <3>3. site' = [site EXCEPT !.rv = v, !.generation = g, !.theme = t]
      BY <2>1, <3>1, <3>2 DEF UpdateSite
    <3>4. site' = SiteRecord(site.exists, v, g, t, site.deleting, site.shard, site.drain, site.status)
      BY <2>1, <3>3, SpecUpdate, Zenon
    <3>8. site' \in SiteObject
      <4>1. /\ site.exists \in BOOLEAN /\ site.deleting \in BOOLEAN /\ site.shard \in {"me", "other"}
            /\ site.drain \in BOOLEAN /\ site.status \in SiteStatus
        BY <2>1, SiteFields
      <4> QED
        BY <3>4, <4>1, SiteRecordType
    <3>9. site'.exists = site.exists /\ site'.generation = site.generation + 1 /\ site'.rv = site.rv + 1
          /\ site'.shard = site.shard /\ site'.drain = site.drain
      BY <3>2, <3>4 DEF SiteRecord
    <3> QED
      BY <3>8, <3>9, <1>1
  <2> QED
    BY <2>2, <2>3
<1>3. cache.site \in SiteObject /\ site \in SiteObject /\ (site.drain => site.shard = "me")
      /\ theme' \in [Themes -> Nat]
  BY <1>1 DEF IndInv, Types
<1>4. SiteCopy'
  BY <1>1, <1>2, <1>3 DEF IndInv, SiteCopy, SiteObject
<1>5. ~Settled'
  BY <1>1, <1>2, <1>3 DEF IndInv, SiteCopy, Settled, SiteObject
<1> QED
  BY <1>1, <1>2, <1>3, <1>4, <1>5, CountsInv, SiteStep

LEMMA ChangeThemeInv ==
  ASSUME IndInv, NEW t \in Themes, ChangeTheme(t)
  PROVE  IndInv'
<1>1. UNCHANGED <<site, kid, served, cache, queued, work, faults>> /\ Change
  BY DEF ChangeTheme, operatorVars
<1>2. theme' \in [Themes -> Nat]
  BY DEF ChangeTheme, IndInv, Types
<1>3. site' \in SiteObject /\ (site'.drain => site'.shard = "me")
  BY <1>1 DEF IndInv, Types
<1>4. SiteCopy' /\ (Settled' => Settled)
  BY <1>1 DEF IndInv, SiteCopy, Settled
<1> QED
  BY <1>1, <1>2, <1>3, <1>4, CountsInv, SiteStep

LEMMA AssignmentInv ==
  ASSUME IndInv, Drain \/ Assign
  PROVE  IndInv'
<1>1. UNCHANGED <<theme, kid, served, cache, queued, work, faults>> /\ site.exists
  BY DEF Drain, Assign, operatorVars
<1>2. changes' \in 0 .. MaxChanges /\ faults' \in 0 .. MaxFaults
  BY <1>1, CountsInv DEF Drain, Assign
<1>3. cache.site \in SiteObject /\ site \in SiteObject /\ (site.drain => site.shard = "me")
      /\ theme' \in [Themes -> Nat]
  BY <1>1 DEF IndInv, Types
<1>4. /\ site' \in SiteObject /\ site'.generation = site.generation /\ site'.rv = site.rv + 1
      /\ site'.shard = "me" /\ site'.exists /\ site'.theme = site.theme
      /\ site'.deleting = site.deleting /\ site'.status = site.status
      /\ site.drain => site'.drain
      /\ site.shard = "me" \/ ~cache.site.exists
  <2>1. site.rv + 1 \in Nat
    BY <1>3, SiteFields
  <2>2. CASE Drain
    <3>1. PICK v \in Nat, r \in BOOLEAN : v = site.rv + 1 /\ r = TRUE
      BY <2>1
    <3>2. site' = [site EXCEPT !.rv = v, !.drain = r] /\ site.shard = "me"
      BY <1>3, <2>2, <3>1 DEF Drain
    <3>3. site' = SiteRecord(site.exists, v, site.generation, site.theme, site.deleting, site.shard, r, site.status)
      BY <1>3, <3>2, DrainUpdate, Zenon
    <3>8. site' \in SiteObject
      BY <1>3, <3>1, <3>3, SiteFields, SiteRecordType
    <3>9. site'.exists = site.exists /\ site'.generation = site.generation /\ site'.rv = site.rv + 1 /\ site'.theme = site.theme
          /\ site'.deleting = site.deleting /\ site'.status = site.status /\ site'.shard = site.shard /\ site'.drain = TRUE
      BY <3>1, <3>3 DEF SiteRecord
    <3> QED
      BY <3>8, <3>9, <1>1, <3>2
  <2>3. CASE Assign
    <3>1. PICK v \in Nat : v = site.rv + 1
      BY <2>1
    <3>2. site' = [site EXCEPT !.rv = v, !.shard = "me"]
      BY <1>3, <2>3, <3>1 DEF Assign
    <3>3. site' = SiteRecord(site.exists, v, site.generation, site.theme, site.deleting, "me", site.drain, site.status)
      BY <1>3, <3>2, ShardUpdate, Zenon
    <3>8. site' \in SiteObject
      BY <1>3, <3>1, <3>3, SiteFields, SiteRecordType
    <3>9. site'.exists = site.exists /\ site'.generation = site.generation /\ site'.rv = site.rv + 1 /\ site'.theme = site.theme
          /\ site'.deleting = site.deleting /\ site'.status = site.status /\ site'.shard = "me" /\ site'.drain = site.drain
      BY <3>1, <3>3 DEF SiteRecord
    <3> QED
      BY <3>8, <3>9, <1>1, <2>3 DEF Assign
  <2> QED
    BY <2>2, <2>3
<1>5. SiteCopy'
  BY <1>1, <1>3, <1>4 DEF IndInv, SiteCopy, SiteObject
<1>6. Settled' => Settled /\ site'.status = site.status
  BY <1>1, <1>4 DEF Settled
<1> QED
  BY <1>1, <1>2, <1>3, <1>4, <1>5, <1>6, SiteStep

-----------------------------------------------------------------------------
(* Events.                                                                 *)

LEMMA DesiredIs ==
  ASSUME NEW k \in Kinds, NEW w, NEW v, NEW c
  PROVE  /\ k = "ConfigMap" => Desired(k, w, v, c) = <<w.theme, v>>
         /\ k = "Service" => Desired(k, w, v, c) = "ClusterIP"
         /\ k = "Ingress" => Desired(k, w, v, c) \in {"fake", "default"}
         /\ \A x : x.theme = w.theme => Desired(k, x, v, c) = Desired(k, w, v, c)
<1>1. k \in {"ConfigMap", "Service", "Ingress", "Deployment"}
  BY WebsiteAssumption
<1>2. CASE k = "ConfigMap"
  BY <1>2 DEF Desired, reconcileConfigMap, RenderIndexHTML
<1>3. CASE k = "Service"
  BY <1>3 DEF Desired, reconcileService
<1>4. CASE k = "Ingress"
  BY <1>4 DEF Desired, reconcileIngress
<1>5. CASE k = "Deployment"
  BY <1>5 DEF Desired
<1> QED
  BY <1>1, <1>2, <1>3, <1>4, <1>5

\* The Website is queued: whatever is wrong will be looked at.
LEMMA Requeued ==
  ASSUME queued' PROVE WorkCopy' /\ KidsDone' /\ StatusDone'
  BY DEF WorkCopy, KidsDone, StatusDone, Settled

LEMMA DeliverSiteInv ==
  ASSUME IndInv, DeliverSite
  PROVE  IndInv'
<1>1. UNCHANGED <<site, theme, kid, served, work, changes, faults>>
  BY DEF DeliverSite
<1>2. PICK new : new = Filtered(site, NoSite)
  OBVIOUS
<1>3. /\ cache' = [site |-> new, theme |-> cache.theme, kid |-> cache.kid]
      /\ queued' = (queued \/ Predicate(cache.site, new))
  <2>1. cache' = [cache EXCEPT !.site = new] /\ queued' = (queued \/ Predicate(cache.site, new))
    BY <1>2 DEF DeliverSite
  <2>2. cache = [site |-> cache.site, theme |-> cache.theme, kid |-> cache.kid]
    BY DEF IndInv, Types
  <2>3. PICK a, b, c : cache = [site |-> a, theme |-> b, kid |-> c]
    BY <2>2
  <2>4. [cache EXCEPT !.site = new] = [site |-> new, theme |-> b, kid |-> c]
    BY <2>3
  <2> QED
    BY <2>1, <2>3, <2>4
<1>4. cache'.site = new /\ cache'.theme = cache.theme /\ cache'.kid = cache.kid
  BY <1>3
<1>5. /\ new \in SiteObject
      /\ new.exists => new = site /\ site.exists /\ site.shard = "me"
      /\ site.exists /\ site.shard = "me" => new = site
  BY <1>2 DEF Filtered, NoSite, IndInv, Types, SiteObject, NoStatus, Phases
<1>6. queued' \in BOOLEAN
  BY <1>3
<1>7. Types'
  BY <1>1, <1>3, <1>4, <1>5, <1>6 DEF IndInv, Types
<1>8. KidCopies' /\ RolledOut'
  BY <1>1, <1>4 DEF IndInv, KidCopies, RolledOut
<1>9. CASE queued'
  <2>1. SiteCopy'
    BY <1>1, <1>4, <1>5, <1>9, SiteFields DEF SiteCopy
  <2> QED
    BY <1>7, <1>8, <1>9, <2>1, Requeued DEF IndInv
<1>10. CASE ~queued'
  <2>1. ~queued /\ ~Predicate(cache.site, new)
    BY <1>3, <1>10
  <2>2. /\ cache.site.exists /\ new = site /\ site.exists /\ site.shard = "me" /\ ~site.drain
        /\ cache.site.generation = site.generation /\ cache.site.status = site.status
    BY <2>1, <1>5 DEF Predicate, websitePredicate
  <2>3. ~cache.site.drain /\ cache.site.theme = site.theme /\ cache.site.deleting = site.deleting
    BY <2>2 DEF IndInv, SiteCopy
  <2>4. SiteCopy'
    BY <1>1, <1>4, <2>2, SiteFields, <1>5 DEF SiteCopy
  <2>5. Settled
    BY <2>1, <2>2, <2>3 DEF Settled
  <2>6. WorkCopy'
    BY <1>1, <1>4, <2>1, <2>2, <2>3 DEF IndInv, WorkCopy
  <2>7. Content' = Content /\ (Serving' <=> Serving) /\ Due' = Due
    BY <1>1, <1>4, <2>2, <2>3 DEF Content, Serving, Due
  <2>8. \A k \in Kinds : Wanted(k)' = Wanted(k)
    <3> TAKE k \in Kinds
    <3>1. PICK x, y, v, c : x = site /\ y = cache.site /\ v = cache.theme[cache.site.theme] /\ c = Content
      OBVIOUS
    <3>2. Desired(k, x, v, c) = Desired(k, y, v, c)
      BY <3>1, <2>3, DesiredIs
    <3> QED
      BY <1>4, <2>2, <2>3, <2>7, <3>1, <3>2 DEF Wanted
  <2>9. /\ \A k \in Kinds : Fine(k)' <=> Fine(k)
        /\ \A phase : GoodPhase(phase)' <=> GoodPhase(phase)
    BY <1>1, <1>4, <2>2, <2>3, <2>7, <2>8 DEF Fine, GoodPhase, Differs
  <2>10. KidsDone'
    <3>1. Due \subseteq Kinds
      BY DEF Due
    <3> QED
      BY <1>1, <1>4, <2>2, <2>3, <2>5, <2>7, <2>9, <3>1 DEF IndInv, KidsDone
  <2>11. StatusDone'
    BY <1>1, <1>4, <2>2, <2>3, <2>5, <2>9 DEF IndInv, StatusDone
  <2> QED
    BY <1>7, <1>8, <2>4, <2>6, <2>10, <2>11 DEF IndInv
<1> QED
  BY <1>9, <1>10

LEMMA DeliverKidInv ==
  ASSUME IndInv, NEW k \in Kinds, DeliverKid(k)
  PROVE  IndInv'
<1>1. UNCHANGED <<site, theme, kid, served, work, changes, faults>>
  BY DEF DeliverKid
<1>2. PICK new : new = Filtered(kid[k], NoKid)
  OBVIOUS
<1>3. PICK kids : kids = [cache.kid EXCEPT ![k] = new]
  OBVIOUS
<1>4. /\ cache' = [site |-> cache.site, theme |-> cache.theme, kid |-> kids]
      /\ queued' = (queued \/ OwnsPredicate(k, cache.kid[k], new))
  <2>1. PICK a, b, c : cache = [site |-> a, theme |-> b, kid |-> c]
    BY DEF IndInv, Types
  <2>2. cache' = [cache EXCEPT !.kid = kids] /\ queued' = (queued \/ OwnsPredicate(k, cache.kid[k], new))
    BY <1>2, <1>3, <2>1 DEF DeliverKid
  <2>3. [cache EXCEPT !.kid = kids] = [site |-> a, theme |-> b, kid |-> kids]
    BY <2>1
  <2> QED
    BY <2>1, <2>2, <2>3
<1>5. cache'.site = cache.site /\ cache'.theme = cache.theme /\ cache'.kid = kids
  BY <1>4
<1>6. kids[k] = new /\ (\A j \in Kinds \ {k} : kids[j] = cache.kid[j]) /\ kids = [j \in Kinds |-> kids[j]]
  BY <1>3 DEF IndInv, Types
<1>7. /\ IsKid(new) /\ SpecOK(k, new)
      /\ new.exists => new = kid[k] /\ kid[k].exists /\ kid[k].shard = "me"
  BY <1>2, NoKidIsKid DEF Filtered, IndInv, Types, NoKid, SpecOK
<1>8. Types'
  <2>1. \A j \in Kinds : IsKid(kids[j]) /\ SpecOK(j, kids[j])
    BY <1>6, <1>7 DEF IndInv, Types
  <2>2. queued' \in BOOLEAN
    BY <1>4
  <2> QED
    BY <1>1, <1>4, <1>5, <1>6, <2>1, <2>2 DEF IndInv, Types
<1>9. KidCopies'
  <2>1. \A j \in Kinds : IsKid(kid[j])
    BY DEF IndInv, Types
  <2>2. \A j \in Kinds : kid[j].generation \in Nat
    BY <2>1 DEF IsKid
  <2>3. \A j \in Kinds : kid[j].generation <= kid[j].generation
    <3> TAKE j \in Kinds
    <3>1. PICK n \in Nat : n = kid[j].generation
      BY <2>2
    <3> QED
      BY <3>1
  <2> QED
    BY <1>1, <1>5, <1>6, <1>7, <2>3 DEF IndInv, KidCopies
<1>10. RolledOut'
  BY <1>1 DEF IndInv, RolledOut
<1>11. queued => queued'
  BY <1>4
<1>12. SiteCopy' /\ WorkCopy'
  BY <1>1, <1>5, <1>11 DEF IndInv, SiteCopy, WorkCopy
<1>13. CASE queued'
  BY <1>8, <1>9, <1>10, <1>12, <1>13, Requeued DEF IndInv
<1>14. CASE ~queued'
  <2>1. ~queued /\ ~OwnsPredicate(k, cache.kid[k], new)
    BY <1>4, <1>14
  <2>2. /\ cache.kid[k].exists /\ new = kid[k] /\ kid[k].exists
        /\ k = "ConfigMap" => cache.kid[k].spec = kid[k].spec
        /\ k # "ConfigMap" => cache.kid[k].generation = kid[k].generation
        /\ k = "Deployment" => (IsDeploymentReady(cache.kid[k]) <=> IsDeploymentReady(new))
    BY <2>1, <1>7 DEF OwnsPredicate, DeploymentAvailabilityChanged, IsDeploymentReady
  <2>3. ~Differs(k) /\ ~Differs(k)'
    BY <1>1, <1>5, <1>6, <2>2 DEF Differs, DiffersFrom
  <2>4. k # "Service" => cache.kid[k].spec = new.spec
    BY <2>2, WebsiteAssumption DEF IndInv, KidCopies
  <2>5. (Settled' => Settled) /\ Content' = Content /\ (Serving' <=> Serving) /\ Due' = Due
    BY <1>1, <1>5, <2>1 DEF Settled, Content, Serving, Due
  <2>6. \A j \in Kinds : Wanted(j)' = Wanted(j)
    BY <1>5, <2>5 DEF Wanted
  <2>7. \A j \in Kinds : Fine(j) => Fine(j)'
    <3>1. Fine(k) => Fine(k)'
      BY <1>1, <1>5, <1>6, <2>2, <2>3, <2>4, <2>6 DEF Fine, FineKid, Differs
    <3>2. \A j \in Kinds \ {k} : Fine(j) => Fine(j)'
      BY <1>1, <1>5, <1>6, <2>6 DEF Fine
    <3> QED
      BY <3>1, <3>2
  <2>8. \A phase : GoodPhase(phase) => GoodPhase(phase)'
    <3>1. CASE k = "Deployment"
      BY <1>5, <1>6, <2>2, <2>3, <2>5, <3>1 DEF GoodPhase
    <3>2. CASE k # "Deployment"
      <4>1. kids["Deployment"] = cache.kid["Deployment"] /\ (Differs("Deployment")' <=> Differs("Deployment"))
        BY <1>1, <1>5, <1>6, <3>2, WebsiteAssumption DEF Differs
      <4> QED
        BY <1>5, <2>5, <4>1 DEF GoodPhase
    <3> QED
      BY <3>1, <3>2
  <2>9. KidsDone'
    <3>1. Due \subseteq Kinds
      BY DEF Due
    <3> QED
      BY <1>1, <1>5, <2>5, <2>7, <3>1 DEF IndInv, KidsDone
  <2>10. StatusDone'
    BY <1>1, <1>5, <2>5, <2>8 DEF IndInv, StatusDone
  <2> QED
    BY <1>8, <1>9, <1>10, <1>12, <2>9, <2>10 DEF IndInv
<1> QED
  BY <1>13, <1>14

LEMMA DeliverThemeInv ==
  ASSUME IndInv, NEW t \in Themes, DeliverTheme(t)
  PROVE  IndInv'
<1>1. UNCHANGED <<site, theme, kid, served, work, changes, faults>>
  BY DEF DeliverTheme
<1>2. PICK themes : themes = [cache.theme EXCEPT ![t] = theme[t]]
  OBVIOUS
<1>3. /\ cache' = [site |-> cache.site, theme |-> themes, kid |-> cache.kid]
      /\ queued' = (queued \/ MapThemeToWebsites(t))
  <2>1. PICK a, b, c : cache = [site |-> a, theme |-> b, kid |-> c]
    BY DEF IndInv, Types
  <2>2. cache' = [cache EXCEPT !.theme = themes] /\ queued' = (queued \/ MapThemeToWebsites(t))
    BY <1>2, <2>1 DEF DeliverTheme
  <2>3. [cache EXCEPT !.theme = themes] = [site |-> a, theme |-> themes, kid |-> c]
    BY <2>1
  <2> QED
    BY <2>1, <2>2, <2>3
<1>4. cache'.site = cache.site /\ cache'.theme = themes /\ cache'.kid = cache.kid
  BY <1>3
<1>5. themes \in [Themes -> Nat] /\ \A u \in Themes \ {t} : themes[u] = cache.theme[u]
  BY <1>2 DEF IndInv, Types
<1>6. Types'
  <2>1. queued' \in BOOLEAN
    BY <1>3
  <2> QED
    BY <1>1, <1>3, <1>4, <1>5, <2>1 DEF IndInv, Types
<1>7. queued => queued'
  BY <1>3
<1>8. SiteCopy' /\ KidCopies' /\ RolledOut' /\ WorkCopy'
  BY <1>1, <1>4, <1>7 DEF IndInv, SiteCopy, KidCopies, RolledOut, WorkCopy
<1>9. (Settled' => Settled) /\ (Serving' <=> Serving) /\ Due' = Due
  BY <1>1, <1>4, <1>7 DEF Settled, Serving, Due
<1>10. \A phase : GoodPhase(phase)' <=> GoodPhase(phase)
  BY <1>1, <1>4, <1>9 DEF GoodPhase, Differs
<1>11. StatusDone'
  BY <1>1, <1>4, <1>9, <1>10 DEF IndInv, StatusDone
<1>12. KidsDone'
  <2> SUFFICES ASSUME Settled', Serving'
               PROVE  /\ \A k \in Due : Fine(k)'
                      /\ work.pc \in Kinds => work.content = Content'
                      /\ ~(work.pc = "status" /\ work.err) => themes[cache.site.theme] # 0
    BY <1>1, <1>4, <1>9 DEF KidsDone
  <2>1. cache.site.theme \in Themes \ {t}
    <3>1. cache.site.theme # t
      BY <1>3 DEF Settled, MapThemeToWebsites
    <3> QED
      BY <3>1, <1>9 DEF Serving, IndInv, Types, SiteObject
  <2>2. themes[cache.site.theme] = cache.theme[cache.site.theme]
    BY <2>1, <1>5
  <2>3. Content' = Content
    BY <1>4, <2>2 DEF Content
  <2>4. \A k \in Kinds : Fine(k)' <=> Fine(k)
    BY <1>1, <1>4, <2>2, <2>3 DEF Fine, Wanted
  <2>5. Due \subseteq Kinds
    BY DEF Due
  <2> QED
    BY <1>9, <2>2, <2>3, <2>4, <2>5 DEF IndInv, KidsDone
<1> QED
  BY <1>6, <1>8, <1>11, <1>12 DEF IndInv

-----------------------------------------------------------------------------
(* Reconcile.                                                              *)

LEMMA AckDrainInv ==
  ASSUME IndInv, AckDrain
  PROVE  IndInv'
<1>1. UNCHANGED <<theme, kid, served, cache, work, changes>> /\ queued /\ cache.site.exists /\ cache.site.drain
      /\ work.pc = "idle"
  BY DEF AckDrain
<1>2. faults' \in 0 .. MaxFaults /\ changes' \in 0 .. MaxChanges
  BY <1>1, CountsInv DEF AckDrain
<1>3. CASE UNCHANGED <<site, queued>>
  <2>1. Types' /\ SiteCopy' /\ KidCopies' /\ RolledOut'
    BY <1>1, <1>2, <1>3 DEF IndInv, Types, SiteCopy, KidCopies, RolledOut
  <2>2. queued'
    BY <1>1, <1>3
  <2> QED
    BY <2>1, <2>2, Requeued DEF IndInv
<1>4. CASE /\ site.exists /\ site.rv = cache.site.rv /\ queued' = FALSE
           /\ site' = [site EXCEPT !.rv = @ + 1, !.shard = "other", !.drain = FALSE]
  <2>1. site \in SiteObject /\ cache.site \in SiteObject /\ site.rv + 1 \in Nat
    BY SiteFields DEF IndInv, Types
  <2>2. PICK v \in Nat, r \in BOOLEAN : v = site.rv + 1 /\ r = FALSE
    BY <2>1
  <2>3. site' = [site EXCEPT !.rv = v, !.shard = "other", !.drain = r]
    BY <1>4, <2>1, <2>2
  <2>4. site' = SiteRecord(site.exists, v, site.generation, site.theme, site.deleting, "other", r, site.status)
    BY <2>1, <2>3, AckUpdate, Zenon
  <2>5. site' \in SiteObject
    BY <2>1, <2>2, <2>4, SiteFields, SiteRecordType
  <2>6. /\ site'.rv = site.rv + 1 /\ site'.generation = site.generation /\ site'.theme = site.theme
        /\ site'.deleting = site.deleting /\ site'.shard = "other" /\ ~site'.drain
    BY <2>2, <2>4 DEF SiteRecord
  <2>7. Types'
    BY <1>1, <1>2, <1>4, <2>5, <2>6 DEF IndInv, Types
  <2>8. SiteCopy'
    BY <1>1, <1>4, <2>1, <2>6, SiteFields DEF IndInv, SiteCopy
  <2>9. KidCopies' /\ RolledOut' /\ WorkCopy' /\ ~Settled'
    BY <1>1 DEF IndInv, KidCopies, RolledOut, WorkCopy, Settled
  <2> QED
    BY <2>7, <2>8, <2>9 DEF IndInv, KidsDone, StatusDone
<1> QED
  BY <1>3, <1>4 DEF AckDrain

LEMMA UpdateStatusInv ==
  ASSUME IndInv, UpdateStatus
  PROVE  IndInv'
<1>1. UNCHANGED <<theme, kid, served, cache, changes>> /\ work.pc = "status" /\ work' = Idle
  BY DEF UpdateStatus
<1>2. faults' \in 0 .. MaxFaults /\ changes' \in 0 .. MaxChanges
  BY <1>1, CountsInv DEF UpdateStatus
<1>3. PICK status : status = [observed |-> work.site.generation, phase |-> work.phase]
  OBVIOUS
<1>4. status \in SiteStatus /\ site \in SiteObject /\ cache.site \in SiteObject /\ work.site \in SiteObject
  BY <1>3, SiteFields DEF IndInv, Types, SiteStatus
<1>5. work'.pc = "idle" /\ work' = [pc |-> work'.pc, site |-> work'.site, content |-> work'.content,
                                    phase |-> work'.phase, err |-> work'.err]
      /\ work'.site \in SiteObject /\ work'.phase \in Phases /\ work'.err \in BOOLEAN
  BY <1>1 DEF Idle, NoSite, SiteObject, NoStatus, Phases
<1>6. /\ site' \in SiteObject /\ site'.exists = site.exists /\ site'.generation = site.generation
      /\ site'.theme = site.theme /\ site'.deleting = site.deleting /\ site'.shard = site.shard
      /\ site'.drain = site.drain /\ site'.rv >= site.rv
      /\ \/ site' = site /\ status = work.site.status /\ queued' = (queued \/ work.err)
         \/ site'.status = status /\ status # work.site.status /\ queued' = (queued \/ work.err)
         \/ queued' = TRUE
  <2>1. site.rv \in Nat
    BY <1>4, SiteFields
  <2>2. CASE status = work.site.status /\ queued' = (queued \/ work.err) /\ UNCHANGED site
    BY <1>4, <2>1, <2>2
  <2>3. CASE status # work.site.status /\ queued' = TRUE /\ UNCHANGED site
    BY <1>4, <2>1, <2>3
  <2>4. CASE /\ status # work.site.status /\ queued' = (queued \/ work.err)
             /\ site' = [site EXCEPT !.rv = @ + 1, !.status = status]
    <3>1. PICK v \in Nat : v = site.rv + 1
      BY <2>1
    <3>2. site' = [site EXCEPT !.rv = v, !.status = status]
      BY <2>4, <1>4, <3>1
    <3>3. site' = SiteRecord(site.exists, v, site.generation, site.theme, site.deleting, site.shard, site.drain, status)
      BY <1>4, <3>2, StatusUpdate, Zenon
    <3>4. site' \in SiteObject
      BY <1>4, <3>1, <3>3, SiteFields, SiteRecordType
    <3>5. /\ site'.exists = site.exists /\ site'.generation = site.generation
          /\ site'.theme = site.theme /\ site'.deleting = site.deleting /\ site'.shard = site.shard
          /\ site'.drain = site.drain /\ site'.rv = v /\ site'.status = status
      BY <3>3 DEF SiteRecord
    <3> QED
      BY <2>1, <2>4, <3>1, <3>4, <3>5
  <2> QED
    BY <1>3, <2>2, <2>3, <2>4 DEF UpdateStatus
<1>7. queued' \in BOOLEAN /\ (queued => queued')
  BY <1>6 DEF IndInv, Types
<1>8. Types'
  <2>1. site'.drain => site'.shard = "me"
    BY <1>6 DEF IndInv, Types
  <2> QED
    BY <1>1, <1>2, <1>5, <1>6, <1>7, <2>1 DEF IndInv, Types
<1>9. SiteCopy'
  BY <1>1, <1>4, <1>6, <1>7, SiteFields DEF IndInv, SiteCopy
<1>10. KidCopies' /\ RolledOut' /\ WorkCopy'
  BY <1>1, <1>5 DEF IndInv, KidCopies, RolledOut, WorkCopy
<1>11. CASE queued'
  BY <1>8, <1>9, <1>10, <1>11, Requeued DEF IndInv
<1>12. CASE ~queued'
  <2>1. ~queued /\ ~work.err
    BY <1>6, <1>12 DEF IndInv, Types
  <2>2. (Settled' => Settled) /\ (Serving' <=> Serving) /\ Content' = Content /\ Due = Kinds
    BY <1>1, <1>6, <2>1 DEF Settled, Serving, Content, Due
  <2>3. Due' \subseteq Kinds /\ \A k \in Kinds : Fine(k)' <=> Fine(k)
    BY <1>1, <2>2 DEF Due, Fine, Wanted, Differs
  <2>4. "idle" \notin Kinds
    BY WebsiteAssumption
  <2>5. KidsDone'
    BY <1>1, <1>5, <2>1, <2>2, <2>3, <2>4 DEF IndInv, KidsDone
  <2>6. \A phase : GoodPhase(phase)' <=> GoodPhase(phase)
    BY <1>1, <2>2 DEF GoodPhase, Differs
  <2>7. StatusDone'
    <3> SUFFICES ASSUME Settled', site'.status = cache.site.status
                 PROVE  site'.status.observed = site'.generation /\ GoodPhase(site'.status.phase)
      BY <1>1, <1>5, <2>4, <2>6 DEF StatusDone
    <3>1. /\ work.site.generation = site.generation /\ work.site.status = cache.site.status
          /\ GoodPhase(work.phase)
      BY <1>1, <2>1, <2>2 DEF IndInv, WorkCopy, Settled, StatusDone
    <3>2. site'.status = status
      BY <1>6, <1>12, <3>1
    <3> QED
      BY <1>3, <1>6, <3>1, <3>2
  <2> QED
    BY <1>8, <1>9, <1>10, <2>5, <2>7 DEF IndInv
<1> QED
  BY <1>11, <1>12

LEMMA ReconcileInv ==
  ASSUME IndInv, Reconcile
  PROVE  IndInv'
<1>1. UNCHANGED <<site, theme, kid, served, cache, changes, faults>> /\ queued' = FALSE /\ ~cache.site.drain
      /\ work.pc = "idle"
  BY DEF Reconcile
<1>2. cache.site \in SiteObject /\ NoSite \in SiteObject
  BY DEF IndInv, Types, NoSite, SiteObject, NoStatus, Phases
<1>3. PICK w : w = cache.site
  OBVIOUS
<1>4. PICK pc, content, phase, err, s :
        /\ work' = [pc |-> pc, site |-> s, content |-> content, phase |-> phase, err |-> err]
        /\ phase \in Phases /\ err \in BOOLEAN
        /\ \/ ~w.exists /\ pc = "idle" /\ s = NoSite
           \/ /\ w.exists /\ pc = "status" /\ s = w
              /\ \/ w.deleting /\ phase = "Terminating"
                 \/ ~w.deleting /\ w.theme = NoTheme
                 \/ ~w.deleting /\ w.theme # NoTheme /\ err
           \/ /\ w.exists /\ pc = "ConfigMap" /\ s = w /\ ~w.deleting /\ w.theme # NoTheme
              /\ cache.theme[w.theme] # 0 /\ content = <<w.theme, cache.theme[w.theme]>>
  <2>1. /\ Idle = WorkRecord("idle", NoSite, None, "none", FALSE) /\ IsWork(Idle)
        /\ Idle.content = None /\ Idle.phase = "none" /\ Idle.err = FALSE
    BY DEF Idle, WorkRecord, IsWork
  <2>2. CASE ~w.exists
    <3>1. work' = Idle
      BY <1>3, <2>2 DEF Reconcile
    <3> QED
      BY <2>1, <2>2, <3>1 DEF WorkRecord, Phases
  <2>3. CASE w.exists /\ w.deleting
    <3>1. PICK h, e : h = "Terminating" /\ e = FALSE
      OBVIOUS
    <3>2. work' = [Idle EXCEPT !.pc = "status", !.site = w, !.phase = h, !.err = e]
      BY <1>3, <2>3, <3>1 DEF Reconcile
    <3>3. work' = [pc |-> "status", site |-> w, content |-> None, phase |-> h, err |-> e]
      BY <2>1, <3>2, WorkEnd, Zenon DEF WorkRecord
    <3>4. h \in Phases /\ e \in BOOLEAN
      BY <1>2, <1>3, <3>1 DEF Phases, SiteObject
    <3> QED
      BY <2>3, <3>1, <3>3, <3>4
  <2>4. CASE w.exists /\ ~w.deleting /\ w.theme = NoTheme
    <3>1. PICK h, e : h = w.status.phase /\ e = FALSE
      OBVIOUS
    <3>2. work' = [Idle EXCEPT !.pc = "status", !.site = w, !.phase = h, !.err = e]
      BY <1>3, <2>4, <3>1 DEF Reconcile
    <3>3. work' = [pc |-> "status", site |-> w, content |-> None, phase |-> h, err |-> e]
      BY <2>1, <3>2, WorkEnd, Zenon DEF WorkRecord
    <3>4. h \in Phases /\ e \in BOOLEAN
      BY <1>2, <1>3, <3>1 DEF Phases, SiteObject
    <3> QED
      BY <2>4, <3>1, <3>3, <3>4
  <2>5. CASE w.exists /\ ~w.deleting /\ w.theme # NoTheme /\ cache.theme[w.theme] = 0
    <3>1. PICK h, e : h = "Error" /\ e = TRUE
      OBVIOUS
    <3>2. work' = [Idle EXCEPT !.pc = "status", !.site = w, !.phase = h, !.err = e]
      BY <1>3, <2>5, <3>1 DEF Reconcile
    <3>3. work' = [pc |-> "status", site |-> w, content |-> None, phase |-> h, err |-> e]
      BY <2>1, <3>2, WorkEnd, Zenon DEF WorkRecord
    <3>4. h \in Phases /\ e \in BOOLEAN
      BY <1>2, <1>3, <3>1 DEF Phases, SiteObject
    <3> QED
      BY <2>5, <3>1, <3>3, <3>4
  <2>6. CASE w.exists /\ ~w.deleting /\ w.theme # NoTheme /\ cache.theme[w.theme] # 0
    <3>1. PICK c : c = <<w.theme, cache.theme[w.theme]>>
      OBVIOUS
    <3>2. work' = [Idle EXCEPT !.pc = "ConfigMap", !.site = w, !.content = c]
      BY <1>3, <2>6, <3>1 DEF Reconcile, reconcileConfigMap, RenderIndexHTML
    <3>3. work' = [pc |-> "ConfigMap", site |-> w, content |-> c, phase |-> "none", err |-> FALSE]
      BY <2>1, <3>2, WorkStart, Zenon DEF WorkRecord
    <3> QED
      BY <2>6, <3>1, <3>3 DEF Phases
  <2>7. w.exists \in BOOLEAN /\ w.deleting \in BOOLEAN
    BY <1>2, <1>3, SiteFields
  <2> QED
    BY <2>2, <2>3, <2>4, <2>5, <2>6, <2>7
<1>5. /\ work'.pc = pc /\ work'.site = s /\ work'.content = content /\ work'.phase = phase /\ work'.err = err
  BY <1>4
<1>6. Types'
  <2>1. pc \in Kinds \cup {"idle", "status"} /\ s \in SiteObject
    BY <1>2, <1>3, <1>4, WebsiteAssumption
  <2> QED
    BY <1>1, <1>4, <1>5, <2>1 DEF IndInv, Types
<1>7. SiteCopy' /\ KidCopies' /\ RolledOut'
  BY <1>1 DEF IndInv, SiteCopy, KidCopies, RolledOut
<1>8. WorkCopy'
  BY <1>1, <1>3, <1>4, <1>5 DEF WorkCopy
<1>9. KidsDone'
  <2> SUFFICES ASSUME Settled', Serving'
               PROVE  /\ \A k \in Due' : Fine(k)'
                      /\ pc \in Kinds => content = Content
                      /\ ~(pc = "status" /\ err) => cache.theme[cache.site.theme] # 0
    BY <1>1, <1>5 DEF KidsDone, Content
  <2>1. w.exists /\ ~w.deleting /\ w.theme # NoTheme
    BY <1>1, <1>3 DEF Settled, Serving
  <2>2. Due' = {}
    <3>1. \A k \in Kinds : ~(Rank[k] < Rank["ConfigMap"])
      BY WebsiteAssumption DEF Rank
    <3>2. pc # "idle" /\ ~(pc = "status" /\ ~err) /\ (pc \in Kinds => pc = "ConfigMap")
      BY <1>4, <2>1, WebsiteAssumption
    <3> QED
      BY <1>5, <3>1, <3>2 DEF Due
  <2> QED
    BY <1>3, <1>4, <2>1, <2>2, WebsiteAssumption DEF Content
<1>10. StatusDone'
  <2> SUFFICES ASSUME Settled'
               PROVE  /\ pc \in Kinds => ~cache.site.deleting
                      /\ pc = "status" /\ ~err => GoodPhase(phase)'
                      /\ pc # "idle"
    BY <1>1, <1>5 DEF StatusDone
  <2>1. w.exists
    BY <1>1, <1>3 DEF Settled
  <2> QED
    BY <1>1, <1>3, <1>4, <2>1, WebsiteAssumption DEF GoodPhase, Serving
<1> QED
  BY <1>6, <1>7, <1>8, <1>9, <1>10 DEF IndInv

\* What CreateOrPatch makes of the kid b, given the cached copy c.
Outcome(k, c, b, want, d) ==
  \/ c.exists /\ c.spec = want /\ d = b
  \/ /\ c.exists /\ c.spec # want /\ b.exists
     /\ d = KidRecord(b.exists, want, b.shard,
                      IF b.spec = want THEN b.generation ELSE NextGeneration(k, b.generation),
                      b.observed, b.rolledOut)
  \/ ~c.exists /\ ~b.exists /\ d = KidRecord(TRUE, want, "me", 1, 0, FALSE)

\* The spec of a Deployment is the same, or its rollout starts again.
SameOrNew(b, d) ==
  \/ /\ d.exists = b.exists /\ d.spec = b.spec /\ d.generation = b.generation
     /\ d.observed = b.observed /\ d.rolledOut = b.rolledOut
  \/ (b.exists => b.observed <= b.generation) => d.observed < d.generation

\* The kid is as wanted in the cache, or an event will tell that it is not.
LEMMA OutcomeIsFine ==
  ASSUME NEW k \in Kinds, NEW c, NEW b, NEW want, NEW d,
         IsKid(c), IsKid(b), SpecOK(k, b), CopyOf(k, c, b), Outcome(k, c, b, want, d),
         k = "Service" => want = "ClusterIP", k = "Ingress" => want \in {"fake", "default"}
  PROVE  /\ IsKid(d) /\ SpecOK(k, d) /\ CopyOf(k, c, d)
         /\ FineKid(k, c, d, want)
         /\ k = "Deployment" => DiffersFrom(k, c, d) \/ (c.exists /\ c.spec = want /\ d = b)
         /\ k = "Deployment" => SameOrNew(b, d)
<1>1. c.generation \in Nat /\ b.generation \in Nat /\ b.observed \in Nat /\ b.exists \in BOOLEAN
      /\ b.rolledOut \in BOOLEAN /\ b.shard \in {"me", "other"} /\ c.exists \in BOOLEAN
  BY DEF IsKid
<1>2. k \in {"ConfigMap", "Service", "Ingress", "Deployment"}
  BY WebsiteAssumption
<1>3. CASE c.exists /\ c.spec = want /\ d = b
  BY <1>1, <1>3 DEF FineKid, SameOrNew
<1>4. CASE ~c.exists /\ ~b.exists /\ d = KidRecord(TRUE, want, "me", 1, 0, FALSE)
  <2>1. IsKid(d)
    BY <1>4, KidRecordIsKid
  <2>2. d.exists /\ d.spec = want /\ d.shard = "me" /\ d.generation = 1 /\ d.observed = 0
    BY <1>4 DEF KidRecord
  <2>3. d.observed < d.generation
    BY <2>2
  <2>4. DiffersFrom(k, c, d) /\ SpecOK(k, d) /\ CopyOf(k, c, d)
    BY <1>4, <2>2 DEF DiffersFrom, SpecOK, CopyOf
  <2>5. SameOrNew(b, d)
    BY <2>3 DEF SameOrNew
  <2> QED
    BY <2>1, <2>4, <2>5 DEF FineKid
<1>5. ASSUME NEW g, g = IF b.spec = want THEN b.generation ELSE NextGeneration(k, b.generation),
             c.exists, c.spec # want, b.exists,
             d = KidRecord(b.exists, want, b.shard, g, b.observed, b.rolledOut)
      PROVE  /\ IsKid(d) /\ SpecOK(k, d) /\ CopyOf(k, c, d)
             /\ FineKid(k, c, d, want)
             /\ k = "Deployment" => DiffersFrom(k, c, d)
             /\ k = "Deployment" => SameOrNew(b, d)
  <2>1. g \in Nat
    BY <1>1, <1>5 DEF NextGeneration
  <2>2. IsKid(d)
    BY <1>1, <1>5, <2>1, KidRecordIsKid
  <2>3. d.exists = b.exists /\ d.spec = want /\ d.generation = g
        /\ d.observed = b.observed /\ d.rolledOut = b.rolledOut
    BY <1>5 DEF KidRecord
  <2>4. SpecOK(k, d)
    BY <2>3 DEF SpecOK
  <2>5. k \in {"Ingress", "Deployment"} => c.generation < g
    <3>1. k \in {"Ingress", "Deployment"} =>
            c.generation <= b.generation /\ (c.generation = b.generation => c.spec = b.spec)
      BY <1>5 DEF CopyOf
    <3> QED
      BY <1>1, <1>5, <3>1 DEF NextGeneration
  <2>6. CopyOf(k, c, d)
    BY <1>1, <2>1, <2>3, <2>5 DEF CopyOf
  <2>7. k # "Service" => DiffersFrom(k, c, d)
    <3>1. k \in {"Ingress", "Deployment"} => c.generation # d.generation
      BY <1>1, <2>1, <2>3, <2>5
    <3>2. c.exists /\ d.exists /\ c.spec # d.spec
      BY <1>5, <2>3
    <3> QED
      BY <1>2, <3>1, <3>2 DEF DiffersFrom
  <2>8. k = "Deployment" => SameOrNew(b, d)
    <3>1. CASE b.spec = want
      BY <1>5, <2>3, <3>1 DEF SameOrNew
    <3>2. CASE b.spec # want
      <4>1. k = "Deployment" => g = b.generation + 1
        BY <1>5, <3>2 DEF NextGeneration
      <4>2. k = "Deployment" => (b.observed <= b.generation => d.observed < d.generation)
        BY <1>1, <2>3, <4>1
      <4> QED
        BY <1>5, <4>2 DEF SameOrNew
    <3> QED
      BY <3>1, <3>2
  <2> QED
    BY <1>5, <2>2, <2>4, <2>6, <2>7, <2>8 DEF FineKid
<1> QED
  BY <1>3, <1>4, <1>5 DEF Outcome

LEMMA NextStepRank ==
  ASSUME NEW k \in Kinds, k # "Deployment"
  PROVE  /\ NextStep(k) \in Kinds
         /\ \A j \in Kinds : Rank[j] < Rank[NextStep(k)] => Rank[j] < Rank[k] \/ j = k
<1>1. k \in {"ConfigMap", "Service", "Ingress"}
  BY WebsiteAssumption
<1>2. CASE k = "ConfigMap"
  BY <1>2, WebsiteAssumption DEF NextStep, Rank
<1>3. CASE k = "Service"
  BY <1>3, WebsiteAssumption DEF NextStep, Rank
<1>4. CASE k = "Ingress"
  BY <1>4, WebsiteAssumption DEF NextStep, Rank
<1> QED
  BY <1>1, <1>2, <1>3, <1>4

ReadyPhase(d) == IF IsDeploymentReady(d) THEN "Ready" ELSE "Pending"

LEMMA ProceedEffect ==
  ASSUME Types, NEW k, NEW x, Proceed(k, x)
  PROVE  \E p, h : /\ work' = WorkRecord(p, work.site, work.content, h, work.err)
                   /\ IF k = "Deployment" THEN p = "status" /\ h = ReadyPhase(x)
                      ELSE p = NextStep(k) /\ h = work.phase
<1>1. IsWork(work)
  BY DEF Types, IsWork, WorkRecord
<1>2. CASE k = "Deployment"
  <2>1. PICK h : h = ReadyPhase(x)
    OBVIOUS
  <2>2. work' = [work EXCEPT !.pc = "status", !.phase = h]
    BY <1>2, <2>1 DEF Proceed, ReadyPhase
  <2>3. work' = WorkRecord("status", work.site, work.content, h, work.err)
    BY <1>1, <2>2, WorkReady, Zenon
  <2> QED
    BY <1>2, <2>1, <2>3
<1>3. CASE k # "Deployment"
  <2>1. PICK p : p = NextStep(k)
    OBVIOUS
  <2>2. work' = [work EXCEPT !.pc = p]
    BY <1>3, <2>1 DEF Proceed
  <2>3. work' = WorkRecord(p, work.site, work.content, work.phase, work.err)
    BY <1>1, <2>2, WorkStep, Zenon
  <2> QED
    BY <1>3, <2>1, <2>3
<1> QED
  BY <1>2, <1>3

LEMMA RecordErrorEffect ==
  ASSUME Types, recordError
  PROVE  work' = WorkRecord("status", work.site, work.content, "Error", TRUE)
<1>1. IsWork(work)
  BY DEF Types, IsWork, WorkRecord
<1>2. PICK e : e = TRUE
  OBVIOUS
<1>3. work' = [work EXCEPT !.pc = "status", !.phase = "Error", !.err = e]
  BY <1>2 DEF recordError
<1>4. PICK p, h : p = "status" /\ h = "Error"
  OBVIOUS
<1>5. [work EXCEPT !.pc = p, !.phase = h] = WorkRecord(p, work.site, work.content, h, work.err)
  BY <1>1, WorkReady, Zenon
<1>6. [WorkRecord(p, work.site, work.content, h, work.err) EXCEPT !.err = e]
        = WorkRecord(p, work.site, work.content, h, e)
  BY DEF WorkRecord
<1>7. work' = [[work EXCEPT !.pc = p, !.phase = h] EXCEPT !.err = e]
  BY <1>3, <1>4
<1> QED
  BY <1>2, <1>4, <1>5, <1>6, <1>7

\* What CreateOrPatch does to kid b with copy c: it becomes d, and the work goes
\* on at p with phase h and error e.
Effect(k, c, b, want, d, p, h, e) ==
  /\ OneKid(k, d) /\ kid' = [j \in Kinds |-> kid'[j]]
  /\ work' = WorkRecord(p, work.site, work.content, h, e)
  /\ \/ d = b /\ p = "status" /\ h = "Error" /\ e = TRUE
     \/ /\ Outcome(k, c, b, want, d) /\ e = work.err
        /\ IF k = "Deployment"
           THEN p = "status" /\ h = ReadyPhase(IF c.exists /\ c.spec = want THEN c ELSE d)
           ELSE p = NextStep(k) /\ h = work.phase

LEMMA CreateOrPatchEffect ==
  ASSUME IndInv, NEW k \in Kinds, CreateOrPatch(k),
         NEW want, want = Desired(k, work.site, work.content[2], work.content)
  PROVE  \E d, p, h, e : Effect(k, cache.kid[k], kid[k], want, d, p, h, e)
<1> SUFFICES \E d, p, h, e :
               /\ OneKid(k, d) /\ kid' = [j \in Kinds |-> kid'[j]]
               /\ work' = WorkRecord(p, work.site, work.content, h, e)
               /\ \/ d = kid[k] /\ p = "status" /\ h = "Error" /\ e = TRUE
                  \/ /\ Outcome(k, cache.kid[k], kid[k], want, d) /\ e = work.err
                     /\ IF k = "Deployment"
                        THEN p = "status" /\ h = ReadyPhase(IF cache.kid[k].exists /\ cache.kid[k].spec = want
                                                            THEN cache.kid[k] ELSE d)
                        ELSE p = NextStep(k) /\ h = work.phase
  BY DEF Effect
<1>1. PICK c, b : c = cache.kid[k] /\ b = kid[k]
  OBVIOUS
<1>2. IsKid(c) /\ IsKid(b) /\ kid = [j \in Kinds |-> kid[j]] /\ c.exists \in BOOLEAN /\ b.exists \in BOOLEAN
  BY <1>1 DEF IndInv, Types, IsKid
<1>3. Types
  BY DEF IndInv
<1>4. ASSUME NEW x, Proceed(k, x)
      PROVE  \E p, h : /\ work' = WorkRecord(p, work.site, work.content, h, work.err)
                       /\ IF k = "Deployment" THEN p = "status" /\ h = ReadyPhase(x)
                          ELSE p = NextStep(k) /\ h = work.phase
  BY <1>3, <1>4, ProceedEffect
<1>5. CASE c.exists /\ c.spec = want /\ Proceed(k, c) /\ UNCHANGED kid
  <2>1. OneKid(k, b) /\ kid' = [j \in Kinds |-> kid'[j]] /\ Outcome(k, c, b, want, b)
    BY <1>1, <1>2, <1>5 DEF OneKid, Outcome
  <2>2. PICK p, h : /\ work' = WorkRecord(p, work.site, work.content, h, work.err)
                    /\ IF k = "Deployment" THEN p = "status" /\ h = ReadyPhase(c)
                       ELSE p = NextStep(k) /\ h = work.phase
    BY <1>4, <1>5
  <2> QED
    BY <1>1, <1>5, <2>1, <2>2
<1>6. CASE /\ c.exists /\ c.spec # want /\ b.exists /\ Proceed(k, kid'[k])
           /\ kid' = [kid EXCEPT ![k].spec = want,
                        ![k].generation = IF kid[k].spec = want THEN @ ELSE NextGeneration(k, @)]
  <2>1. PICK g : g = IF b.spec = want THEN b.generation ELSE NextGeneration(k, b.generation)
    OBVIOUS
  <2>2. kid'[k] = [b EXCEPT !.spec = want, !.generation = g]
    BY <1>1, <1>2, <1>6, <2>1 DEF IsKid
  <2>3. PICK d : d = KidRecord(b.exists, want, b.shard, g, b.observed, b.rolledOut)
    OBVIOUS
  <2>4. kid'[k] = d
    BY <1>2, <2>2, <2>3, KidUpdates
  <2>5. OneKid(k, d) /\ kid' = [j \in Kinds |-> kid'[j]] /\ Outcome(k, c, b, want, d)
    <3>1. OneKid(k, d) /\ kid' = [j \in Kinds |-> kid'[j]]
      BY <1>1, <1>2, <1>6, <2>4 DEF OneKid
    <3>2. Outcome(k, c, b, want, d)
      BY <1>6, <2>1, <2>3 DEF Outcome
    <3> QED
      BY <3>1, <3>2
  <2>6. PICK p, h : /\ work' = WorkRecord(p, work.site, work.content, h, work.err)
                    /\ IF k = "Deployment" THEN p = "status" /\ h = ReadyPhase(d)
                       ELSE p = NextStep(k) /\ h = work.phase
    BY <1>4, <1>6, <2>4
  <2> QED
    BY <1>1, <1>6, <2>5, <2>6
<1>7. ASSUME NEW d, d = [NoKid EXCEPT !.exists = TRUE, !.spec = want, !.shard = "me", !.generation = 1],
             ~c.exists, ~b.exists, kid' = [kid EXCEPT ![k] = d], Proceed(k, d)
      PROVE  \E p, h : /\ work' = WorkRecord(p, work.site, work.content, h, work.err)
                       /\ IF k = "Deployment" THEN p = "status" /\ h = ReadyPhase(d)
                          ELSE p = NextStep(k) /\ h = work.phase
                       /\ OneKid(k, d) /\ kid' = [j \in Kinds |-> kid'[j]] /\ Outcome(k, c, b, want, d)
  <2>1. d = KidRecord(TRUE, want, "me", 1, 0, FALSE)
    BY <1>7 DEF NoKid, KidRecord
  <2>2. OneKid(k, d) /\ kid' = [j \in Kinds |-> kid'[j]] /\ Outcome(k, c, b, want, d)
    BY <1>2, <1>7, <2>1 DEF OneKid, Outcome
  <2> QED
    BY <1>4, <1>7, <2>2
<1>8. CASE recordError /\ UNCHANGED kid
  <2>1. work' = WorkRecord("status", work.site, work.content, "Error", TRUE)
    BY <1>3, <1>8, RecordErrorEffect
  <2>2. OneKid(k, b) /\ kid' = [j \in Kinds |-> kid'[j]]
    BY <1>1, <1>2, <1>8 DEF OneKid
  <2> QED
    BY <1>1, <2>1, <2>2
<1>9. CASE ~c.exists /\ ~b.exists /\ \E d : /\ d = [NoKid EXCEPT !.exists = TRUE, !.spec = want, !.shard = "me", !.generation = 1]
                                            /\ kid' = [kid EXCEPT ![k] = d] /\ Proceed(k, d)
  <2>1. PICK d : /\ d = [NoKid EXCEPT !.exists = TRUE, !.spec = want, !.shard = "me", !.generation = 1]
                 /\ kid' = [kid EXCEPT ![k] = d] /\ Proceed(k, d)
    BY <1>9
  <2>2. PICK p, h : /\ work' = WorkRecord(p, work.site, work.content, h, work.err)
                    /\ IF k = "Deployment" THEN p = "status" /\ h = ReadyPhase(d)
                       ELSE p = NextStep(k) /\ h = work.phase
                    /\ OneKid(k, d) /\ kid' = [j \in Kinds |-> kid'[j]] /\ Outcome(k, c, b, want, d)
    BY <1>7, <1>9, <2>1
  <2> QED
    BY <1>1, <1>9, <2>1, <2>2
<1> QED
  BY <1>1, <1>5, <1>6, <1>8, <1>9 DEF CreateOrPatch

LEMMA CreateOrPatchInv ==
  ASSUME IndInv, NEW k \in Kinds, CreateOrPatch(k)
  PROVE  IndInv'
<1>1. UNCHANGED <<site, theme, served, cache, queued, changes>> /\ work.pc = k
  BY DEF CreateOrPatch
<1>2. faults' \in 0 .. MaxFaults /\ changes' \in 0 .. MaxChanges
  BY <1>1, CountsInv DEF CreateOrPatch
<1>3. PICK c, b, want :
        c = cache.kid[k] /\ b = kid[k] /\ want = Desired(k, work.site, work.content[2], work.content)
  OBVIOUS
<1>a. PICK d, p, h, e : Effect(k, c, b, want, d, p, h, e)
  BY <1>3, CreateOrPatchEffect
<1>4.   /\ OneKid(k, d) /\ kid' = [j \in Kinds |-> kid'[j]]
        /\ work' = WorkRecord(p, work.site, work.content, h, e)
        /\ \/ d = b /\ p = "status" /\ h = "Error" /\ e = TRUE
           \/ /\ Outcome(k, c, b, want, d) /\ e = work.err
              /\ IF k = "Deployment"
                 THEN p = "status" /\ h = ReadyPhase(IF c.exists /\ c.spec = want THEN c ELSE d)
                 ELSE p = NextStep(k) /\ h = work.phase
  BY <1>a DEF Effect
<1>5. work'.pc = p /\ work'.site = work.site /\ work'.content = work.content /\ work'.phase = h /\ work'.err = e
  BY <1>4 DEF WorkRecord
<1>6. IsKid(c) /\ IsKid(b) /\ SpecOK(k, b) /\ CopyOf(k, c, b)
  BY <1>3 DEF IndInv, Types, KidCopies, CopyOf
<1>7. (k = "Service" => want = "ClusterIP") /\ (k = "Ingress" => want \in {"fake", "default"})
  BY <1>3, DesiredIs
<1>8. Outcome(k, c, b, want, d) =>
        /\ IsKid(d) /\ SpecOK(k, d) /\ CopyOf(k, c, d)
        /\ FineKid(k, c, d, want)
        /\ k = "Deployment" => DiffersFrom(k, c, d) \/ (c.exists /\ c.spec = want /\ d = b)
        /\ k = "Deployment" => SameOrNew(b, d)
  BY <1>6, <1>7, OutcomeIsFine
<1>9. IsKid(d) /\ SpecOK(k, d) /\ CopyOf(k, c, d) /\ (k = "Deployment" => SameOrNew(b, d))
  <2>1. SameOrNew(b, b)
    BY DEF SameOrNew
  <2> QED
    BY <1>4, <1>6, <1>8, <2>1
<1>10. p \in Kinds \cup {"status"} /\ h \in Phases /\ e \in BOOLEAN
  <2>1. work.phase \in Phases /\ work.err \in BOOLEAN /\ {"Ready", "Pending", "Error"} \subseteq Phases
    BY DEF IndInv, Types, Phases
  <2>2. \A x : ReadyPhase(x) \in Phases
    BY <2>1 DEF ReadyPhase
  <2> QED
    BY <1>4, <2>1, <2>2, NextStepRank
<1>11. Types'
  <2>1. \A j \in Kinds : IsKid(kid'[j]) /\ SpecOK(j, kid'[j])
    BY <1>4, <1>9 DEF OneKid, IndInv, Types
  <2>2. work' = [pc |-> work'.pc, site |-> work'.site, content |-> work'.content,
                 phase |-> work'.phase, err |-> work'.err]
    BY <1>4, <1>5 DEF WorkRecord
  <2> QED
    BY <1>1, <1>2, <1>4, <1>5, <1>10, <2>1, <2>2 DEF IndInv, Types
<1>12. KidCopies'
  BY <1>1, <1>3, <1>4, <1>9 DEF IndInv, KidCopies, OneKid, CopyOf
<1>13. RolledOut'
  <2>1. CASE k # "Deployment"
    BY <1>1, <1>4, <2>1, WebsiteAssumption DEF IndInv, RolledOut, OneKid
  <2>2. CASE k = "Deployment"
    <3>1. kid'["Deployment"] = d /\ kid["Deployment"] = b
      BY <1>3, <1>4, <2>2 DEF OneKid
    <3>2. b.exists => b.observed <= b.generation
      BY <3>1 DEF IndInv, RolledOut
    <3>3. d.observed \in Nat /\ d.generation \in Nat
      BY <1>9 DEF IsKid
    <3>4. CASE d.observed < d.generation
      BY <3>1, <3>3, <3>4 DEF RolledOut
    <3>5. CASE /\ d.exists = b.exists /\ d.spec = b.spec /\ d.generation = b.generation
               /\ d.observed = b.observed /\ d.rolledOut = b.rolledOut
      BY <1>1, <3>1, <3>5 DEF IndInv, RolledOut
    <3> QED
      BY <1>9, <2>2, <3>2, <3>4, <3>5 DEF SameOrNew
  <2> QED
    BY <2>1, <2>2
<1>14. SiteCopy' /\ WorkCopy'
  <2>1. k # "idle"
    BY WebsiteAssumption
  <2> QED
    BY <1>1, <1>5, <2>1 DEF IndInv, SiteCopy, WorkCopy
<1>15. (Settled' <=> Settled) /\ (Serving' <=> Serving) /\ Content' = Content
       /\ \A j \in Kinds : Wanted(j)' = Wanted(j)
  BY <1>1 DEF Settled, Serving, Content, Wanted
<1>16. Settled /\ Serving => want = Wanted(k) /\ work.content = Content /\ cache.theme[cache.site.theme] # 0
  <2> SUFFICES ASSUME Settled, Serving
               PROVE  want = Wanted(k) /\ work.content = Content /\ cache.theme[cache.site.theme] # 0
    OBVIOUS
  <2>1. k # "idle" /\ k # "status"
    BY WebsiteAssumption
  <2>2. work.content = Content /\ work.site.theme = cache.site.theme /\ cache.theme[cache.site.theme] # 0
    BY <1>1, <2>1 DEF IndInv, KidsDone, WorkCopy, Settled
  <2>3. Content[2] = cache.theme[cache.site.theme]
    BY DEF Content
  <2>4. PICK x, y, v, w : x = work.site /\ y = cache.site /\ v = Content[2] /\ w = Content
    OBVIOUS
  <2>5. Desired(k, x, v, w) = Desired(k, y, v, w)
    BY <2>2, <2>4, DesiredIs
  <2> QED
    BY <1>3, <2>2, <2>3, <2>4, <2>5 DEF Wanted
<1>17. CASE p = "status" /\ e = TRUE
  <2>1. KidsDone'
    <3>1. "status" \notin Kinds
      BY WebsiteAssumption
    <3>2. Due' = {}
      BY <1>5, <1>17, <3>1 DEF Due
    <3> QED
      BY <1>5, <1>17, <3>1, <3>2 DEF KidsDone
  <2>2. StatusDone'
    BY <1>5, <1>17, WebsiteAssumption DEF StatusDone
  <2> QED
    BY <1>11, <1>12, <1>13, <1>14, <2>1, <2>2 DEF IndInv
<1>18. CASE ~(p = "status" /\ e = TRUE)
  <2>1. /\ Outcome(k, c, b, want, d)
        /\ IF k = "Deployment"
           THEN p = "status" /\ h = ReadyPhase(IF c.exists /\ c.spec = want THEN c ELSE d)
           ELSE p = NextStep(k)
    BY <1>4, <1>18
  <2>2. \A j \in Kinds \ {k} : Fine(j)' <=> Fine(j)
    BY <1>1, <1>4, <1>15 DEF Fine, OneKid
  <2>3. (Fine(k)' <=> FineKid(k, c, d, Wanted(k))) /\ (Differs(k)' <=> DiffersFrom(k, c, d))
    BY <1>1, <1>3, <1>4, <1>15 DEF Fine, Differs, OneKid
  <2>4. Settled /\ Serving => Fine(k)'
    BY <1>8, <1>16, <2>1, <2>3
  <2>5. \A j \in Due' : j \in Kinds /\ (j \in Due \/ j = k)
    <3> SUFFICES ASSUME NEW j \in Due', j # k
                 PROVE  j \in Kinds /\ j \in Due
      BY DEF Due
    <3>1. j \in Kinds
      BY DEF Due
    <3>2. k \notin {"idle", "status"} /\ k \in {"ConfigMap", "Service", "Ingress", "Deployment"}
          /\ j \in {"ConfigMap", "Service", "Ingress", "Deployment"}
      BY <3>1, WebsiteAssumption
    <3>3. Rank[j] < Rank[k]
      <4>1. CASE k = "Deployment"
        BY <3>2, <4>1 DEF Rank
      <4>2. CASE k # "Deployment"
        <5>1. p = NextStep(k) /\ p \in Kinds
          BY <2>1, <4>2, NextStepRank
        <5>2. p # "idle" /\ p # "status"
          BY <5>1, WebsiteAssumption
        <5>3. Rank[j] < Rank[p]
          BY <1>5, <5>2 DEF Due
        <5> QED
          BY <3>1, <4>2, <5>1, <5>3, NextStepRank
      <4> QED
        BY <4>1, <4>2
    <3> QED
      BY <1>1, <3>1, <3>3 DEF Due
  <2>6. KidsDone'
    <3> SUFFICES ASSUME Settled, Serving
                 PROVE  /\ \A j \in Due' : Fine(j)'
                        /\ work.content = Content
                        /\ cache.theme[cache.site.theme] # 0
      BY <1>1, <1>5, <1>15 DEF KidsDone
    <3>1. \A j \in Due : Fine(j)
      BY DEF IndInv, KidsDone
    <3> QED
      BY <1>16, <2>2, <2>4, <2>5, <3>1
  <2>7. StatusDone'
    <3>0. Settled => ~cache.site.deleting
      BY <1>1 DEF IndInv, StatusDone
    <3> SUFFICES ASSUME Settled, p = "status"
                 PROVE  GoodPhase(h)'
      <4>1. p # "idle"
        BY <1>10, WebsiteAssumption
      <4> QED
        BY <1>1, <1>5, <1>15, <3>0, <4>1 DEF StatusDone
    <3>1. k = "Deployment"
      <4>1. "status" \notin Kinds
        BY WebsiteAssumption
      <4> QED
        BY <2>1, <4>1, NextStepRank
    <3>2. ~cache.site.deleting
      BY <3>0
    <3>3. Differs(k)' \/ h = ReadyPhase(c)
      BY <1>8, <2>1, <2>3, <3>1
    <3> QED
      BY <1>1, <1>3, <3>1, <3>2, <3>3 DEF GoodPhase, ReadyPhase
  <2> QED
    BY <1>11, <1>12, <1>13, <1>14, <2>6, <2>7 DEF IndInv
<1> QED
  BY <1>17, <1>18

-----------------------------------------------------------------------------
(* The theorems.                                                           *)

LEMMA InitInv ==
  ASSUME Init PROVE IndInv
<1>0. PICK ready \in BOOLEAN :
        /\ site = [NoSite EXCEPT !.exists = TRUE, !.rv = 1, !.generation = 1,
                                 !.theme = InitialTheme, !.shard = "me", !.status = IF ready THEN [observed |-> 1, phase |-> "Ready"] ELSE NoStatus]
        /\ theme = [t \in Themes |-> 1]
        /\ kid = [k \in Kinds |->
                    IF ready
                    THEN [exists |-> TRUE, shard |-> "me", generation |-> 1, observed |-> 1, rolledOut |-> TRUE,
                          spec |-> Desired(k, site, 1, <<InitialTheme, 1>>)]
                    ELSE NoKid]
        /\ served = (IF ready THEN Pods(kid["Deployment"].spec) ELSE NoPods)
        /\ cache = [site |-> IF ready THEN site ELSE NoSite, theme |-> theme, kid |-> kid]
        /\ changes = IF ready THEN 0 ELSE 1
  BY DEF Init
<1>1. PICK u :
        /\ u = IF ready THEN [observed |-> 1, phase |-> "Ready"] ELSE NoStatus
        /\ site = [NoSite EXCEPT !.exists = TRUE, !.rv = 1, !.generation = 1,
                                 !.theme = InitialTheme, !.shard = "me", !.status = u]
  BY <1>0
<1>2. queued = FALSE /\ work = Idle /\ faults = 0
  BY DEF Init
<1>3. /\ site.exists /\ site.rv = 1 /\ site.generation = 1 /\ site.theme = InitialTheme
      /\ site.shard = "me" /\ site.status = u /\ ~site.deleting /\ ~site.drain
      /\ site \in SiteObject
  <2>1. u \in SiteStatus
    BY <1>0, <1>1 DEF SiteStatus, Phases, NoStatus
  <2>2. site = SiteRecord(TRUE, 1, 1, InitialTheme, FALSE, "me", FALSE, u)
    BY <1>0, <1>1 DEF NoSite, SiteRecord
  <2>3. site \in SiteObject
    BY <2>1, <2>2, SiteRecordType, WebsiteAssumption
  <2> QED
    BY <2>2, <2>3 DEF SiteRecord
<1>4. NoSite \in SiteObject /\ ~NoSite.exists
  BY DEF NoSite, SiteObject, NoStatus, Phases
<1>5. \A k \in Kinds :
        IF ready THEN kid[k] = KidRecord(TRUE, Desired(k, site, 1, <<InitialTheme, 1>>), "me", 1, 1, TRUE)
        ELSE kid[k] = NoKid
  BY <1>0, <1>1 DEF KidRecord
<1>6. \A k \in Kinds : IsKid(kid[k]) /\ SpecOK(k, kid[k])
  <2> TAKE k \in Kinds
  <2>1. PICK w, v, c, x : w = site /\ v = 1 /\ c = <<InitialTheme, 1>> /\ x = Desired(k, w, v, c)
    OBVIOUS
  <2>2. (k = "Service" => x = "ClusterIP") /\ (k = "Ingress" => x \in {"fake", "default"})
    BY <2>1, DesiredIs
  <2>3. CASE ready
    <3>1. kid[k] = KidRecord(TRUE, x, "me", 1, 1, TRUE)
      BY <1>5, <2>1, <2>3
    <3>2. IsKid(kid[k])
      BY <3>1, KidRecordIsKid
    <3> QED
      BY <2>2, <3>1, <3>2 DEF SpecOK, KidRecord
  <2>4. CASE ~ready
    BY <1>5, <2>4, NoKidIsKid DEF SpecOK, NoKid
  <2> QED
    BY <2>3, <2>4
<1>7. cache.site = (IF ready THEN site ELSE NoSite) /\ cache.theme = theme /\ cache.kid = kid
  BY <1>0, <1>1
<1>8. /\ work.pc = "idle" /\ work.site \in SiteObject /\ work.phase \in Phases /\ work.err \in BOOLEAN
      /\ work = [pc |-> work.pc, site |-> work.site, content |-> work.content,
                 phase |-> work.phase, err |-> work.err]
  BY <1>2, <1>4 DEF Idle, Phases
<1>9. Types
  <2>1. kid = [k \in Kinds |-> kid[k]] /\ theme \in [Themes -> Nat]
    BY <1>0, <1>1
  <2>2. cache = [site |-> cache.site, theme |-> cache.theme, kid |-> cache.kid]
    BY <1>0, <1>1
  <2>3. cache.site \in SiteObject /\ (cache.site.exists => cache.site.shard = "me")
    BY <1>3, <1>4, <1>7
  <2>4. changes \in 0 .. MaxChanges /\ faults \in 0 .. MaxFaults
    BY <1>0, <1>1, <1>2, WebsiteAssumption
  <2> QED
    BY <1>2, <1>3, <1>6, <1>7, <1>8, <2>1, <2>2, <2>3, <2>4 DEF Types
<1>10. SiteCopy
  BY <1>3, <1>4, <1>7 DEF SiteCopy
<1>11. \A k \in Kinds : kid[k].generation \in Nat
  BY <1>6 DEF IsKid
<1>12. KidCopies
  <2>1. \A k \in Kinds : kid[k].generation <= kid[k].generation
    <3> TAKE k \in Kinds
    <3>1. PICK n \in Nat : n = kid[k].generation
      BY <1>0, <1>11
    <3> QED
      BY <3>1
  <2> QED
    BY <1>7, <2>1 DEF KidCopies
<1>13. RolledOut
  <2>1. "Deployment" \in Kinds
    BY WebsiteAssumption
  <2>2. CASE ready
    <3>1. kid["Deployment"] = KidRecord(TRUE, reconcileDeployment(<<InitialTheme, 1>>), "me", 1, 1, TRUE)
      BY <1>5, <2>1, <2>2 DEF Desired
    <3>2. served.spec = kid["Deployment"].spec
      BY <1>0, <2>2 DEF Pods
    <3> QED
      BY <3>1, <3>2 DEF RolledOut, KidRecord
  <2>3. CASE ~ready
    BY <1>5, <2>1, <2>3 DEF RolledOut, NoKid
  <2> QED
    BY <2>2, <2>3
<1>14. WorkCopy
  BY <1>8 DEF WorkCopy
<1>15. "idle" \notin Kinds /\ "Deployment" \in Kinds
  BY WebsiteAssumption
<1>16. Settled => ready
  BY <1>4, <1>7 DEF Settled
<1>17. ready => theme[InitialTheme] = 1 /\ Content = <<InitialTheme, 1>> /\ cache.site = site
  BY <1>0, <1>1, <1>3, <1>7, WebsiteAssumption DEF Content
<1>18. KidsDone
  <2> SUFFICES ASSUME ready
               PROVE  /\ \A k \in Kinds : Fine(k)
                      /\ cache.theme[cache.site.theme] # 0
    BY <1>8, <1>15, <1>16 DEF KidsDone, Due
  <2>1. cache.theme[cache.site.theme] = 1
    BY <1>3, <1>7, <1>17
  <2>2. ASSUME NEW k \in Kinds PROVE kid[k].exists /\ kid[k].spec = Wanted(k)
    <3>1. kid[k] = KidRecord(TRUE, Desired(k, site, 1, <<InitialTheme, 1>>), "me", 1, 1, TRUE)
      BY <1>5
    <3>2. Wanted(k) = Desired(k, site, 1, <<InitialTheme, 1>>)
      BY <1>0, <1>17, <2>1 DEF Wanted
    <3> QED
      BY <3>1, <3>2 DEF KidRecord
  <2>3. \A k \in Kinds : Fine(k)
    BY <1>7, <2>2 DEF Fine, FineKid
  <2> QED
    BY <2>1, <2>3
<1>19. StatusDone
  <2> SUFFICES ASSUME ready
               PROVE  site.status.observed = site.generation /\ GoodPhase(site.status.phase)
    BY <1>8, <1>15, <1>16 DEF StatusDone
  <2>1. u = [observed |-> 1, phase |-> "Ready"]
    BY <1>0, <1>1
  <2>2. kid["Deployment"].observed = 1 /\ kid["Deployment"].generation = 1 /\ kid["Deployment"].rolledOut
    <3>1. PICK x : x = Desired("Deployment", site, 1, <<InitialTheme, 1>>)
      OBVIOUS
    <3>2. kid["Deployment"] = KidRecord(TRUE, x, "me", 1, 1, TRUE)
      BY <1>5, <1>15, <3>1
    <3> QED
      BY <3>2 DEF KidRecord
  <2> QED
    BY <1>3, <1>7, <1>17, <2>1, <2>2 DEF GoodPhase, IsDeploymentReady
<1> QED
  BY <1>9, <1>10, <1>12, <1>13, <1>14, <1>18, <1>19 DEF IndInv

LEMMA StutterInv ==
  ASSUME IndInv, UNCHANGED vars
  PROVE  IndInv'
<1>1. UNCHANGED <<site, theme, kid, served, cache, queued, work, changes, faults>>
  BY DEF vars
<1>2. Types' /\ SiteCopy' /\ KidCopies' /\ RolledOut' /\ WorkCopy'
  BY <1>1 DEF IndInv, Types, SiteCopy, KidCopies, RolledOut, WorkCopy
<1>3. KidsDone' /\ StatusDone'
  BY <1>1 DEF IndInv, KidsDone, StatusDone, Settled, Serving, Due, Fine, Wanted, Content, GoodPhase, Differs
<1> QED
  BY <1>2, <1>3 DEF IndInv

\* The inductive invariant holds: copies are not newer than what they are copies
\* of, and whatever a finished reconcile left behind is as wanted or has an
\* event on its way that will queue the Website again.
THEOREM Invariance == Spec => []IndInv
<1>1. Init => IndInv
  BY InitInv
<1>2. IndInv /\ [Next]_vars => IndInv'
  <2> SUFFICES ASSUME IndInv, [Next]_vars
               PROVE  IndInv'
    OBVIOUS
  <2>1. CASE \E t \in Themes \cup {NoTheme} : UpdateSite(t)
    BY <2>1, SpecChangeInv
  <2>2. CASE \E t \in Themes : ChangeTheme(t)
    BY <2>2, ChangeThemeInv
  <2>3. CASE \E k \in Kinds : Tamper(k)
    BY <2>3, TamperInv
  <2>4. CASE DeleteSite
    BY <2>4, SpecChangeInv
  <2>5. CASE Drain \/ Assign
    BY <2>5, AssignmentInv
  <2>6. CASE OtherControllers
    BY <2>6, MoveKidInv, DeploymentInv, RefreshInv, CollectGarbageInv DEF OtherControllers
  <2>7. CASE Deliver
    BY <2>7, DeliverSiteInv, DeliverKidInv, DeliverThemeInv DEF Deliver
  <2>8. CASE Operator
    BY <2>8, AckDrainInv, ReconcileInv, UpdateStatusInv, CreateOrPatchInv DEF Operator
  <2>9. CASE UNCHANGED vars
    BY <2>9, StutterInv
  <2> QED
    BY <2>1, <2>2, <2>3, <2>4, <2>5, <2>6, <2>7, <2>8, <2>9 DEF Next
<1> QED
  BY <1>1, <1>2, PTL DEF Spec

\* The variables keep their types, drain is only set for an assigned Website and
\* the cache holds objects of this shard only.
THEOREM TypeCorrect == Spec => []TypeOK
<1>1. IndInv => TypeOK
  <2> SUFFICES ASSUME IndInv PROVE TypeOK
    OBVIOUS
  <2>1. \A k \in Kinds : kid[k].exists /\ k # "Deployment" /\ k # "ConfigMap" => kid[k].spec \in KidSpecs
    BY WebsiteAssumption DEF IndInv, Types, SpecOK, KidSpecs
  <2> QED
    BY <2>1 DEF IndInv, Types, TypeOK
<1> QED
  BY <1>1, Invariance, PTL

\* in a quiet state with an assigned Website the controller is settled
LEMMA QuietSettled ==
  ASSUME IndInv, cache.site = site, ~queued, Mine
  PROVE  Settled
<1>1. site \in SiteObject
  BY DEF IndInv, Types
<1>2. ~(site.rv > site.rv)
  BY <1>1, SiteFields
<1> QED
  BY <1>1, <1>2, SiteFields DEF Settled, Mine, IndInv, SiteCopy

\* a cached kid that is up to date does not differ
LEMMA InSync ==
  ASSUME IndInv, NEW k \in Kinds, cache.kid[k] = Filtered(kid[k], NoKid)
  PROVE  ~Differs(k) /\ (cache.kid[k].exists => kid[k] = cache.kid[k])
  BY DEF Filtered, Differs, DiffersFrom, NoKid, IndInv, Types, IsKid

\* When everything was delivered and the queue is empty, the kids of a Website
\* are what its current theme asks for (reconcileWebsite and the predicates).
THEOREM KidsAreCurrent == Spec => []KidsCurrent
<1>1. IndInv => KidsCurrent
  <2> SUFFICES ASSUME IndInv, Quiet, Mine, ~site.deleting, site.theme # NoTheme
               PROVE  /\ theme[site.theme] # 0
                      /\ \A k \in Kinds :
                           /\ kid[k].exists
                           /\ \/ kid[k].spec = Desired(k, site, theme[site.theme], <<site.theme, theme[site.theme]>>)
                              \/ k = "Service" /\ kid[k].spec = Edited
    BY DEF KidsCurrent
  <2>1. /\ cache.site = Filtered(site, NoSite) /\ cache.theme = theme
        /\ \A k \in Kinds : cache.kid[k] = Filtered(kid[k], NoKid)
        /\ ~queued /\ work.pc = "idle"
    BY DEF Quiet
  <2>2. cache.site = site
    BY <2>1 DEF Filtered, Mine
  <2>3. Settled /\ Serving
    BY <2>1, <2>2, QuietSettled DEF Serving
  <2>4. Content = <<site.theme, theme[site.theme]>>
    BY <2>1, <2>2 DEF Content
  <2>5. (\A k \in Kinds : Fine(k)) /\ theme[site.theme] # 0
    BY <2>1, <2>2, <2>3 DEF IndInv, KidsDone, Due
  <2>6. ASSUME NEW k \in Kinds
        PROVE  /\ kid[k].exists
               /\ \/ kid[k].spec = Desired(k, site, theme[site.theme], <<site.theme, theme[site.theme]>>)
                  \/ k = "Service" /\ kid[k].spec = Edited
    <3>1. cache.kid[k].exists /\ (k = "Service" \/ cache.kid[k].spec = Wanted(k)) /\ kid[k] = cache.kid[k]
      BY <2>1, <2>5, InSync DEF Fine, FineKid, Differs
    <3>2. Wanted(k) = Desired(k, site, theme[site.theme], <<site.theme, theme[site.theme]>>)
      BY <2>1, <2>2, <2>4 DEF Wanted
    <3>3. k = "Service" => kid[k].spec \in {"ClusterIP", Edited}
      BY <3>1 DEF IndInv, Types, SpecOK
    <3>4. k = "Service" => Desired(k, site, theme[site.theme], <<site.theme, theme[site.theme]>>) = "ClusterIP"
      BY DEF Desired, reconcileService
    <3> QED
      BY <3>1, <3>2, <3>3, <3>4
  <2> QED
    BY <2>5, <2>6
<1> QED
  BY <1>1, Invariance, PTL

\* When everything was delivered and the queue is empty, the status is the one of
\* the current generation and of the Deployment as it is (UpdateStatus).
THEOREM StatusIsCurrent == Spec => []StatusCurrent
<1>1. IndInv => StatusCurrent
  <2> SUFFICES ASSUME IndInv, Quiet, Mine
               PROVE  /\ site.status.observed = site.generation
                      /\ site.deleting => site.status.phase = "Terminating"
                      /\ ~site.deleting /\ site.theme # NoTheme =>
                           site.status.phase = IF IsDeploymentReady(kid["Deployment"]) THEN "Ready" ELSE "Pending"
    BY DEF StatusCurrent
  <2>1. /\ cache.site = Filtered(site, NoSite)
        /\ \A k \in Kinds : cache.kid[k] = Filtered(kid[k], NoKid)
        /\ ~queued /\ work.pc = "idle"
    BY DEF Quiet
  <2>2. cache.site = site
    BY <2>1 DEF Filtered, Mine
  <2>3. Settled
    BY <2>1, <2>2, QuietSettled
  <2>4. site.status.observed = site.generation /\ GoodPhase(site.status.phase)
    BY <2>1, <2>2, <2>3 DEF IndInv, StatusDone
  <2>5. ~site.deleting /\ site.theme # NoTheme => kid["Deployment"] = cache.kid["Deployment"]
    <3>1. "Deployment" \in Kinds
      BY WebsiteAssumption
    <3> SUFFICES ASSUME Serving
                 PROVE  kid["Deployment"] = cache.kid["Deployment"]
      BY <2>2 DEF Serving
    <3>2. Fine("Deployment")
      BY <2>1, <2>3, <3>1 DEF IndInv, KidsDone, Due
    <3> QED
      BY <2>1, <3>1, <3>2, InSync DEF Fine, FineKid, Differs
  <2>6. ~Differs("Deployment")
    BY <2>1, InSync, WebsiteAssumption
  <2> QED
    BY <2>2, <2>4, <2>5, <2>6 DEF GoodPhase, Serving
<1> QED
  BY <1>1, Invariance, PTL

-----------------------------------------------------------------------------
(* What the pods mount.  The ConfigMap has had the content of a checksum   *)
(* before the Deployment asks for it: pods that start later find it,       *)
(* unless it was lost in between.                                          *)

Had(c) == c \in lost \cup Contents(kid["ConfigMap"])

DeploymentHad ==
  LET d == kid["Deployment"] IN d.exists /\ d.spec # Edited => Had(d.spec.checksum)

CachedHad ==
  LET c == cache.kid["ConfigMap"] IN c.exists => Had(c.spec)

\* the running reconcile wants the ConfigMap to have its content, and has seen to it
WorkHad ==
  /\ work.pc \in Kinds => work.content = <<work.site.theme, work.content[2]>>
  /\ work.pc \in Kinds \ {"ConfigMap"} => Had(work.content)

PodsHad ==
  Mounts(served.spec) =>
    /\ Had(served.spec.checksum)
    /\ served.spec.checksum \in lost \/ served.content = served.spec.checksum

MountInv == DeploymentHad /\ CachedHad /\ WorkHad /\ PodsHad

\* What the ConfigMap has had stays so.
LEMMA HadStep ==
  ASSUME Lose \/ (UNCHANGED lost /\ Contents(kid["ConfigMap"]) \subseteq Contents(kid'["ConfigMap"])),
         NEW c, Had(c)
  PROVE  Had(c)' /\ (c \in lost => c \in lost')
<1> DEFINE A == Contents(kid["ConfigMap"])
           B == Contents(kid'["ConfigMap"])
<1>1. lost' = lost \cup (A \ B) \/ (lost' = lost /\ A \subseteq B)
  BY DEF Lose
<1>2. c \in lost \cup A
  BY DEF Had
<1>3. Had(c)' <=> c \in lost' \cup B
  BY DEF Had, Contents
<1> HIDE DEF A, B
<1> QED
  BY <1>1, <1>2, <1>3

\* A step that writes nothing new.
LEMMA MountStep ==
  ASSUME MountInv,
         Lose \/ (UNCHANGED lost /\ Contents(kid["ConfigMap"]) \subseteq Contents(kid'["ConfigMap"])),
         LET d == kid["Deployment"]
             e == kid'["Deployment"]
         IN e.exists => e.spec = Edited \/ (d.exists /\ e.spec = d.spec),
         served' = served \/ served' = NoPods,
         UNCHANGED <<cache, work>>
  PROVE  MountInv'
<1>1. \A c : Had(c) => Had(c)' /\ (c \in lost => c \in lost')
  BY HadStep
<1>2. DeploymentHad'
  BY <1>1 DEF MountInv, DeploymentHad
<1>3. CachedHad' /\ WorkHad'
  BY <1>1 DEF MountInv, CachedHad, WorkHad
<1>4. PodsHad'
  <2>1. CASE served' = served
    BY <1>1, <2>1 DEF MountInv, PodsHad, Mounts
  <2>2. CASE served' = NoPods
    BY <2>2 DEF PodsHad, Mounts, NoPods
  <2> QED
    BY <2>1, <2>2
<1> QED
  BY <1>2, <1>3, <1>4 DEF MountInv

LEMMA TamperMount ==
  ASSUME IndInv, MountInv, NEW k \in Kinds, Tamper(k)
  PROVE  MountInv'
<1>1. Lose /\ UNCHANGED <<cache, work>> /\ (served' = served \/ served' = NoPods)
  BY DEF Tamper, Remove, operatorVars
<1>2. LET d == kid["Deployment"]
          e == kid'["Deployment"]
      IN e.exists => e.spec = Edited \/ (d.exists /\ e.spec = d.spec)
  <2>1. PICK n \in Kinds : n = "Deployment"
    BY WebsiteAssumption
  <2>2. kid = [j \in Kinds |-> kid[j]] /\ IsKid(kid[k])
    BY DEF IndInv, Types
  <2>3. CASE k # n
    BY <2>1, <2>2, <2>3 DEF Tamper, Remove
  <2>4. CASE k = n /\ kid' = [kid EXCEPT ![k] = NoKid]
    BY <2>1, <2>2, <2>4 DEF NoKid
  <2>5. CASE k = n /\ kid' = [kid EXCEPT ![k].spec = Edited, ![k].generation = NextGeneration(k, @)]
    <3>1. kid'[k] = [kid[k] EXCEPT !.spec = Edited, !.generation = NextGeneration(k, kid[k].generation)]
      BY <2>2, <2>5 DEF IsKid
    <3>2. kid'[k] = KidRecord(kid[k].exists, Edited, kid[k].shard, NextGeneration(k, kid[k].generation),
                              kid[k].observed, kid[k].rolledOut)
      BY <2>2, <3>1, KidUpdates
    <3> QED
      BY <2>1, <2>5, <3>2 DEF KidRecord
  <2> QED
    BY <2>3, <2>4, <2>5 DEF Tamper, Remove
<1> QED
  BY <1>1, <1>2, MountStep

LEMMA MoveKidMount ==
  ASSUME IndInv, MountInv, NEW k \in Kinds, MoveKid(k)
  PROVE  MountInv'
<1>1. UNCHANGED <<served, lost, cache, work>>
  BY DEF MoveKid, operatorVars
<1>2. \A j \in Kinds : kid'[j].exists = kid[j].exists /\ kid'[j].spec = kid[j].spec
  <2>1. kid = [j \in Kinds |-> kid[j]] /\ IsKid(kid[k])
    BY DEF IndInv, Types
  <2>2. kid'[k] = [kid[k] EXCEPT !.shard = site.shard] /\ \A j \in Kinds \ {k} : kid'[j] = kid[j]
    BY <2>1 DEF MoveKid, IsKid
  <2>3. kid'[k] = KidRecord(kid[k].exists, kid[k].spec, site.shard, kid[k].generation,
                            kid[k].observed, kid[k].rolledOut)
    BY <2>1, <2>2, KidUpdates
  <2> QED
    BY <2>2, <2>3 DEF KidRecord
<1> QED
  BY <1>1, <1>2, MountStep, WebsiteAssumption DEF Contents

\* Pods that start or are refreshed mount the ConfigMap, which has the content
\* of their checksum unless it was lost.
LEMMA PodsMount ==
  ASSUME NEW spec, Mounts(spec), Had(spec.checksum), kid["ConfigMap"].exists
  PROVE  spec.checksum \in lost \/ Pods(spec).content = spec.checksum
  BY DEF Had, Contents, Pods

LEMMA DeploymentMount ==
  ASSUME IndInv, MountInv, ObserveDeployment \/ RollOut
  PROVE  MountInv'
<1>1. PICK k \in Kinds : k = "Deployment"
  BY WebsiteAssumption
<1>2. IsKid(kid[k]) /\ kid = [j \in Kinds |-> kid[j]]
  BY DEF IndInv, Types
<1>3. UNCHANGED <<lost, cache, work>>
  BY DEF ObserveDeployment, RollOut, operatorVars
<1>4. kid'[k].exists = kid[k].exists /\ kid'[k].spec = kid[k].spec /\ \A j \in Kinds \ {k} : kid'[j] = kid[j]
  <2>1. CASE ObserveDeployment
    <3>1. PICK c, g, r : c = kid[k] /\ g = kid[k].generation /\ r = FALSE
      OBVIOUS
    <3>2. kid'[k] = [c EXCEPT !.observed = g, !.rolledOut = r] /\ \A j \in Kinds \ {k} : kid'[j] = kid[j]
      BY <1>1, <1>2, <2>1, <3>1 DEF ObserveDeployment, IsKid
    <3>3. [c EXCEPT !.observed = g, !.rolledOut = r] = KidRecord(c.exists, c.spec, c.shard, c.generation, g, r)
      <4>1. IsKid(c)
        BY <1>2, <3>1
      <4> QED
        BY <4>1, KidObserved, Zenon
    <3> QED
      BY <3>1, <3>2, <3>3 DEF KidRecord
  <2>2. CASE RollOut
    <3>1. kid'[k] = [kid[k] EXCEPT !.rolledOut = TRUE] /\ \A j \in Kinds \ {k} : kid'[j] = kid[j]
      BY <1>1, <1>2, <2>2 DEF RollOut, IsKid
    <3>2. PICK c : c = kid[k]
      OBVIOUS
    <3>3. IsKid(c) /\ kid'[k] = [c EXCEPT !.rolledOut = TRUE]
      BY <1>2, <3>1, <3>2
    <3>4. \A q : [c EXCEPT !.rolledOut = q] = KidRecord(c.exists, c.spec, c.shard, c.generation, c.observed, q)
      BY <3>3, KidUpdates
    <3>5. kid'[k] = KidRecord(c.exists, c.spec, c.shard, c.generation, c.observed, TRUE)
      BY <3>3, <3>4, Zenon
    <3> QED
      BY <3>1, <3>2, <3>5 DEF KidRecord
  <2> QED
    BY <2>1, <2>2
<1>5. UNCHANGED <<kid["ConfigMap"], kid["Deployment"].exists, kid["Deployment"].spec>>
  BY <1>1, <1>4, WebsiteAssumption
<1>6. DeploymentHad' /\ CachedHad' /\ WorkHad'
  BY <1>3, <1>5 DEF MountInv, DeploymentHad, CachedHad, WorkHad, Had
<1>7. PodsHad'
  <2>1. CASE UNCHANGED served
    BY <1>3, <1>5, <2>1 DEF MountInv, PodsHad, Had, Mounts
  <2>2. CASE RollOut /\ ~UNCHANGED served
    <3>1. PICK spec : spec = kid["Deployment"].spec
      OBVIOUS
    <3>2. served' = Pods(spec) /\ (Mounts(spec) => kid["ConfigMap"].exists) /\ kid["Deployment"].exists
      BY <2>2, <3>1 DEF RollOut
    <3>3. served'.spec = spec
      BY <3>2 DEF Pods
    <3>4. Mounts(spec) => Had(spec.checksum)
      BY <3>1, <3>2 DEF MountInv, DeploymentHad, Mounts
    <3>5. Mounts(spec) => spec.checksum \in lost \/ served'.content = spec.checksum
      BY <3>2, <3>4, PodsMount
    <3>6. Mounts(spec)' <=> Mounts(spec)
      BY DEF Mounts
    <3> QED
      BY <1>3, <1>5, <3>3, <3>4, <3>5 DEF PodsHad, Had, Mounts
  <2> QED
    BY <2>1, <2>2 DEF ObserveDeployment
<1> QED
  BY <1>6, <1>7 DEF MountInv

LEMMA RefreshMount ==
  ASSUME MountInv, Refresh
  PROVE  MountInv'
<1>1. UNCHANGED <<kid, lost, cache, work>> /\ served' = Pods(served.spec) /\ Mounts(served.spec)
      /\ kid["ConfigMap"].exists
  BY DEF Refresh, operatorVars
<1>2. DeploymentHad' /\ CachedHad' /\ WorkHad'
  BY <1>1 DEF MountInv, DeploymentHad, CachedHad, WorkHad, Had
<1>3. PICK spec : spec = served.spec
  OBVIOUS
<1>4. served'.spec = spec /\ Had(spec.checksum)
  BY <1>1, <1>3 DEF Pods, MountInv, PodsHad
<1>5. spec.checksum \in lost \/ served'.content = spec.checksum
  BY <1>1, <1>3, <1>4, PodsMount
<1>6. PodsHad'
  BY <1>1, <1>4, <1>5 DEF PodsHad, Had
<1> QED
  BY <1>2, <1>6 DEF MountInv

LEMMA CollectGarbageMount ==
  ASSUME IndInv, MountInv, CollectGarbage
  PROVE  MountInv'
<1>1. UNCHANGED <<cache, work>>
  BY DEF CollectGarbage, operatorVars
<1>2. CASE UNCHANGED <<kid, served, lost>>
  BY <1>1, <1>2, MountStep
<1>3. CASE \E k \in Kinds : Remove(k) /\ Lose
  <2>1. PICK k \in Kinds : Remove(k) /\ Lose
    BY <1>3
  <2>2. \A j \in Kinds : kid'[j] = kid[j] \/ ~kid'[j].exists
    BY <2>1 DEF Remove, IndInv, Types, NoKid
  <2>3. served' = served \/ served' = NoPods
    BY <2>1 DEF Remove
  <2> QED
    BY <1>1, <2>1, <2>2, <2>3, MountStep, WebsiteAssumption
<1> QED
  BY <1>2, <1>3 DEF CollectGarbage

LEMMA DeliverMount ==
  ASSUME IndInv, MountInv, Deliver
  PROVE  MountInv'
<1>1. UNCHANGED <<kid, served, lost, work>>
  BY DEF Deliver, DeliverSite, DeliverKid, DeliverTheme
<1>2. \/ cache'.kid["ConfigMap"] = cache.kid["ConfigMap"]
      \/ cache'.kid["ConfigMap"] = Filtered(kid["ConfigMap"], NoKid)
  <2>1. PICK a, b, c : cache = [site |-> a, theme |-> b, kid |-> c]
    BY DEF IndInv, Types
  <2>2. CASE DeliverSite
    BY <2>1, <2>2 DEF DeliverSite
  <2>3. CASE \E t \in Themes : DeliverTheme(t)
    BY <2>1, <2>3 DEF DeliverTheme
  <2>4. CASE \E k \in Kinds : DeliverKid(k)
    <3>1. PICK k \in Kinds : DeliverKid(k)
      BY <2>4
    <3>2. PICK kids : kids = [c EXCEPT ![k] = Filtered(kid[k], NoKid)]
      OBVIOUS
    <3>3. cache'.kid = kids
      BY <2>1, <3>1, <3>2 DEF DeliverKid
    <3>4. c = [j \in Kinds |-> c[j]]
      BY <2>1 DEF IndInv, Types
    <3> QED
      BY <2>1, <3>2, <3>3, <3>4, WebsiteAssumption
  <2> QED
    BY <2>2, <2>3, <2>4 DEF Deliver
<1>3. CachedHad'
  <2>1. CASE cache'.kid["ConfigMap"] = cache.kid["ConfigMap"]
    BY <1>1, <2>1 DEF MountInv, CachedHad, Had
  <2>2. CASE cache'.kid["ConfigMap"] = Filtered(kid["ConfigMap"], NoKid)
    BY <1>1, <2>2 DEF CachedHad, Had, Contents, Filtered, NoKid
  <2> QED
    BY <1>2, <2>1, <2>2
<1>4. DeploymentHad' /\ WorkHad' /\ PodsHad'
  BY <1>1 DEF MountInv, DeploymentHad, WorkHad, PodsHad, Had, Mounts
<1> QED
  BY <1>3, <1>4 DEF MountInv

LEMMA ReconcileMount ==
  ASSUME IndInv, MountInv, Reconcile
  PROVE  MountInv'
<1>1. UNCHANGED <<kid, served, lost, cache>>
  BY DEF Reconcile
<1>2. DeploymentHad' /\ CachedHad' /\ PodsHad'
  BY <1>1 DEF MountInv, DeploymentHad, CachedHad, PodsHad, Had, Mounts
<1>3. \/ work'.pc \notin Kinds
      \/ /\ work'.pc = "ConfigMap"
         /\ \E w, v : work'.site = w /\ work'.content = <<w.theme, v>>
  <2>1. PICK w : w = cache.site
    OBVIOUS
  <2>2. w \in SiteObject /\ w.exists \in BOOLEAN /\ w.deleting \in BOOLEAN
    BY <2>1, SiteFields DEF IndInv, Types
  <2>3. Idle = WorkRecord("idle", NoSite, None, "none", FALSE) /\ IsWork(Idle)
    BY DEF Idle, WorkRecord, IsWork
  <2>4. "idle" \notin Kinds /\ "status" \notin Kinds
    BY WebsiteAssumption
  <2>5. ASSUME NEW h, NEW e, work' = [Idle EXCEPT !.pc = "status", !.site = w, !.phase = h, !.err = e]
        PROVE  work'.pc = "status"
    BY <2>5 DEF Idle
  <2>6. CASE ~w.exists
    BY <2>1, <2>3, <2>4, <2>6 DEF Reconcile, WorkRecord
  <2>7. CASE w.exists /\ w.deleting
    BY <2>1, <2>4, <2>5, <2>7 DEF Reconcile
  <2>8. CASE w.exists /\ ~w.deleting /\ w.theme = NoTheme
    BY <2>1, <2>4, <2>5, <2>8 DEF Reconcile
  <2>9. CASE w.exists /\ ~w.deleting /\ w.theme # NoTheme /\ cache.theme[w.theme] = 0
    BY <2>1, <2>4, <2>5, <2>9 DEF Reconcile
  <2>10. CASE w.exists /\ ~w.deleting /\ w.theme # NoTheme /\ cache.theme[w.theme] # 0
    <3>1. PICK c, v : v = cache.theme[w.theme] /\ c = <<w.theme, v>>
      OBVIOUS
    <3>2. work' = [Idle EXCEPT !.pc = "ConfigMap", !.site = w, !.content = c]
      BY <2>1, <2>10, <3>1 DEF Reconcile, reconcileConfigMap, RenderIndexHTML
    <3>3. work'.pc = "ConfigMap" /\ work'.site = w /\ work'.content = c
      BY <3>2 DEF Idle
    <3> QED
      BY <3>1, <3>3
  <2> QED
    BY <2>2, <2>6, <2>7, <2>8, <2>9, <2>10
<1>4. WorkHad'
  BY <1>3 DEF WorkHad
<1> QED
  BY <1>2, <1>4 DEF MountInv

\* The ConfigMap is dealt with before the other kids, which are not tried when it
\* could not be written.
LEMMA CreateOrPatchMount ==
  ASSUME IndInv, MountInv, NEW k \in Kinds, CreateOrPatch(k)
  PROVE  MountInv'
<1>1. UNCHANGED <<served, cache>> /\ Lose /\ work.pc = k
  BY DEF CreateOrPatch
<1>2. PICK c, b, want, content :
        /\ c = cache.kid[k] /\ b = kid[k] /\ content = work.content
        /\ want = Desired(k, work.site, work.content[2], work.content)
  OBVIOUS
<1>3. PICK d, p, h, e : Effect(k, c, b, want, d, p, h, e)
  BY <1>2, CreateOrPatchEffect
<1>4. /\ kid'[k] = d /\ \A j \in Kinds \ {k} : kid'[j] = kid[j]
      /\ work'.pc = p /\ work'.site = work.site /\ work'.content = content
      /\ \/ d = b /\ p = "status"
         \/ Outcome(k, c, b, want, d) /\ (k = "Deployment" => p = "status")
  BY <1>2, <1>3 DEF Effect, OneKid, WorkRecord
<1>5. \A x : Had(x) => Had(x)' /\ (x \in lost => x \in lost')
  BY <1>1, HadStep
<1>6. Outcome(k, c, b, want, d) => d = b \/ (d.exists /\ d.spec = want)
  BY <1>2 DEF Outcome, KidRecord, IndInv, Types, IsKid
<1>7. "ConfigMap" \in Kinds /\ "Deployment" \in Kinds /\ "status" \notin Kinds
  BY WebsiteAssumption
<1>8. content = <<work.site.theme, content[2]>> /\ (k # "ConfigMap" => Had(content))
  BY <1>1, <1>2 DEF MountInv, WorkHad
<1>9. DeploymentHad'
  <2>1. CASE kid'["Deployment"] = kid["Deployment"]
    BY <1>5, <2>1 DEF MountInv, DeploymentHad
  <2>2. CASE k = "Deployment" /\ d.spec = want
    <3>1. want.checksum = content
      BY <1>2, <2>2 DEF Desired, reconcileDeployment, calculateConfigMapChecksum
    <3> QED
      BY <1>4, <1>5, <1>8, <2>2, <3>1 DEF DeploymentHad
  <2> QED
    BY <1>2, <1>4, <1>6, <1>7, <2>1, <2>2
<1>10. CachedHad' /\ PodsHad'
  BY <1>1, <1>5 DEF MountInv, CachedHad, PodsHad, Mounts
<1>11. WorkHad'
  <2>1. work'.pc \in Kinds => Had(content)'
    <3>1. CASE k # "ConfigMap"
      BY <1>5, <1>8, <3>1
    <3>2. CASE k = "ConfigMap" /\ Outcome(k, c, b, want, d)
      <4>1. want = content
        BY <1>2, <1>8, <3>2 DEF Desired, reconcileConfigMap, RenderIndexHTML
      <4>2. CASE c.exists /\ c.spec = want
        BY <1>2, <1>5, <3>2, <4>1, <4>2 DEF MountInv, CachedHad
      <4>3. CASE d.exists /\ d.spec = want
        BY <1>4, <3>2, <4>1, <4>3 DEF Had, Contents
      <4> QED
        BY <1>6, <3>2, <4>2, <4>3 DEF Outcome, KidRecord
    <3> QED
      BY <1>4, <1>7, <3>1, <3>2
  <2> QED
    BY <1>2, <1>4, <1>8, <2>1 DEF WorkHad
<1> QED
  BY <1>9, <1>10, <1>11 DEF MountInv

LEMMA InitMount ==
  ASSUME Init PROVE MountInv
<1>1. PICK ready \in BOOLEAN :
        /\ kid = [k \in Kinds |->
                    IF ready
                    THEN [exists |-> TRUE, shard |-> "me", generation |-> 1, observed |-> 1, rolledOut |-> TRUE,
                          spec |-> Desired(k, site, 1, <<InitialTheme, 1>>)]
                    ELSE NoKid]
        /\ site.theme = InitialTheme
        /\ served = (IF ready THEN Pods(kid["Deployment"].spec) ELSE NoPods)
        /\ cache.kid = kid /\ work.pc = "idle"
  <2>1. PICK ready \in BOOLEAN :
          /\ site = [NoSite EXCEPT !.exists = TRUE, !.rv = 1, !.generation = 1,
                                   !.theme = InitialTheme, !.shard = "me",
                                   !.status = IF ready THEN [observed |-> 1, phase |-> "Ready"] ELSE NoStatus]
          /\ kid = [k \in Kinds |->
                      IF ready
                      THEN [exists |-> TRUE, shard |-> "me", generation |-> 1, observed |-> 1, rolledOut |-> TRUE,
                            spec |-> Desired(k, site, 1, <<InitialTheme, 1>>)]
                      ELSE NoKid]
          /\ served = (IF ready THEN Pods(kid["Deployment"].spec) ELSE NoPods)
          /\ cache = [site |-> IF ready THEN site ELSE NoSite, theme |-> theme, kid |-> kid]
    BY DEF Init
  <2>2. site.theme = InitialTheme
    BY <2>1 DEF NoSite
  <2>3. cache.kid = kid
    BY <2>1
  <2>4. work.pc = "idle"
    BY DEF Init, Idle
  <2> QED
    BY <2>1, <2>2, <2>3, <2>4
<1>2. "ConfigMap" \in Kinds /\ "Deployment" \in Kinds /\ "idle" \notin Kinds
  BY WebsiteAssumption
<1>3. WorkHad
  BY <1>1, <1>2 DEF WorkHad
<1>4. CASE ~ready
  BY <1>1, <1>2, <1>3, <1>4 DEF MountInv, DeploymentHad, CachedHad, PodsHad, NoKid, NoPods, Mounts
<1>5. CASE ready
  <2>1. kid["ConfigMap"].exists /\ kid["ConfigMap"].spec = <<InitialTheme, 1>>
    BY <1>1, <1>2, <1>5 DEF Desired, reconcileConfigMap, RenderIndexHTML
  <2>2. kid["Deployment"].spec.checksum = <<InitialTheme, 1>>
    BY <1>1, <1>2, <1>5 DEF Desired, reconcileDeployment, calculateConfigMapChecksum
  <2>3. Had(<<InitialTheme, 1>>)
    BY <2>1 DEF Had, Contents
  <2>4. DeploymentHad /\ CachedHad
    BY <1>1, <2>1, <2>2, <2>3 DEF DeploymentHad, CachedHad
  <2>5. PodsHad
    BY <1>1, <1>5, <2>1, <2>2, <2>3 DEF PodsHad, Pods, Mounts
  <2> QED
    BY <1>3, <2>4, <2>5 DEF MountInv
<1> QED
  BY <1>4, <1>5

\* Pods mount what their checksum was computed from, unless the ConfigMap has
\* lost it.
THEOREM Mounted == Spec => []MountInv
<1>1. Init => MountInv
  BY InitMount
<1>2. IndInv /\ MountInv /\ [Next]_vars => MountInv'
  <2> SUFFICES ASSUME IndInv, MountInv, [Next]_vars
               PROVE  MountInv'
    OBVIOUS
  <2>1. CASE UNCHANGED <<kid, served, lost, cache, work>>
    BY <2>1, MountStep
  <2>2. CASE \E k \in Kinds : Tamper(k)
    BY <2>2, TamperMount
  <2>3. CASE OtherControllers
    BY <2>3, MoveKidMount, DeploymentMount, RefreshMount, CollectGarbageMount DEF OtherControllers
  <2>4. CASE Deliver
    BY <2>4, DeliverMount
  <2>5. CASE Reconcile
    BY <2>5, ReconcileMount
  <2>6. CASE \E k \in Kinds : CreateOrPatch(k)
    BY <2>6, CreateOrPatchMount
  <2>7. CASE UpdateStatus
    <3>1. UNCHANGED <<kid, served, lost, cache>> /\ work'.pc = "idle" /\ "idle" \notin Kinds
      BY <2>7, WebsiteAssumption DEF UpdateStatus, Idle
    <3> QED
      BY <3>1 DEF MountInv, DeploymentHad, CachedHad, WorkHad, PodsHad, Had, Mounts
  <2>8. CASE AckDrain
    BY <2>8, <2>1 DEF AckDrain
  <2>9. CASE \/ \E t \in Themes \cup {NoTheme} : UpdateSite(t)
             \/ \E t \in Themes : ChangeTheme(t)
             \/ DeleteSite \/ Drain \/ Assign
    BY <2>9, <2>1 DEF UpdateSite, ChangeTheme, DeleteSite, Drain, Assign, operatorVars
  <2>10. CASE UNCHANGED vars
    BY <2>10, <2>1 DEF vars
  <2> QED
    BY <2>2, <2>3, <2>4, <2>5, <2>6, <2>7, <2>8, <2>9, <2>10 DEF Next, Operator
<1> QED
  BY <1>1, <1>2, Invariance, PTL DEF Spec

\* A Website that shows Ready for its current generation is served from that
\* generation's theme once the controller has seen it and its Deployment: the
\* pods of the rollout mount a ConfigMap that was written before the Deployment
\* (reconcileConfigMap before reconcileDeployment).  Only a content that the
\* ConfigMap has lost in between is excepted.
THEOREM ReadyServed == Spec => []ReadyIsServed
<1>1. IndInv /\ MountInv => ReadyIsServed
  <2> SUFFICES ASSUME IndInv, MountInv, Mine, site.theme # NoTheme, ~skipWorkload,
                      site.status = [observed |-> site.generation, phase |-> "Ready"],
                      cache.site = site, cache.kid["Deployment"] = Filtered(kid["Deployment"], NoKid),
                      ~queued, work.pc = "idle", <<site.theme, cache.theme[site.theme]>> \notin lost
               PROVE  served.content = <<site.theme, cache.theme[site.theme]>>
    BY DEF ReadyIsServed
  <2>1. Settled /\ "Deployment" \in Kinds
    BY QuietSettled, WebsiteAssumption
  <2>2. site.status.phase = "Ready" /\ GoodPhase(site.status.phase)
    BY <2>1 DEF IndInv, StatusDone
  <2>3. Serving
    BY <2>2 DEF GoodPhase, Serving
  <2>4. ~Differs("Deployment") /\ (cache.kid["Deployment"].exists => kid["Deployment"] = cache.kid["Deployment"])
    BY <2>1, InSync
  <2>5. IsDeploymentReady(cache.kid["Deployment"])
    BY <2>2, <2>3, <2>4 DEF GoodPhase
  <2>6. Fine("Deployment")
    BY <2>1, <2>3 DEF IndInv, KidsDone, Due
  <2>7. kid["Deployment"].exists /\ kid["Deployment"] = cache.kid["Deployment"]
        /\ kid["Deployment"].spec = Wanted("Deployment")
    BY <2>4, <2>6 DEF Fine, FineKid, Differs
  <2>8. Wanted("Deployment").checksum = <<site.theme, cache.theme[site.theme]>>
    BY DEF Wanted, Desired, reconcileDeployment, calculateConfigMapChecksum, Content
  <2>9. Mounts(Wanted("Deployment"))
    <3>1. site.theme \in Themes /\ cache.theme[site.theme] \in Nat
      BY DEF IndInv, Types, SiteObject
    <3>2. Wanted("Deployment") \in [checksum : Themes \X Nat, replicas : {0, 1}]
      BY <3>1 DEF Wanted, Desired, reconcileDeployment, calculateConfigMapChecksum, Content
    <3>3. Wanted("Deployment").replicas = 1
      BY DEF Wanted, Desired, reconcileDeployment
    <3> QED
      BY <3>2, <3>3, WebsiteAssumption DEF Mounts
  <2>10. kid["Deployment"].observed <= kid["Deployment"].generation
         /\ kid["Deployment"].observed \in Nat /\ kid["Deployment"].generation \in Nat
    BY <2>1, <2>7 DEF IndInv, Types, RolledOut, IsKid
  <2>11. kid["Deployment"].observed = kid["Deployment"].generation /\ kid["Deployment"].rolledOut
    BY <2>5, <2>7, <2>10 DEF IsDeploymentReady
  <2>12. served.spec = Wanted("Deployment")
    BY <2>7, <2>11 DEF IndInv, RolledOut
  <2> QED
    BY <2>8, <2>9, <2>12 DEF MountInv, PodsHad
<1> QED
  BY <1>1, Invariance, Mounted, PTL
=============================================================================
