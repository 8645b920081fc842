-------------------------- MODULE ShardLeaseProofs --------------------------
(***************************************************************************)
(* Proofs about ShardLease, for every value of the constants that          *)
(* satisfies the assumptions there.                                        *)
(***************************************************************************)
EXTENDS ShardLease, TLAPS

\* every copy of the lease is a version the API server has produced
VersionsBounded ==
  /\ lease.rv <= rev /\ cache.rv <= rev /\ rec.lease.rv <= rev /\ ll.rv <= rev
  /\ call.rv <= rev /\ call.landed <= rev
  /\ \A r \in late : r.rv <= rev

\* a copy of the current version has its contents
CopiesAgree ==
  /\ Exists(lease) /\ cache.rv = lease.rv => cache = lease
  /\ Exists(lease) /\ rec.lease.rv = lease.rv => rec.lease = lease

\* the shard writes its own duration
HeldDuration == Exists(lease) /\ lease.holder = Name
                  => lease.duration = LeaseDuration /\ lease.complete

ReadBefore == rec.at <= now /\ attempt <= now

\* a leader gives up before its lease can become uncertain
LeaderInTime ==
  proc = "leading" =>
    /\ now <= stopBy /\ stopBy <= now + RetryPeriod + RenewDeadline
    /\ Exists(lease) =>
         /\ lease.holder = Name
         /\ stopBy <= lease.renewTime - skew + AttemptTimeout + RetryPeriod + RenewDeadline

\* and its release is over before that, if a RenewDeadline more is early enough
ReleaserInTime ==
  proc \in {"releasing", "stopping"} =>
    /\ now <= stopBy /\ stopBy <= now + RenewDeadline
    /\ ReleaseInTime /\ Exists(lease) =>
         \/ lease.holder = NoHolder
         \/ /\ lease.holder = Name
            /\ stopBy <= lease.renewTime - skew + AttemptTimeout + RetryPeriod + 2 * RenewDeadline

\* a response still in time tells of a lease that is still held
LandedInTime ==
  call.landed # 0 /\ Exists(lease) /\ Attempting =>
    lease.holder = Name /\ lease.renewTime >= attempt + skew

LandedAttempt == /\ call.landed # 0 => attempt # Never
                 /\ proc \notin {"candidate", "leading"} => attempt = Never

LateAlive == \A r \in late : now <= r.stamp - skew + AttemptTimeout

\* requests of earlier calls cannot change what a landed call or a leader wrote
LandedFence == call.landed # 0 /\ Exists(lease) => \A r \in late : r.rv < lease.rv

ReleaseFence == proc = "leading" /\ Exists(lease)
                  => \A r \in late : r.kind = "release" => r.rv < lease.rv

IndInv == /\ TypeOK
          /\ VersionsBounded
          /\ CopiesAgree
          /\ HeldDuration
          /\ ReadBefore
          /\ LeaderInTime
          /\ ReleaserInTime
          /\ LandedInTime
          /\ LandedAttempt
          /\ LateAlive
          /\ LandedFence
          /\ ReleaseFence
-----------------------------------------------------------------------------
(* Lemmas about the operators *)

\* A shard state is computed for every lease, at every time.
LEMMA StateTyped ==
  ASSUME NEW l \in Lease, NEW t \in Int
  PROVE  /\ ToState(l, Name, t) \in ShardState
         /\ ToTimes(l, t).LeaseDuration \in Nat
         /\ ToTimes(l, t).ToExpired \in Int
         /\ ToTimes(l, t).ToUncertain \in Int
         /\ ToTimes(l, t).ToOrphaned \in Int
BY LeasesAssumption DEF Lease, ToState, toState, ToTimes, ShardState,
   Unknown, Orphaned, Dead, Uncertain, Expired, Ready

\* What a controller waits for is never due already: the lease is not forgotten.
LEMMA WaitPositive ==
  ASSUME NEW l \in Lease, NEW t \in Int
  PROVE  /\ ToState(l, Name, t) = Ready => ToTimes(l, t).ToExpired > 0
         /\ ToState(l, Name, t) = Expired => ToTimes(l, t).ToUncertain > 0
         /\ ToState(l, Name, t) = Dead => ToTimes(l, t).ToOrphaned > 0
BY LeasesAssumption DEF Lease, ToState, toState, ToTimes, ShardState,
   Unknown, Orphaned, Dead, Uncertain, Expired, Ready

\* NoLease is a lease record that stands for none.
LEMMA NoLeaseTyped == NoLease \in Lease /\ ~Exists(NoLease) /\ NoLease.rv = 0
BY DEF NoLease, Lease, Exists, ShardState, Unknown, Ready

\* Writing a leader election record changes just that.
LEMMA HeldTyped ==
  ASSUME NEW l \in Lease, NEW h \in {Name, Sharder, NoHolder}, NEW t \in Int, NEW d \in Nat
  PROVE  /\ Held(l, h, t, d) \in Lease
         /\ Held(l, h, t, d).rv = l.rv
         /\ Held(l, h, t, d).holder = h
         /\ Held(l, h, t, d).renewTime = t
         /\ Held(l, h, t, d).duration = d
         /\ Held(l, h, t, d).complete
BY DEF Lease, Held

\* A write of a lease gives it a new version and keeps its contents.
LEMMA WriteTyped ==
  ASSUME NEW l \in Lease, rev \in Nat, Write(l)
  PROVE  /\ rev' = rev + 1
         /\ lease' \in Lease
         /\ lease'.rv = rev + 1
         /\ lease'.holder = l.holder
         /\ lease'.renewTime = l.renewTime
         /\ lease'.duration = l.duration
         /\ lease'.complete = l.complete
         /\ Exists(lease')
BY DEF Lease, Write, Exists

\* A shard only becomes uncertain two durations after the renewal of its lease.
LEMMA UncertainLate ==
  ASSUME NEW l \in Lease, NEW t \in Int, l.complete, ToState(l, Name, t) = Uncertain
  PROVE  l.holder = Name /\ l.renewTime + 2 * l.duration <= t
BY LeasesAssumption DEF Lease, ToState, toState, ToTimes, ShardState,
   Unknown, Orphaned, Dead, Uncertain, Expired, Ready
-----------------------------------------------------------------------------
(* Types *)

\* A not yet answered call and a finished attempt are well-typed.
LEMMA CallTyped ==
  /\ NoCall \in Call /\ NoCall.landed = 0 /\ NoCall.rv = 0 /\ NoCall.kind = "none"
  /\ \A k \in {"create", "update"}, v \in Nat, f \in BOOLEAN :
       [kind |-> k, rv |-> v, fast |-> f, landed |-> 0] \in Call
BY DEF NoCall, Call

\* A reconciler that is idle, or has read a lease, is well-typed.
LEMMA RecTyped ==
  /\ Idle \in Rec /\ Idle.lease = NoLease /\ Idle.at = 0
  /\ \A p \in {"label", "act"}, l \in Lease, t \in Nat :
        [pc |-> p, lease |-> l, at |-> t] \in Rec
BY NoLeaseTyped DEF Idle, Rec

\* The initial state is well-typed.
LEMMA TypeInit == Init => TypeOK
<1> SUFFICES ASSUME Init PROVE TypeOK
  OBVIOUS
<1>1. rec \in Rec /\ lease \in Lease /\ cache \in Lease /\ ll \in Lease /\ call \in Call
  BY NoLeaseTyped, CallTyped, RecTyped DEF Init
<1>2. late \subseteq Request /\ attempt \in Nat \cup {Never} /\ wakeAt \in Nat \cup {Never}
  BY DEF Init, Never
<1> QED
  BY <1>1, <1>2, TimingAssumption DEF Init, TypeOK, Rec

\* Every step of the sharder's controller keeps the types.
LEMMA TypeSharder == TypeOK /\ SharderNext => TypeOK'
<1> SUFFICES ASSUME TypeOK, SharderNext PROVE TypeOK'
  OBVIOUS
<1> USE DEF sharderVars, shardVars, electorVars
<1>1. CASE Deliver
  BY <1>1, NoLeaseTyped DEF Deliver, LeasePredicate, TypeOK
<1>2. CASE Wake
  BY <1>2 DEF Wake, TypeOK, Never
<1>3. CASE CreateRing
  <2>1. ring' \in BOOLEAN /\ queued' \in BOOLEAN
    BY <1>3 DEF CreateRing
  <2> QED
    BY <1>3, <2>1 DEF CreateRing, TypeOK
<1>4. CASE RestartSharder
  <2>1. rec' \in Rec /\ cache' \in Lease /\ wakeAt' \in Nat \cup {Never} /\ faults' \in Nat
    BY <1>4, NoLeaseTyped, RecTyped DEF RestartSharder, TypeOK, Never
  <2> QED
    BY <1>4, <2>1 DEF RestartSharder, TypeOK
<1>5. CASE ReconcileRead
  <2>1. rec' \in Rec
    BY <1>5, RecTyped DEF ReconcileRead, TypeOK
  <2> QED
    BY <1>5, <2>1 DEF ReconcileRead, TypeOK, Rec
<1>6. CASE MaintainLabel
  <2>1. State \in ShardState
    BY StateTyped DEF State, TypeOK, Rec
  <2>2. lease' \in Lease /\ rev' \in Nat
    <3>1. [lease EXCEPT !.label = State] \in Lease
      BY <2>1 DEF TypeOK, Lease
    <3> QED
      BY <1>6, <3>1, WriteTyped DEF MaintainLabel, TypeOK
  <2>3. rec' \in Rec
    BY <1>6, <2>2, RecTyped DEF MaintainLabel, LoseResponse, ReconcileError, TypeOK, Rec
  <2>4. wakeAt' \in Nat \cup {Never} /\ faults' \in Nat
    BY <1>6 DEF MaintainLabel, LoseResponse, ReconcileError, TypeOK
  <2>5. queued' \in BOOLEAN
    BY <1>6 DEF MaintainLabel, LoseResponse, ReconcileError, TypeOK
  <2> QED
    BY <1>6, <2>2, <2>3, <2>4, <2>5 DEF MaintainLabel, TypeOK, Rec
<1>7. CASE ActWait
  <2>1. Times.ToExpired \in Int /\ Times.ToUncertain \in Int /\ Times.ToOrphaned \in Int
    BY StateTyped DEF Times, TypeOK, Rec
  <2>2. rec' \in Rec /\ wakeAt' \in Nat \cup {Never}
    BY <1>7, <2>1, RecTyped DEF ActWait, RequeueAfter, Min2, TypeOK, Never,
       Ready, Expired, Dead
  <2> QED
    BY <1>7, <2>2 DEF ActWait, RequeueAfter, TypeOK, Rec
<1>8. CASE ActAcquire
  <2>1. Times.LeaseDuration \in Nat
    BY StateTyped DEF Times, TypeOK, Rec
  <2>2. lease' \in Lease /\ rev' \in Nat
    <3>1. Held(rec.lease, Sharder, rec.at, 2 * Times.LeaseDuration) \in Lease
      BY <2>1, HeldTyped DEF TypeOK, Rec
    <3> QED
      BY <1>8, <3>1, WriteTyped DEF ActAcquire, TypeOK
  <2>3. rec' \in Rec /\ wakeAt' \in Nat \cup {Never} /\ faults' \in Nat
    BY <1>8, <2>1, RecTyped
       DEF ActAcquire, RequeueAfter, LoseResponse, ReconcileError, Min2, TypeOK, Never
  <2>4. queued' \in BOOLEAN
    BY <1>8 DEF ActAcquire, RequeueAfter, LoseResponse, ReconcileError, TypeOK
  <2> QED
    BY <1>8, <2>2, <2>3, <2>4 DEF ActAcquire, TypeOK, Rec
<1>9. CASE ActDelete
  <2>1. lease' \in Lease /\ rev' \in Nat
    BY <1>9, NoLeaseTyped DEF ActDelete, TypeOK
  <2>2. rec' \in Rec /\ wakeAt' \in Nat \cup {Never} /\ faults' \in Nat
    BY <1>9, RecTyped DEF ActDelete, LoseResponse, ReconcileError, TypeOK
  <2>3. queued' \in BOOLEAN /\ tomb' \in BOOLEAN
    BY <1>9 DEF ActDelete, LoseResponse, ReconcileError, TypeOK
  <2> QED
    BY <1>9, <2>1, <2>2, <2>3 DEF ActDelete, TypeOK, Rec
<1> QED
  BY <1>1, <1>2, <1>3, <1>4, <1>5, <1>6, <1>7, <1>8, <1>9 DEF SharderNext, Reconcile

\* What is left of the calls of a shard is well-typed.
LEMMA LeftoverTyped == TypeOK => Leftover \subseteq Request
BY DEF TypeOK, Leftover, Request, Call, Never, Attempting

\* Every step of the shard keeps the types.
LEMMA TypeShard == TypeOK /\ ShardNext => TypeOK'
<1> SUFFICES ASSUME TypeOK, ShardNext PROVE TypeOK'
  OBVIOUS
<1> USE DEF sharderVars, electorVars
<1>a. /\ Held(lease, Name, attempt + skew, LeaseDuration) \in Lease
      /\ Held(NoLease, Name, attempt + skew, LeaseDuration) \in Lease
  BY HeldTyped, NoLeaseTyped, TimingAssumption DEF TypeOK, Never
<1>b. ASSUME KeepLate(Leftover) PROVE late' \subseteq Request
  BY <1>b, LeftoverTyped DEF KeepLate, TypeOK
<1>c. ASSUME CallFailed
      PROVE call' \in Call /\ attempt' \in Nat \cup {Never} /\ retryAt' \in Nat
  BY <1>c, CallTyped, TimingAssumption DEF CallFailed, EndAttempt, TypeOK
<1>d. ASSUME call' = [call EXCEPT !.landed = rev + 1]
      PROVE call' \in Call
  BY <1>d DEF TypeOK, Call
<1>e. ASSUME Down, late' \subseteq Request PROVE TypeOK'
  BY <1>e, NoLeaseTyped, CallTyped DEF Down, TypeOK
<1>1. CASE Start
  BY <1>1, NoLeaseTyped DEF Start, TypeOK
<1>2. CASE BeginAttempt
  <2>1. call' \in Call
    BY <1>2, CallTyped DEF BeginAttempt, TypeOK, Lease
  <2> QED
    BY <1>2, <2>1 DEF BeginAttempt, TypeOK
<1>3. CASE GetLease
  <2>1. ll' \in Lease
    BY <1>3 DEF GetLease, TypeOK, Lease, ShardState, Unknown, Ready
  <2>2. call' \in Call
    <3>1. lease.rv \in Nat
      BY DEF TypeOK, Lease
    <3>2. /\ [kind |-> "update", rv |-> lease.rv, fast |-> FALSE, landed |-> 0] \in Call
          /\ [kind |-> "create", rv |-> 0, fast |-> FALSE, landed |-> 0] \in Call
          /\ NoCall \in Call
      BY <3>1, CallTyped
    <3> QED
      BY <1>3, <3>2 DEF GetLease, EndAttempt
  <2>3. observedAt' \in Nat /\ attempt' \in Nat \cup {Never} /\ retryAt' \in Nat
    BY <1>3, TimingAssumption DEF GetLease, EndAttempt, TypeOK
  <2> QED
    BY <1>3, <2>1, <2>2, <2>3 DEF GetLease, TypeOK
<1>4. CASE LandUpdate
  <2>1. lease' \in Lease /\ rev' \in Nat
    BY <1>4, <1>a, WriteTyped DEF LandUpdate, TypeOK
  <2>2. call' \in Call /\ attempt' \in Nat \cup {Never} /\ retryAt' \in Nat
    BY <1>4, <1>c, <1>d DEF LandUpdate, TypeOK
  <2> QED
    BY <1>4, <2>1, <2>2 DEF LandUpdate, TypeOK
<1>5. CASE LandCreate
  <2>1. lease' \in Lease /\ rev' \in Nat
    BY <1>5, <1>a, WriteTyped DEF LandCreate, TypeOK
  <2>2. call' \in Call /\ attempt' \in Nat \cup {Never} /\ retryAt' \in Nat
    BY <1>5, <1>c, <1>d DEF LandCreate, TypeOK
  <2> QED
    BY <1>5, <2>1, <2>2 DEF LandCreate, TypeOK
<1>6. CASE Respond
  <2>1. ll' \in Lease
    BY <1>6, <1>a DEF Respond, TypeOK, Lease, Call
  <2>2. stopBy' \in Nat /\ retryAt' \in Nat
    BY <1>6, TimingAssumption DEF Respond, EndAttempt, TypeOK
  <2> QED
    BY <1>6, <2>1, <2>2, CallTyped DEF Respond, EndAttempt, TypeOK
<1>7. CASE Timeout
  <2>1. call' \in Call /\ attempt' \in Nat \cup {Never} /\ retryAt' \in Nat
    BY <1>7, <1>c, CallTyped, TimingAssumption DEF Timeout, EndAttempt, TypeOK
  <2>2. late' \subseteq Request
    BY <1>7, <1>b DEF Timeout
  <2> QED
    BY <1>7, <2>1, <2>2 DEF Timeout, TypeOK
<1>8. CASE Crash
  BY <1>8, <1>b, <1>e DEF Crash
<1>f. ASSUME NEW p \in {"releasing", "stopping"}, EndLeading(p) PROVE TypeOK'
  <2>1. stopBy' \in Nat /\ late' \subseteq Request
    BY <1>b, <1>f, TimingAssumption DEF EndLeading, TypeOK
  <2> QED
    BY <1>f, <2>1, CallTyped DEF EndLeading, TypeOK
<1>9. CASE GiveUp
  BY <1>9, <1>f DEF GiveUp
<1>10. CASE Stop
  BY <1>10, <1>f DEF Stop
<1>12. CASE Release
  <2>1. [kind |-> "release", rv |-> lease.rv, stamp |-> now + skew] \in Request
    BY DEF TypeOK, Request, Lease
  <2>2. late' \subseteq Request
    BY <1>12, <2>1 DEF Release, KeepLate, TypeOK
  <2> QED
    BY <1>12, <2>2, NoLeaseTyped DEF Release, TypeOK
<1>13. CASE Exit
  <2>1. late' \subseteq Request
    BY <1>13 DEF Exit, TypeOK
  <2> QED
    BY <1>13, <1>e, <2>1 DEF Exit
<1>11. CASE LandLate
  <2>1. PICK r \in late :
          /\ VersionMatches(r.rv)
          /\ Write(IF r.kind = "release" THEN Held(lease, NoHolder, r.stamp, 1)
                                         ELSE Held(lease, Name, r.stamp, LeaseDuration))
          /\ late' = late \ {r}
          /\ UNCHANGED <<now, skew, ring, sharderVars, proc, starts, electorVars>>
    BY <1>11 DEF LandLate
  <2>2. r.stamp \in Int
    BY DEF TypeOK, Request
  <2>3. /\ Held(lease, NoHolder, r.stamp, 1) \in Lease
        /\ Held(lease, Name, r.stamp, LeaseDuration) \in Lease
    BY <2>2, HeldTyped, TimingAssumption DEF TypeOK
  <2>4. lease' \in Lease /\ rev' \in Nat
    BY <2>1, <2>3, WriteTyped DEF TypeOK
  <2> QED
    BY <2>1, <2>4 DEF TypeOK
<1> QED
  BY <1>1, <1>2, <1>3, <1>4, <1>5, <1>6, <1>7, <1>8, <1>9, <1>10, <1>11, <1>12, <1>13
     DEF ShardNext, ElectorNext

\* Every step keeps the types.
LEMMA TypeNext == TypeOK /\ [Next]_vars => TypeOK'
<1> SUFFICES ASSUME TypeOK, [Next]_vars PROVE TypeOK'
  OBVIOUS
<1>1. CASE SharderNext
  BY <1>1, TypeSharder
<1>2. CASE ShardNext
  BY <1>2, TypeShard
<1>3. CASE Tick
  BY <1>3 DEF Tick, TypeOK, sharderVars, electorVars
<1>4. CASE UNCHANGED vars
  BY <1>4 DEF vars, sharderVars, shardVars, electorVars, TypeOK
<1> QED
  BY <1>1, <1>2, <1>3, <1>4 DEF Next, Horizon

\* Type correctness of the lease protocol.
THEOREM TypeCorrect == Spec => []TypeOK
BY TypeInit, TypeNext, PTL DEF Spec
-----------------------------------------------------------------------------
(* The inductive invariant *)

\* The invariant holds initially.
LEMMA InvInit == Init => IndInv
<1> SUFFICES ASSUME Init PROVE IndInv
  OBVIOUS
<1>1. ~Exists(lease) /\ lease.rv = 0 /\ cache.rv = 0 /\ ll.rv = 0
  BY NoLeaseTyped DEF Init
<1>2. rec.lease.rv = 0 /\ rec.at = 0 /\ call.landed = 0 /\ call.rv = 0
  BY NoLeaseTyped, RecTyped, CallTyped DEF Init
<1> QED
  BY <1>1, <1>2, TypeInit
     DEF Init, IndInv, VersionsBounded, CopiesAgree, HeldDuration, ReadBefore,
         LeaderInTime, ReleaserInTime, LandedInTime, LandedAttempt, LateAlive,
         LandedFence, ReleaseFence, Never

\* The parts of the invariant that only speak of the lease and of the shard.
ShardInv == /\ HeldDuration /\ LeaderInTime /\ ReleaserInTime /\ LandedInTime
            /\ LandedAttempt /\ LateAlive /\ LandedFence /\ ReleaseFence

\* They do not depend on the sharder's variables.
LEMMA ShardInvFrame ==
  ShardInv /\ UNCHANGED <<now, skew, lease, shardVars>> => ShardInv'
BY DEF ShardInv, HeldDuration, LeaderInTime, ReleaserInTime, LandedInTime, LandedAttempt,
       LateAlive, LandedFence, ReleaseFence, Exists, Attempting, shardVars, electorVars, VersionMatches

\* A step of the controller that does not write keeps the invariant.
LEMMA InvSharderReads ==
  ASSUME IndInv, UNCHANGED <<now, skew, lease, rev, shardVars>>, TypeOK',
         cache' \in {cache, lease, NoLease},
         rec' \in {rec, Idle} \/ (rec'.lease = cache /\ rec'.at = now)
  PROVE  IndInv'
<1>1. ShardInv'
  BY ShardInvFrame DEF IndInv, ShardInv
<1>2. VersionsBounded'
  BY NoLeaseTyped, RecTyped DEF IndInv, TypeOK, VersionsBounded, shardVars, electorVars
<1>3. CopiesAgree'
  BY NoLeaseTyped, RecTyped DEF IndInv, TypeOK, CopiesAgree, Exists, Rec
<1>4. ReadBefore'
  BY RecTyped DEF IndInv, TypeOK, ReadBefore, shardVars, electorVars
<1> QED
  BY <1>1, <1>2, <1>3, <1>4 DEF IndInv, ShardInv

\* Patching the state label makes a new version of the same record.
LEMMA InvMaintainLabel == IndInv /\ MaintainLabel /\ TypeOK' => IndInv'
<1> SUFFICES ASSUME IndInv, MaintainLabel, TypeOK' PROVE IndInv'
  OBVIOUS
<1>1. CASE ~VersionMatches(rec.lease.rv)
  <2>1. UNCHANGED <<now, skew, lease, rev, cache, shardVars>> /\ rec' = Idle
    BY <1>1 DEF MaintainLabel, ReconcileError
  <2> QED
    BY <2>1, InvSharderReads
<1>2. CASE VersionMatches(rec.lease.rv)
  <2> DEFINE l == [lease EXCEPT !.label = State]
  <2>1. /\ Write(l) /\ UNCHANGED <<now, skew, cache, shardVars>>
        /\ rec' = Idle \/ rec' = [rec EXCEPT !.pc = "act", !.lease = lease']
    BY <1>2 DEF MaintainLabel, LoseResponse, ReconcileError
  <2>2. State \in ShardState
    BY StateTyped DEF State, IndInv, TypeOK, Rec
  <2>3. /\ l \in Lease /\ l.holder = lease.holder /\ l.renewTime = lease.renewTime
        /\ l.duration = lease.duration /\ l.complete = lease.complete
    BY <2>2 DEF IndInv, TypeOK, Lease
  <2> HIDE DEF l
  <2>4. /\ rev' = rev + 1 /\ lease'.rv = rev + 1 /\ Exists(lease')
        /\ lease'.holder = lease.holder /\ lease'.renewTime = lease.renewTime
        /\ lease'.duration = lease.duration /\ lease'.complete = lease.complete
    BY <2>1, <2>3, WriteTyped DEF IndInv, TypeOK
  <2>5. /\ rec'.lease = lease' \/ rec'.lease.rv = 0
        /\ rec'.at = rec.at \/ rec'.at = 0
    BY <2>1, RecTyped, NoLeaseTyped DEF IndInv, TypeOK, Rec
  <2>6. VersionsBounded'
    BY <2>1, <2>4, <2>5 DEF IndInv, TypeOK, VersionsBounded, shardVars, electorVars,
       Lease, Call, Request
  <2>7. CopiesAgree'
    BY <2>1, <2>4, <2>5 DEF IndInv, TypeOK, VersionsBounded, CopiesAgree, Lease
  <2>8. ReadBefore'
    BY <2>1, <2>5 DEF IndInv, TypeOK, ReadBefore, shardVars, electorVars
  <2>9. HeldDuration' /\ LeaderInTime' /\ LandedInTime' /\ LandedAttempt' /\ LateAlive'
    BY <1>2, <2>1, <2>4 DEF IndInv, HeldDuration, LeaderInTime, LandedInTime,
       LandedAttempt, LateAlive, Attempting, VersionMatches, shardVars, electorVars
  <2>11. ReleaserInTime'
    BY <1>2, <2>1, <2>4 DEF IndInv, ReleaserInTime, VersionMatches, shardVars, electorVars
  <2>10. LandedFence' /\ ReleaseFence'
    BY <2>1, <2>4 DEF IndInv, TypeOK, VersionsBounded, LandedFence, ReleaseFence,
       shardVars, electorVars, Request
  <2> QED
    BY <2>6, <2>7, <2>8, <2>9, <2>10, <2>11 DEF IndInv
<1> QED
  BY <1>1, <1>2

\* Taking over an uncertain lease: no leader is left, no response is in time.
LEMMA InvActAcquire == IndInv /\ ActAcquire /\ TypeOK' => IndInv'
<1> SUFFICES ASSUME IndInv, ActAcquire, TypeOK' PROVE IndInv'
  OBVIOUS
<1>1. CASE ~VersionMatches(rec.lease.rv)
  <2>1. UNCHANGED <<now, skew, lease, rev, cache, shardVars>> /\ rec' = Idle
    BY <1>1 DEF ActAcquire, ReconcileError
  <2> QED
    BY <2>1, InvSharderReads
<1>2. CASE VersionMatches(rec.lease.rv)
  <2> DEFINE l == Held(rec.lease, Sharder, rec.at, 2 * Times.LeaseDuration)
  <2>1. /\ Write(l) /\ UNCHANGED <<now, skew, cache, shardVars>> /\ rec' = Idle
    BY <1>2 DEF ActAcquire, LoseResponse, ReconcileError, RequeueAfter
  <2>2. Times.LeaseDuration \in Nat
    BY StateTyped DEF Times, IndInv, TypeOK, Rec
  <2>3. l \in Lease /\ l.holder = Sharder
    BY <2>2, HeldTyped DEF IndInv, TypeOK, Rec
  <2> HIDE DEF l
  <2>4. rev' = rev + 1 /\ lease'.rv = rev + 1 /\ Exists(lease') /\ lease'.holder = Sharder
    BY <2>1, <2>3, WriteTyped DEF IndInv, TypeOK
  <2>5. rec'.lease.rv = 0 /\ rec'.at = 0
    BY <2>1, RecTyped, NoLeaseTyped
  <2>6. Exists(lease) /\ lease = rec.lease
    BY <1>2 DEF VersionMatches, IndInv, CopiesAgree
  <2>7. /\ lease.holder = Name /\ lease.duration = LeaseDuration /\ lease.complete
        /\ lease.renewTime + 2 * LeaseDuration <= now
    <3>1. ToState(lease, Name, rec.at) = Uncertain
      BY <2>6 DEF ActAcquire, State
    <3>2. lease.holder = Name
      BY <3>1 DEF ToState, toState, Uncertain, Orphaned, Dead
    <3>3. lease.duration = LeaseDuration /\ lease.complete
      BY <3>2, <2>6 DEF IndInv, HeldDuration
    <3>4. lease.renewTime + 2 * lease.duration <= rec.at
      BY <3>1, <3>3, UncertainLate DEF IndInv, TypeOK, Rec
    <3> QED
      BY <3>2, <3>3, <3>4, TimingAssumption DEF IndInv, TypeOK, ReadBefore, Rec, Lease
  <2>8. proc # "leading"
    BY <2>6, <2>7, TimingAssumption DEF IndInv, TypeOK, LeaderInTime, Lease
  <2>15. ReleaseInTime => proc \notin {"releasing", "stopping"}
    BY <2>6, <2>7, NamesAssumption, TimingAssumption
       DEF IndInv, TypeOK, ReleaserInTime, ReleaseInTime, Lease
  <2>9. call.landed = 0 \/ ~Attempting
    BY <2>6, <2>7, TimingAssumption
       DEF IndInv, TypeOK, LandedInTime, LandedAttempt, Attempting, Lease, Call, Never
  <2>10. VersionsBounded'
    BY <2>1, <2>4, <2>5 DEF IndInv, TypeOK, VersionsBounded, shardVars, electorVars,
       Lease, Call, Request
  <2>11. CopiesAgree'
    BY <2>1, <2>4, <2>5 DEF IndInv, TypeOK, VersionsBounded, CopiesAgree, Lease
  <2>12. ReadBefore' /\ LandedAttempt' /\ LateAlive'
    BY <2>1, <2>5 DEF IndInv, TypeOK, ReadBefore, LandedAttempt, LateAlive,
       shardVars, electorVars
  <2>13. HeldDuration' /\ LeaderInTime' /\ LandedInTime'
    BY <2>1, <2>4, <2>8, <2>9, NamesAssumption DEF HeldDuration, LeaderInTime,
       LandedInTime, Attempting, shardVars, electorVars
  <2>14. LandedFence' /\ ReleaseFence'
    BY <2>1, <2>4 DEF IndInv, TypeOK, VersionsBounded, LandedFence, ReleaseFence,
       shardVars, electorVars, Request
  <2>16. ReleaserInTime'
    BY <2>1, <2>15 DEF IndInv, ReleaserInTime, shardVars, electorVars
  <2> QED
    BY <2>10, <2>11, <2>12, <2>13, <2>14, <2>16 DEF IndInv
<1> QED
  BY <1>1, <1>2

\* Deleting the lease, whoever holds it, leaves nothing to say of it.
LEMMA InvActDelete == IndInv /\ ActDelete /\ TypeOK' => IndInv'
<1> SUFFICES ASSUME IndInv, ActDelete, TypeOK' PROVE IndInv'
  OBVIOUS
<1>1. CASE ~Exists(lease)
  <2>1. UNCHANGED <<now, skew, lease, rev, cache, shardVars>> /\ rec' = Idle
    BY <1>1 DEF ActDelete, ReconcileError
  <2> QED
    BY <2>1, InvSharderReads
<1>2. CASE Exists(lease)
  <2>1. /\ lease' = NoLease /\ rev' = rev + 1 /\ rec' = Idle
        /\ UNCHANGED <<now, skew, cache, shardVars>>
    BY <1>2 DEF ActDelete, LoseResponse, ReconcileError
  <2>2. ~Exists(lease') /\ lease'.rv = 0 /\ rec'.lease.rv = 0 /\ rec'.at = 0
    BY <2>1, NoLeaseTyped, RecTyped
  <2>3. VersionsBounded'
    BY <2>1, <2>2 DEF IndInv, TypeOK, VersionsBounded, shardVars, electorVars,
       Lease, Call, Request
  <2>4. ReadBefore' /\ LandedAttempt' /\ LateAlive'
    BY <2>1, <2>2 DEF IndInv, TypeOK, ReadBefore, LandedAttempt, LateAlive,
       shardVars, electorVars
  <2>5. CopiesAgree' /\ HeldDuration' /\ LeaderInTime' /\ ReleaserInTime' /\ LandedInTime'
    BY <2>1, <2>2 DEF IndInv, CopiesAgree, HeldDuration, LeaderInTime, ReleaserInTime,
       LandedInTime, shardVars, electorVars
  <2>6. LandedFence' /\ ReleaseFence'
    BY <2>2 DEF LandedFence, ReleaseFence
  <2> QED
    BY <2>3, <2>4, <2>5, <2>6 DEF IndInv
<1> QED
  BY <1>1, <1>2

\* Every step of the sharder's controller keeps the invariant.
LEMMA InvSharder == IndInv /\ SharderNext => IndInv'
<1> SUFFICES ASSUME IndInv, SharderNext PROVE IndInv'
  OBVIOUS
<1>0. TypeOK'
  BY TypeSharder DEF IndInv
<1>1. CASE Deliver
  BY <1>0, <1>1, InvSharderReads DEF Deliver
<1>2. CASE Wake
  BY <1>0, <1>2, InvSharderReads DEF Wake
<1>3. CASE CreateRing
  BY <1>0, <1>3, InvSharderReads DEF CreateRing
<1>4. CASE RestartSharder
  BY <1>0, <1>4, InvSharderReads DEF RestartSharder
<1>5. CASE ReconcileRead
  <2>1. rec' = Idle \/ (rec'.lease = cache /\ rec'.at = now)
    BY <1>5 DEF ReconcileRead
  <2> QED
    BY <1>0, <1>5, <2>1, InvSharderReads DEF ReconcileRead
<1>6. CASE MaintainLabel
  BY <1>0, <1>6, InvMaintainLabel
<1>7. CASE ActWait
  BY <1>0, <1>7, InvSharderReads DEF ActWait, RequeueAfter
<1>8. CASE ActAcquire
  BY <1>0, <1>8, InvActAcquire
<1>9. CASE ActDelete
  BY <1>0, <1>9, InvActDelete
<1> QED
  BY <1>1, <1>2, <1>3, <1>4, <1>5, <1>6, <1>7, <1>8, <1>9 DEF SharderNext, Reconcile

\* What a shard leaves behind is in time, and no release.
LEMMA KeepLateFacts ==
  ASSUME IndInv, KeepLate(Leftover), NEW r \in late'
  PROVE  r \in late \/ /\ r.kind = "update" /\ r.rv <= rev
                       /\ now <= r.stamp - skew + AttemptTimeout
BY TimingAssumption DEF IndInv, TypeOK, VersionsBounded, KeepLate, Leftover, Attempting, Never

\* A step of the shard that does not write and leaves no answer to wait for.
LEMMA InvShardQuiet ==
  ASSUME IndInv, TypeOK', UNCHANGED <<now, skew, lease, rev, sharderVars>>,
         ll'.rv <= rev, call'.rv <= rev, call'.landed = 0,
         attempt' \in {attempt, now, Never},
         \/ proc' = proc /\ stopBy' = stopBy
         \/ proc' \in {"down", "candidate"}
         \/ /\ proc = "leading" /\ proc' \in {"releasing", "stopping"}
            /\ stopBy' = now + RenewDeadline,
         proc' \notin {"candidate", "leading"} => attempt' = Never,
         \A r \in late' : \/ r \in late
                          \/ /\ r.rv <= rev /\ now <= r.stamp - skew + AttemptTimeout
                             /\ r.kind = "update" \/ proc' # "leading"
  PROVE  IndInv'
<1>1. VersionsBounded'
  BY DEF IndInv, TypeOK, VersionsBounded, sharderVars, Lease, Call, Request
<1>2. CopiesAgree' /\ HeldDuration'
  BY DEF IndInv, CopiesAgree, HeldDuration, sharderVars, Exists
<1>3. ReadBefore'
  BY DEF IndInv, TypeOK, ReadBefore, sharderVars, Never
<1>4. LeaderInTime'
  BY DEF IndInv, LeaderInTime, Exists
<1>8. ReleaserInTime'
  <2>1. CASE proc' = proc /\ stopBy' = stopBy
    BY <2>1 DEF IndInv, ReleaserInTime, Exists
  <2>2. CASE proc' \in {"down", "candidate"}
    BY <2>2 DEF ReleaserInTime
  <2>3. CASE /\ proc = "leading" /\ proc' \in {"releasing", "stopping"}
             /\ stopBy' = now + RenewDeadline
    BY <2>3, TimingAssumption DEF IndInv, TypeOK, LeaderInTime, ReleaserInTime, Exists, Lease
  <2> QED
    BY <2>1, <2>2, <2>3
<1>5. LandedInTime' /\ LandedAttempt' /\ LandedFence'
  BY DEF LandedInTime, LandedAttempt, LandedFence
<1>6. LateAlive'
  BY DEF IndInv, LateAlive
<1>7. ReleaseFence'
  BY DEF IndInv, ReleaseFence, Exists
<1> QED
  BY <1>1, <1>2, <1>3, <1>4, <1>5, <1>6, <1>7, <1>8 DEF IndInv

\* The lease the shard's landing request writes keeps the invariant.
LEMMA InvLand ==
  ASSUME IndInv, TypeOK', Attempting, call.landed = 0, NEW l \in Lease,
         Write(Held(l, Name, attempt + skew, LeaseDuration)),
         call' = [call EXCEPT !.landed = rev + 1],
         UNCHANGED <<attempt, now, skew, sharderVars, proc, ll, stopBy, late>>
  PROVE  IndInv'
<1>1. attempt + skew \in Int /\ LeaseDuration \in Nat
  BY TimingAssumption DEF IndInv, TypeOK, Never
<1>2. /\ rev' = rev + 1 /\ lease'.rv = rev + 1 /\ Exists(lease')
      /\ lease'.holder = Name /\ lease'.renewTime = attempt + skew
      /\ lease'.duration = LeaseDuration /\ lease'.complete
  <2> DEFINE h == Held(l, Name, attempt + skew, LeaseDuration)
  <2>1. /\ h \in Lease /\ h.holder = Name /\ h.renewTime = attempt + skew
        /\ h.duration = LeaseDuration /\ h.complete
    BY <1>1, HeldTyped, SMTT(30)
  <2>2. Write(h) /\ rev \in Nat
    BY DEF IndInv, TypeOK
  <2> HIDE DEF h
  <2> QED
    BY <2>1, <2>2, WriteTyped
<1>3. call'.landed = rev + 1 /\ call'.rv = call.rv
  BY DEF IndInv, TypeOK, Call
<1>4. VersionsBounded'
  BY <1>2, <1>3 DEF IndInv, TypeOK, VersionsBounded, sharderVars, Lease, Call, Request, Rec
<1>5. CopiesAgree'
  BY <1>2 DEF IndInv, TypeOK, VersionsBounded, CopiesAgree, sharderVars, Lease, Rec
<1>6. HeldDuration' /\ ReadBefore' /\ LateAlive'
  BY <1>2 DEF IndInv, HeldDuration, ReadBefore, LateAlive, sharderVars
<1>7. LeaderInTime'
  BY <1>2, TimingAssumption DEF IndInv, TypeOK, LeaderInTime, Attempting, Never
<1>10. ReleaserInTime'
  BY DEF IndInv, ReleaserInTime, LandedAttempt, Attempting
<1>8. LandedInTime' /\ LandedAttempt'
  BY <1>1, <1>2 DEF IndInv, LandedInTime, LandedAttempt, Attempting
<1>9. LandedFence' /\ ReleaseFence'
  BY <1>2 DEF IndInv, TypeOK, VersionsBounded, LandedFence, ReleaseFence, Request
<1> QED
  BY <1>4, <1>5, <1>6, <1>7, <1>8, <1>9, <1>10 DEF IndInv

\* A response in time makes a leader whose deadline fits its lease.
LEMMA InvRespond == IndInv /\ Respond /\ TypeOK' => IndInv'
<1> SUFFICES ASSUME IndInv, Respond, TypeOK' PROVE IndInv'
  OBVIOUS
<1>1. /\ UNCHANGED <<now, skew, lease, rev, sharderVars, late>>
      /\ Attempting /\ call.landed # 0
      /\ proc' = "leading" /\ stopBy' = now + RetryPeriod + RenewDeadline
      /\ attempt' = Never /\ call' = NoCall
  BY DEF Respond, EndAttempt
<1>2. ll'.rv = call.landed
  <2>1. Held(NoLease, Name, attempt + skew, LeaseDuration) \in Lease
    BY HeldTyped, NoLeaseTyped, TimingAssumption DEF IndInv, TypeOK, Never
  <2> QED
    BY <2>1 DEF Respond, Lease
<1>3. VersionsBounded'
  BY <1>1, <1>2, CallTyped DEF IndInv, TypeOK, VersionsBounded, sharderVars, Lease, Call, Request
<1>4. CopiesAgree' /\ HeldDuration'
  BY <1>1 DEF IndInv, CopiesAgree, HeldDuration, sharderVars, Exists
<1>5. ReadBefore'
  BY <1>1 DEF IndInv, TypeOK, ReadBefore, sharderVars, Never
<1>6. LeaderInTime'
  <2>1. Exists(lease) => lease.holder = Name /\ lease.renewTime >= attempt + skew
    BY <1>1 DEF IndInv, LandedInTime
  <2> QED
    BY <1>1, <2>1, TimingAssumption
       DEF IndInv, TypeOK, LeaderInTime, Attempting, Never, Lease, Exists
<1>7. LandedInTime' /\ LandedAttempt' /\ LandedFence'
  BY <1>1, CallTyped DEF LandedInTime, LandedAttempt, LandedFence
<1>9. ReleaserInTime'
  BY <1>1 DEF ReleaserInTime
<1>8. LateAlive' /\ ReleaseFence'
  BY <1>1 DEF IndInv, LateAlive, LandedFence, ReleaseFence, Exists
<1> QED
  BY <1>3, <1>4, <1>5, <1>6, <1>7, <1>8, <1>9 DEF IndInv

\* A request that lands after its sender gave up is too old to undo a newer write.
LEMMA InvLandLate == IndInv /\ LandLate /\ TypeOK' => IndInv'
<1> SUFFICES ASSUME IndInv, LandLate, TypeOK' PROVE IndInv'
  OBVIOUS
<1>1. PICK r \in late :
        /\ VersionMatches(r.rv)
        /\ Write(IF r.kind = "release" THEN Held(lease, NoHolder, r.stamp, 1)
                                       ELSE Held(lease, Name, r.stamp, LeaseDuration))
        /\ late' = late \ {r}
        /\ UNCHANGED <<now, skew, ring, sharderVars, proc, starts, electorVars>>
  BY DEF LandLate
<1>2. r \in Request
  BY DEF IndInv, TypeOK
<1>3. /\ rev' = rev + 1 /\ lease'.rv = rev + 1 /\ Exists(lease')
      /\ lease'.renewTime = r.stamp
      /\ r.kind = "release" => lease'.holder = NoHolder
      /\ r.kind # "release" =>
           lease'.holder = Name /\ lease'.duration = LeaseDuration /\ lease'.complete
  <2>1. r.stamp \in Int /\ LeaseDuration \in Nat
    BY <1>2, TimingAssumption DEF Request
  <2>2. CASE r.kind = "release"
    BY <1>1, <2>1, <2>2, HeldTyped, WriteTyped DEF IndInv, TypeOK
  <2>3. CASE r.kind # "release"
    BY <1>1, <2>1, <2>3, HeldTyped, WriteTyped DEF IndInv, TypeOK
  <2> QED
    BY <2>2, <2>3
<1>4. Exists(lease) /\ r.rv = lease.rv /\ lease.rv \in Nat
  BY <1>1 DEF VersionMatches, IndInv, TypeOK, Lease
<1>5. call.landed = 0
  BY <1>4 DEF IndInv, LandedFence
<1>6. r.kind = "release" => proc # "leading"
  BY <1>4 DEF IndInv, ReleaseFence
<1>7. now <= r.stamp - skew + AttemptTimeout /\ r.stamp \in Int
  BY <1>2 DEF IndInv, LateAlive, Request
<1>8. VersionsBounded'
  BY <1>1, <1>3 DEF IndInv, TypeOK, VersionsBounded, sharderVars, electorVars, Lease,
     Call, Request, Rec
<1>9. CopiesAgree'
  BY <1>1, <1>3 DEF IndInv, TypeOK, VersionsBounded, CopiesAgree, sharderVars, Lease, Rec
<1>10. HeldDuration' /\ ReadBefore' /\ LateAlive'
  BY <1>1, <1>3, NamesAssumption DEF IndInv, HeldDuration, ReadBefore, LateAlive,
     sharderVars, electorVars
<1>11. LeaderInTime'
  BY <1>1, <1>3, <1>6, <1>7, TimingAssumption DEF IndInv, TypeOK, LeaderInTime, electorVars
<1>14. ReleaserInTime'
  BY <1>1, <1>3, <1>7, TimingAssumption DEF IndInv, TypeOK, ReleaserInTime, electorVars
<1>12. LandedInTime' /\ LandedAttempt' /\ LandedFence'
  BY <1>1, <1>5 DEF IndInv, LandedInTime, LandedAttempt, LandedFence, electorVars
<1>13. ReleaseFence'
  BY <1>1, <1>3 DEF IndInv, TypeOK, VersionsBounded, ReleaseFence, electorVars, Request
<1> QED
  BY <1>8, <1>9, <1>10, <1>11, <1>12, <1>13, <1>14 DEF IndInv

\* Every step of the shard keeps the invariant.
LEMMA InvShard == IndInv /\ ShardNext => IndInv'
<1> SUFFICES ASSUME IndInv, ShardNext PROVE IndInv'
  OBVIOUS
<1>0. TypeOK'
  BY TypeShard DEF IndInv
<1>a. /\ NoLease.rv <= rev /\ NoCall.rv <= rev /\ NoCall.landed = 0
      /\ ll.rv <= rev /\ lease.rv <= rev /\ call.rv <= rev
  BY NoLeaseTyped, CallTyped DEF IndInv, TypeOK, VersionsBounded
<1>b. ASSUME KeepLate(Leftover), Down PROVE IndInv'
  BY <1>0, <1>a, <1>b, KeepLateFacts, InvShardQuiet DEF Down
<1>c. ASSUME CallFailed
      PROVE call' = NoCall /\ attempt' \in {attempt, Never}
  BY <1>c DEF CallFailed, EndAttempt
<1>d. attempt # Never => proc \in {"candidate", "leading"}
  BY DEF IndInv, LandedAttempt
<1>1. CASE Start
  <2>1. call.landed = 0
    BY <1>1 DEF Start, IndInv, LandedAttempt
  <2> QED
    BY <1>0, <1>1, <1>a, <2>1, InvShardQuiet DEF Start
<1>2. CASE BeginAttempt
  <2>1. call'.rv <= rev /\ call'.landed = 0
    BY <1>2, <1>a DEF BeginAttempt
  <2> QED
    BY <1>0, <1>2, <1>a, <2>1, InvShardQuiet DEF BeginAttempt
<1>3. CASE GetLease
  <2>1. call'.rv <= rev /\ call'.landed = 0
    BY <1>3, <1>a DEF GetLease, EndAttempt, IndInv, TypeOK
  <2>2. ll'.rv <= rev
    BY <1>3, <1>a DEF GetLease, IndInv, TypeOK, Lease
  <2> QED
    BY <1>0, <1>3, <1>d, <2>1, <2>2, InvShardQuiet DEF GetLease, EndAttempt, Attempting
<1>4. CASE LandUpdate
  <2>1. CASE VersionMatches(call.rv)
    BY <1>0, <1>4, <2>1, InvLand DEF LandUpdate, IndInv, TypeOK
  <2>2. CASE ~VersionMatches(call.rv)
    <3>1. attempt # Never /\ CallFailed /\ UNCHANGED <<now, skew, lease, rev, sharderVars, proc, ll, stopBy, late>>
      BY <1>4, <2>2 DEF LandUpdate, Attempting
    <3> QED
      BY <1>0, <1>a, <1>c, <1>d, <3>1, InvShardQuiet
  <2> QED
    BY <2>1, <2>2
<1>5. CASE LandCreate
  <2>1. CASE ~Exists(lease)
    BY <1>0, <1>5, <2>1, InvLand, NoLeaseTyped DEF LandCreate
  <2>2. CASE Exists(lease)
    <3>1. attempt # Never /\ CallFailed /\ UNCHANGED <<now, skew, lease, rev, sharderVars, proc, ll, stopBy, late>>
      BY <1>5, <2>2 DEF LandCreate, Attempting
    <3> QED
      BY <1>0, <1>a, <1>c, <1>d, <3>1, InvShardQuiet
  <2> QED
    BY <2>1, <2>2
<1>6. CASE Respond
  BY <1>0, <1>6, InvRespond
<1>7. CASE Timeout
  <2>1. call' = NoCall /\ attempt' \in {attempt, Never}
    BY <1>7, <1>c DEF Timeout, EndAttempt
  <2> QED
    BY <1>0, <1>7, <1>a, <1>d, <2>1, KeepLateFacts, InvShardQuiet DEF Timeout
<1>8. CASE Crash
  BY <1>8, <1>b DEF Crash
<1>e. ASSUME NEW p \in {"releasing", "stopping"}, EndLeading(p) PROVE IndInv'
  BY <1>0, <1>a, <1>e, KeepLateFacts, InvShardQuiet DEF EndLeading
<1>9. CASE GiveUp
  BY <1>9, <1>e DEF GiveUp
<1>10. CASE Stop
  BY <1>10, <1>e DEF Stop
<1>12. CASE Release
  <2>1. \A r \in late' : r \in late \/ (r.rv <= rev /\ now <= r.stamp - skew + AttemptTimeout)
    BY <1>12, <1>a, TimingAssumption DEF Release, KeepLate, IndInv, TypeOK
  <2>2. call.landed = 0 /\ proc # "leading" /\ attempt = Never
    BY <1>12 DEF Release, IndInv, LandedAttempt
  <2> QED
    BY <1>0, <1>12, <1>a, <2>1, <2>2, InvShardQuiet DEF Release
<1>13. CASE Exit
  BY <1>0, <1>13, <1>a, InvShardQuiet DEF Exit, Down
<1>11. CASE LandLate
  BY <1>0, <1>11, InvLandLate
<1> QED
  BY <1>1, <1>2, <1>3, <1>4, <1>5, <1>6, <1>7, <1>8, <1>9, <1>10, <1>11, <1>12, <1>13
     DEF ShardNext, ElectorNext

\* Every step keeps the invariant.
LEMMA InvNext == IndInv /\ [Next]_vars => IndInv'
<1> SUFFICES ASSUME IndInv, [Next]_vars PROVE IndInv'
  OBVIOUS
<1>0. TypeOK'
  BY TypeNext DEF IndInv
<1>1. CASE SharderNext
  BY <1>1, InvSharder
<1>2. CASE ShardNext
  BY <1>2, InvShard
<1>3. CASE Tick
  <2> USE <1>3 DEF Tick, sharderVars, electorVars
  <2>1. VersionsBounded' /\ CopiesAgree' /\ HeldDuration'
    BY DEF IndInv, VersionsBounded, CopiesAgree, HeldDuration, Exists
  <2>2. ReadBefore'
    BY DEF IndInv, TypeOK, ReadBefore, Rec, Never
  <2>3. LeaderInTime'
    BY TimingAssumption DEF IndInv, TypeOK, LeaderInTime, Exists
  <2>7. ReleaserInTime'
    BY TimingAssumption DEF IndInv, TypeOK, ReleaserInTime, Exists
  <2>4. LandedInTime' /\ LandedAttempt'
    BY TimingAssumption DEF IndInv, TypeOK, LandedInTime, LandedAttempt, Attempting, Exists, Never
  <2>5. LateAlive'
    BY TimingAssumption DEF IndInv, TypeOK, Request, LateAlive
  <2>6. LandedFence' /\ ReleaseFence'
    BY DEF IndInv, LandedFence, ReleaseFence, Exists
  <2> QED
    BY <1>0, <2>1, <2>2, <2>3, <2>4, <2>5, <2>6, <2>7 DEF IndInv
<1>4. CASE UNCHANGED vars
  <2>1. ShardInv'
    BY <1>4, ShardInvFrame DEF vars, IndInv, ShardInv
  <2>2. VersionsBounded' /\ CopiesAgree' /\ ReadBefore'
    BY <1>4 DEF vars, sharderVars, shardVars, electorVars, IndInv, VersionsBounded,
       CopiesAgree, ReadBefore, Exists
  <2> QED
    BY <1>0, <2>1, <2>2 DEF IndInv, ShardInv
<1> QED
  BY <1>1, <1>2, <1>3, <1>4 DEF Next, Horizon

\* The inductive invariant holds in every reachable state.
THEOREM Invariance == Spec => []IndInv
BY InvInit, InvNext, PTL DEF Spec

\* A shard whose lease is taken over or released runs no reconciles, up to the
\* release that follows a missed renew deadline: the condition under which the
\* sharder moves objects without asking.
THEOREM DeadStopped == Spec => []DeadImpliesStopping
<1>1. IndInv => DeadImpliesStopping
  <2>1. lease.holder = Name => IsAvailable(ToState(lease, Name, now))
    BY DEF ToState, toState, IsAvailable, Uncertain, Expired, Ready
  <2> QED  BY <2>1 DEF IndInv, LeaderInTime, ReleaserInTime, DeadImpliesStopping, Lost, Running
<1> QED
  BY <1>1, Invariance, PTL

\* The sharder takes only leases that are uncertain when it takes them: its
\* decision is still right although it was made on a copy, some time ago.
THEOREM TakeoverSound == Spec => TakeoverOnlyUncertain
<1> DEFINE A == lease.holder = Name /\ lease'.holder = Sharder
                  => ToState(lease, Name, now) = Uncertain
<1>1. IndInv /\ [Next]_vars => [A]_vars
  <2> SUFFICES ASSUME IndInv, Next, lease.holder = Name, lease'.holder = Sharder
               PROVE  ToState(lease, Name, now) = Uncertain
    OBVIOUS
  <2>1. ActAcquire /\ VersionMatches(rec.lease.rv)
    <3>1. lease' # lease
      BY NamesAssumption
    <3>2. CASE SharderNext
      <4>1. ~MaintainLabel
        BY NamesAssumption DEF MaintainLabel, Write, IndInv, TypeOK, Lease
      <4>2. ~ActDelete
        BY NamesAssumption, NoLeaseTyped DEF ActDelete, NoLease
      <4> QED
        BY <3>1, <3>2, <4>1, <4>2 DEF SharderNext, Reconcile, Deliver, Wake, CreateRing,
           RestartSharder, ReconcileRead, ActWait, ActAcquire
    <3>3. CASE ShardNext
      <4>1. ASSUME NEW l \in Lease, NEW h \in {Name, NoHolder}, NEW t \in Int, NEW d \in Nat,
                   Write(Held(l, h, t, d))
            PROVE  FALSE
        BY <4>1, HeldTyped, WriteTyped, NamesAssumption DEF IndInv, TypeOK
      <4>2. attempt + skew \in Int /\ LeaseDuration \in Nat /\ lease \in Lease /\ NoLease \in Lease
        BY TimingAssumption, NoLeaseTyped DEF IndInv, TypeOK, Never
      <4>3. ~LandUpdate
        BY <3>1, <4>1, <4>2 DEF LandUpdate
      <4>4. ~LandCreate
        BY <3>1, <4>1, <4>2 DEF LandCreate
      <4>5. ~LandLate
        <5>1. \A r \in late : r.stamp \in Int
          BY DEF IndInv, TypeOK, Request
        <5> QED
          BY <4>1, <4>2, <5>1 DEF LandLate
      <4> QED
        BY <3>1, <3>3, <4>3, <4>4, <4>5 DEF ShardNext, ElectorNext, Start, BeginAttempt,
           GetLease, Respond, Timeout, Crash, GiveUp, Stop, EndLeading, Release, Exit, Down
    <3> QED
      BY <3>1, <3>2, <3>3 DEF Next, Tick, Horizon, vars
  <2>2. Exists(lease) /\ lease = rec.lease
    BY <2>1 DEF VersionMatches, IndInv, CopiesAgree
  <2>3. ToState(lease, Name, rec.at) = Uncertain
    BY <2>1, <2>2 DEF ActAcquire, State
  <2>4. lease.complete /\ lease \in Lease /\ rec.at \in Nat /\ now \in Nat /\ rec.at <= now
    BY <2>2 DEF IndInv, HeldDuration, TypeOK, Rec, ReadBefore
  <2>5. lease.renewTime + 2 * lease.duration <= rec.at
    BY <2>3, <2>4, UncertainLate
  <2> QED
    BY <2>4, <2>5 DEF ToState, toState, ToTimes, Lease
<1> QED
  BY <1>1, Invariance, PTL DEF Spec, TakeoverOnlyUncertain

\* a lease that the cache shows is in the queue, in the delaying queue or
\* being reconciled, unless it is just being deleted
Pending == queued \/ wakeAt # Never \/ rec # Idle

Watched == /\ ring /\ Exists(cache) /\ ~tomb => Pending
           /\ tomb /\ Exists(lease) => cache.rv < lease.rv

\* The controller keeps an eye on every lease of its cache.
LEMMA WatchedSharder ==
  ASSUME IndInv, Watched, SharderNext
  PROVE  Watched'
<1>1. rev \in Nat /\ lease \in Lease /\ cache \in Lease /\ rec \in Rec /\ now \in Nat
      /\ wakeAt \in Nat \cup {Never} /\ tomb \in BOOLEAN
  BY DEF IndInv, TypeOK
<1>2. cache.rv <= rev /\ cache.rv \in Nat
  BY DEF IndInv, VersionsBounded, TypeOK, Lease
<1>3. ASSUME NEW d \in Int, d > 0, RequeueAfter(d) PROVE wakeAt' # Never
  BY <1>1, <1>3 DEF RequeueAfter, Min2, Never
<1>4. CASE Deliver
  BY <1>4, NoLeaseTyped DEF Deliver, LeasePredicate, Watched, Pending, Exists
<1>5. CASE Wake
  BY <1>5 DEF Wake, Watched, Pending, Exists
<1>6. CASE CreateRing
  BY <1>6 DEF CreateRing, Watched, Pending, Exists
<1>7. CASE RestartSharder
  BY <1>7, NoLeaseTyped DEF RestartSharder, Watched, Exists
<1>8. CASE ReconcileRead
  <2>1. \A l, n : [pc |-> "label", lease |-> l, at |-> n] # Idle /\ [pc |-> "act", lease |-> l, at |-> n] # Idle
    BY DEF Idle
  <2>2. Exists(cache) /\ ring => rec' # Idle
    BY <1>8, <2>1 DEF ReconcileRead
  <2> QED  BY <1>8, <2>2 DEF ReconcileRead, Watched, Pending, Exists
<1>9. CASE MaintainLabel
  <2>1. queued' \/ rec'.pc = "act"
    BY <1>1, <1>9 DEF MaintainLabel, LoseResponse, ReconcileError, Rec
  <2>2. rec'.pc = "act" => rec' # Idle
    BY DEF Idle
  <2>3. lease' = lease \/ lease'.rv = rev + 1
    BY <1>1, <1>9 DEF MaintainLabel, Write, Lease
  <2> QED  BY <1>1, <1>2, <1>9, <2>1, <2>2, <2>3 DEF MaintainLabel, Watched, Pending, Exists
<1>10. CASE ActWait
  <2>1. /\ State = Ready => Times.ToExpired \in Int /\ Times.ToExpired > 0
        /\ State = Expired => Times.ToUncertain \in Int /\ Times.ToUncertain > 0
        /\ State = Dead => Times.ToOrphaned \in Int /\ Times.ToOrphaned > 0
    BY <1>1, WaitPositive, StateTyped DEF State, Times, Rec
  <2>2. wakeAt' # Never
    BY <1>3, <1>10, <2>1 DEF ActWait, Ready, Expired, Dead
  <2> QED  BY <1>10, <2>2 DEF ActWait, Watched, Pending, Exists
<1>11. CASE ActAcquire
  <2>1. VersionMatches(rec.lease.rv) => Times.LeaseDuration \in Int /\ Times.LeaseDuration > 0
    <3> SUFFICES ASSUME VersionMatches(rec.lease.rv)
                 PROVE  Times.LeaseDuration \in Int /\ Times.LeaseDuration > 0
      OBVIOUS
    <3>1. rec.lease = lease /\ Exists(lease)
      BY DEF VersionMatches, IndInv, CopiesAgree
    <3>2. lease.holder = Name
      BY <1>11, <3>1 DEF ActAcquire, State, ToState, toState, Dead, Orphaned, Uncertain
    <3> QED  BY <3>1, <3>2, TimingAssumption DEF IndInv, HeldDuration, Times, ToTimes
  <2>2. queued' \/ wakeAt' # Never
    BY <1>3, <1>11, <2>1 DEF ActAcquire, LoseResponse, ReconcileError
  <2>3. lease' = lease \/ lease'.rv = rev + 1
    BY <1>1, <1>11, StateTyped, HeldTyped, WriteTyped DEF ActAcquire, Times, Rec
  <2> QED  BY <1>1, <1>2, <1>11, <2>2, <2>3 DEF ActAcquire, Watched, Pending, Exists
<1>12. CASE ActDelete
  BY <1>1, <1>12, NoLeaseTyped DEF ActDelete, LoseResponse, ReconcileError, Watched, Pending, Exists
<1> QED  BY <1>4, <1>5, <1>6, <1>7, <1>8, <1>9, <1>10, <1>11, <1>12 DEF SharderNext, Reconcile

\* The shard and the clock leave the sharder's queues alone.
LEMMA WatchedOthers ==
  ASSUME IndInv, Watched, ShardNext \/ Tick \/ UNCHANGED vars
  PROVE  Watched'
<1>1. UNCHANGED <<sharderVars, ring>>
  BY DEF ShardNext, ElectorNext, Start, BeginAttempt, GetLease, LandUpdate, LandCreate, Respond,
     Timeout, Crash, GiveUp, Stop, EndLeading, Release, Exit, Down, LandLate, Tick, vars
<1>2. lease' = lease \/ lease'.rv = rev + 1
  <2>1. ASSUME NEW l \in Lease, NEW h \in {Name, Sharder, NoHolder}, NEW t \in Int, NEW d \in Nat,
               Write(Held(l, h, t, d))
        PROVE  lease'.rv = rev + 1
    BY <2>1, HeldTyped, WriteTyped DEF IndInv, TypeOK
  <2>2. attempt + skew \in Int /\ LeaseDuration \in Nat /\ lease \in Lease /\ NoLease \in Lease
    BY TimingAssumption, NoLeaseTyped DEF IndInv, TypeOK, Never
  <2>3. LandUpdate => lease' = lease \/ lease'.rv = rev + 1
    BY <2>1, <2>2 DEF LandUpdate
  <2>4. LandCreate => lease' = lease \/ lease'.rv = rev + 1
    BY <2>1, <2>2 DEF LandCreate
  <2>5. LandLate => lease'.rv = rev + 1
    <3>1. \A r \in late : r.stamp \in Int
      BY DEF IndInv, TypeOK, Request
    <3> QED  BY <2>1, <2>2, <3>1 DEF LandLate
  <2> QED  BY <2>3, <2>4, <2>5 DEF ShardNext, ElectorNext, Start, BeginAttempt, GetLease,
              Respond, Timeout, Crash, GiveUp, Stop, EndLeading, Release, Exit, Down, Tick, vars
<1>3. rev \in Nat /\ cache.rv <= rev /\ cache.rv \in Nat
  BY DEF IndInv, VersionsBounded, TypeOK, Lease
<1> QED  BY <1>1, <1>2, <1>3 DEF Watched, Pending, Exists, sharderVars

\* The shardlease controller never loses a lease of its ring, whatever is
\* restarted, refused or answered too late: what it waits for is never due.
THEOREM NotForgotten == Spec => []NeverForgotten
<1>1. Init => Watched
  BY NoLeaseTyped DEF Init, Watched, Exists
<1>2. IndInv /\ Watched /\ [Next]_vars => Watched'
  BY WatchedSharder, WatchedOthers DEF Next, Horizon
<1>3. IndInv /\ Watched => NeverForgotten
  <2> SUFFICES ASSUME IndInv, Watched, Exists(lease), cache = lease, ring
               PROVE  queued \/ wakeAt # Never \/ rec # Idle
    BY DEF NeverForgotten
  <2>1. lease.rv \in Nat
    BY DEF IndInv, TypeOK, Lease
  <2> QED  BY <2>1 DEF Watched, Pending
<1> QED  BY <1>1, <1>2, <1>3, Invariance, PTL DEF Spec
-----------------------------------------------------------------------------
(* The state label *)

\* a lease as its holder writes it
Shape(l) == /\ l.complete
            /\ l.holder = Name => l.duration = LeaseDuration
            /\ l.holder = Sharder => l.duration = 2 * LeaseDuration
            /\ l.holder = NoHolder => l.duration = 1

\* a time of the shard's clock that all later writes of the shard reach: its
\* last stamp, or the end of the sharder's lease, for which it waits
Mark(l) == IF l.holder = Sharder THEN l.renewTime + l.duration + skew ELSE l.renewTime

\* leases are stamped by their holder's clock when they are written, or before
Stamped ==
  /\ Exists(lease) => /\ Shape(lease)
                      /\ lease.renewTime <= IF lease.holder = Sharder THEN now ELSE now + skew
  /\ \A r \in late : r.stamp <= now + skew

\* what the shard sends is stamped later than what it overwrites
InOrder ==
  /\ attempt # Never =>
       /\ \A r \in late : r.stamp <= attempt + skew
       /\ Exists(lease) /\ lease.holder # Sharder => lease.renewTime <= attempt + skew
  /\ Exists(ll) /\ ll.holder = Sharder => ll.renewTime <= observedAt
  /\ Exists(lease) =>
       /\ ll.rv = lease.rv => SameRecord(ll, lease)
       /\ call.landed = lease.rv =>
            /\ lease.holder = Name /\ lease.duration = LeaseDuration
            /\ lease.renewTime = attempt + skew
       /\ call.kind = "update" /\ call.landed = 0 /\ call.rv = lease.rv =>
            attempt # Never /\ Mark(lease) <= attempt + skew
       /\ \A r \in late : r.rv = lease.rv => Mark(lease) <= r.stamp

\* the copy a may be of an earlier version than b
Before(a, b) == /\ Mark(a) <= Mark(b)
                /\ b.holder = Sharder /\ a.holder # Sharder => a.renewTime <= b.renewTime + skew

\* the copies of the sharder are of earlier versions
CopiesBehind ==
  /\ Exists(cache) => Shape(cache)
  /\ Exists(cache) /\ ~Exists(lease) => tomb
  /\ Exists(lease) => cache.rv <= lease.rv
  /\ Exists(cache) /\ Exists(lease) /\ ~tomb => Before(cache, lease)
  /\ rec.pc = "idle" => rec = Idle
  /\ rec.pc # "idle" => Shape(rec.lease)
  /\ rec.pc # "idle" /\ Exists(lease) => rec.lease.rv <= lease.rv
  /\ rec.pc = "label" /\ Exists(cache) => rec.lease.rv <= cache.rv

\* states that end by themselves without a takeover or a deletion, and when
Waits(l, t) == ToState(l, Name, t) \in {Ready, Expired, Dead}

NextChange(l, t) ==
  l.renewTime + l.duration + IF ToState(l, Name, t) = Expired THEN l.duration
                             ELSE IF ToState(l, Name, t) = Dead THEN leaseTTL ELSE 0

\* the sharder knows the lease, be it an old version
Following == Exists(cache) /\ Exists(lease) /\ ~tomb

\* the label is the state of the cached copy, and a timer is set for its end,
\* unless the lease is queued or being reconciled
Labelled ==
  /\ rec.pc # "idle" => rec.at = now /\ ring
  /\ Following => lease.label \in {cache.label, ToState(cache, Name, now)}
  /\ Following /\ ring /\ ~queued /\ rec.pc = "idle" =>
       \/ wakeAt # Never /\ wakeAt <= now
       \/ /\ lease.label = ToState(cache, Name, now)
          /\ Waits(cache, now) => wakeAt # Never /\ wakeAt <= NextChange(cache, now)
  /\ Following /\ ~queued /\ rec.pc = "act" =>
       /\ lease.label = ToState(cache, Name, now)
       /\ ToState(rec.lease, Name, now) = ToState(cache, Name, now)
       /\ Waits(cache, now) => NextChange(rec.lease, now) <= NextChange(cache, now)

LabelInv == ReleaseInTime => /\ Stamped
                             /\ InOrder
                             /\ CopiesBehind
                             /\ Punctual => Labelled

\* Of two copies in the same state the older one changes first: the timer set
\* for it is not too late for the newer one.
LEMMA LaterChange ==
  ASSUME NEW a \in Lease, NEW b \in Lease, NEW t \in Int, skew \in Int, skew >= -1,
         skew <= MaxSkew, Shape(a), Shape(b), Before(a, b),
         ToState(a, Name, t) = ToState(b, Name, t), Waits(b, t)
  PROVE  NextChange(a, t) <= NextChange(b, t)
<1>1. /\ a.holder \in {Name, Sharder, NoHolder} /\ b.holder \in {Name, Sharder, NoHolder}
      /\ a.renewTime \in Int /\ b.renewTime \in Int /\ a.duration \in Nat /\ b.duration \in Nat
  BY DEF Lease
<1>2. ASSUME NEW l, l.holder = Name PROVE ToState(l, Name, t) \in {Uncertain, Expired, Ready}
  BY <1>2 DEF ToState, toState
<1>3. ASSUME NEW l, l.holder # Name PROVE ToState(l, Name, t) \in {Dead, Orphaned}
  BY <1>3 DEF ToState, toState
<1>4. CASE ToState(b, Name, t) = Dead
  <2>1. a.holder # Name /\ b.holder # Name
    BY <1>2, <1>4 DEF Dead, Uncertain, Expired, Ready
  <2>2. /\ NextChange(a, t) = a.renewTime + a.duration + leaseTTL
        /\ NextChange(b, t) = b.renewTime + b.duration + leaseTTL
    BY <1>1, <1>4, LeasesAssumption DEF NextChange, Expired, Dead
  <2>3. a.renewTime + a.duration <= b.renewTime + b.duration
    BY <1>1, <2>1, NamesAssumption, TimingAssumption DEF Before, Mark, Shape
  <2> QED  BY <1>1, <2>2, <2>3, LeasesAssumption
<1>5. CASE ToState(b, Name, t) \in {Ready, Expired}
  <2>1. a.holder = Name /\ b.holder = Name
    BY <1>3, <1>5 DEF Dead, Orphaned, Expired, Ready
  <2>2. a.renewTime <= b.renewTime /\ a.duration = b.duration
    BY <2>1, NamesAssumption DEF Before, Mark, Shape
  <2>3. CASE ToState(b, Name, t) = Expired
    BY <1>1, <2>2, <2>3 DEF NextChange
  <2>4. CASE ToState(b, Name, t) = Ready
    BY <1>1, <2>2, <2>4 DEF NextChange, Expired, Ready, Dead
  <2> QED  BY <1>5, <2>3, <2>4
<1> QED  BY <1>4, <1>5 DEF Waits

\* The state stays until it is time for the next one.
LEMMA StateStays ==
  ASSUME NEW l \in Lease, NEW t \in Int, l.complete,
         Waits(l, t) => t + 1 < NextChange(l, t)
  PROVE  /\ ToState(l, Name, t + 1) = ToState(l, Name, t)
         /\ NextChange(l, t + 1) = NextChange(l, t)
<1> DEFINE u == t + 1
<1>1. l.renewTime \in Int /\ l.duration \in Nat /\ u \in Int /\ u = t + 1
  BY DEF Lease
<1>2. ToState(l, Name, u) = ToState(l, Name, t)
  BY <1>1, LeasesAssumption DEF ToState, toState, ToTimes, Waits, NextChange,
     Orphaned, Dead, Uncertain, Expired, Ready
<1>3. NextChange(l, u) = NextChange(l, t)
  BY <1>2 DEF NextChange
<1> QED  BY <1>2, <1>3

\* The delay of the controller ends with the state.
LEMMA WaitsForChange ==
  ASSUME NEW l \in Lease, NEW t \in Int, l.complete
  PROVE  /\ ToState(l, Name, t) = Ready => t + ToTimes(l, t).ToExpired = NextChange(l, t)
         /\ ToState(l, Name, t) = Expired => t + ToTimes(l, t).ToUncertain = NextChange(l, t)
         /\ ToState(l, Name, t) = Dead => t + ToTimes(l, t).ToOrphaned = NextChange(l, t)
<1>1. l.renewTime \in Int /\ l.duration \in Nat
  BY DEF Lease
<1>2. /\ ToTimes(l, t).ToExpired = (l.renewTime + l.duration) - t
      /\ ToTimes(l, t).ToUncertain = (l.renewTime + l.duration) - t + l.duration
      /\ ToTimes(l, t).ToOrphaned = (l.renewTime + l.duration) - t + leaseTTL
  BY DEF ToTimes
<1>3. /\ ToState(l, Name, t) = Ready => NextChange(l, t) = l.renewTime + l.duration
      /\ ToState(l, Name, t) = Expired => NextChange(l, t) = l.renewTime + l.duration + l.duration
      /\ ToState(l, Name, t) = Dead => NextChange(l, t) = l.renewTime + l.duration + leaseTTL
  BY <1>1, LeasesAssumption DEF NextChange, Ready, Expired, Dead
<1> QED  BY <1>1, <1>2, <1>3, LeasesAssumption

\* A write of a leader election record keeps the label.
LEMMA WriteHeld ==
  ASSUME NEW l \in Lease, NEW h \in {Name, Sharder, NoHolder}, NEW t \in Int, NEW d \in Nat,
         rev \in Nat, Write(Held(l, h, t, d))
  PROVE  /\ lease' \in Lease /\ lease'.rv = rev + 1 /\ lease'.label = l.label
         /\ lease'.holder = h /\ lease'.renewTime = t /\ lease'.duration = d /\ lease'.complete
<1>1. /\ Held(l, h, t, d) \in Lease /\ Held(l, h, t, d).label = l.label
      /\ Held(l, h, t, d).holder = h /\ Held(l, h, t, d).renewTime = t
      /\ Held(l, h, t, d).duration = d /\ Held(l, h, t, d).complete
  BY DEF Held, Lease
<1>2. ASSUME NEW x \in Lease, Write(x) PROVE lease'.label = x.label
  BY <1>2 DEF Write, Lease
<1> QED  BY <1>1, <1>2, WriteTyped

\* A new version keeps the order if its stamp does.
LEMMA OrderWrite ==
  ASSUME IndInv, Stamped, InOrder, TypeOK', UNCHANGED <<now, skew, attempt, ll, observedAt>>,
         late' \subseteq late, call' = call \/ call' = [call EXCEPT !.landed = rev + 1],
         lease'.rv = rev + 1, Shape(lease'),
         lease'.renewTime <= IF lease'.holder = Sharder THEN now ELSE now + skew,
         attempt # Never /\ lease'.holder # Sharder => lease'.renewTime <= attempt + skew,
         call' # call => lease'.holder = Name /\ lease'.renewTime = attempt + skew
  PROVE  Stamped' /\ InOrder'
<1>1. /\ rev \in Nat /\ ll.rv <= rev /\ ll.rv \in Nat /\ call \in Call /\ call.rv <= rev
      /\ call.landed <= rev /\ late \subseteq Request /\ \A r \in late : r.rv <= rev
      /\ lease'.rv \in Nat
  BY DEF IndInv, TypeOK, VersionsBounded, Lease
<1>2. Stamped'
  BY DEF Stamped, Shape, Exists
<1>3. call'.landed = lease'.rv => lease'.holder = Name /\ lease'.renewTime = attempt + skew
  BY <1>1 DEF Call
<1>4. call'.rv = call.rv
  BY <1>1 DEF Call
<1>5. \A r \in late' : r.rv # lease'.rv
  BY <1>1 DEF Request
<1>6. attempt # Never => \A r \in late' : r.stamp <= attempt + skew
  BY DEF InOrder
<1>7. Exists(ll) /\ ll.holder = Sharder => ll.renewTime <= observedAt
  BY DEF InOrder
<1>8. lease'.holder = Name => lease'.duration = LeaseDuration
  BY DEF Shape
<1>9. ll.rv # lease'.rv /\ call'.rv # lease'.rv
  BY <1>1, <1>4 DEF Call
<1> QED  BY <1>2, <1>3, <1>5, <1>6, <1>7, <1>8, <1>9 DEF InOrder, Exists

\* Steps of the shard that leave the lease alone keep the order if what they
\* send is in order.
LEMMA OrderQuiet ==
  ASSUME IndInv, Stamped, InOrder, UNCHANGED <<now, skew, lease>>,
         attempt' \in {attempt, Never, now},
         \A r \in late' : r \in late \/
           /\ r.stamp <= now + skew
           /\ attempt' # Never => r.stamp <= attempt' + skew
           /\ Exists(lease) /\ r.rv = lease.rv => Mark(lease) <= r.stamp,
         \/ UNCHANGED <<call, attempt>>
         \/ /\ call'.landed = 0
            /\ Exists(lease) /\ call'.kind = "update" /\ call'.rv = lease.rv =>
                 attempt' # Never /\ Mark(lease) <= attempt' + skew,
         Exists(ll') /\ ll'.holder = Sharder => ll'.renewTime <= observedAt',
         Exists(lease) /\ ll'.rv = lease.rv => SameRecord(ll', lease)
  PROVE  Stamped' /\ InOrder'
<1>1. Stamped'
  BY DEF Stamped, Shape, Exists
<1>2. attempt' # Never =>
        /\ \A r \in late' : r.stamp <= attempt' + skew
        /\ Exists(lease) /\ lease.holder # Sharder => lease.renewTime <= attempt' + skew
  BY DEF Stamped, InOrder
<1>3. Exists(lease) =>
        /\ call'.landed = lease.rv => /\ lease.holder = Name /\ lease.duration = LeaseDuration
                                      /\ lease.renewTime = attempt' + skew
        /\ call'.kind = "update" /\ call'.landed = 0 /\ call'.rv = lease.rv =>
             attempt' # Never /\ Mark(lease) <= attempt' + skew
        /\ \A r \in late' : r.rv = lease.rv => Mark(lease) <= r.stamp
  BY DEF InOrder, Exists
<1> QED  BY <1>1, <1>2, <1>3 DEF InOrder, Exists, Mark, SameRecord

\* Every step of the shard keeps the order.
LEMMA OrderShard ==
  ASSUME IndInv, Stamped, InOrder, ShardNext, TypeOK', ReleaseInTime
  PROVE  Stamped' /\ InOrder'
<1>1. /\ now \in Nat /\ skew \in Int /\ attempt \in Nat \cup {Never} /\ attempt <= now
      /\ lease \in Lease /\ ll \in Lease /\ rev \in Nat /\ LeaseDuration \in Nat
      /\ call \in Call /\ lease.rv \in Nat /\ lease.renewTime \in Int /\ lease.duration \in Nat
      /\ observedAt \in Nat /\ NoLease \in Lease /\ late \subseteq Request
  BY NoLeaseTyped, TimingAssumption DEF IndInv, TypeOK, ReadBefore, Lease
<1>2. NoLease.rv = 0 /\ ~Exists(NoLease) /\ NoCall.landed = 0 /\ NoCall.kind = "none"
  BY NoLeaseTyped, CallTyped
<1>3. /\ Exists(ll) /\ ll.holder = Sharder => ll.renewTime <= observedAt
      /\ Exists(lease) /\ ll.rv = lease.rv => SameRecord(ll, lease)
  BY DEF InOrder
<1>4. Exists(lease) => lease.rv # NoLease.rv
  BY <1>2 DEF Exists
<1>5. ASSUME KeepLate(Leftover)
      PROVE  \A r \in late' : r \in late \/
               /\ r.stamp <= now + skew /\ r.stamp = attempt + skew
               /\ Exists(lease) /\ r.rv = lease.rv => Mark(lease) <= r.stamp
  <2> SUFFICES ASSUME NEW r \in late', r \notin late
               PROVE  /\ r.stamp <= now + skew /\ r.stamp = attempt + skew
                      /\ Exists(lease) /\ r.rv = lease.rv => Mark(lease) <= r.stamp
    OBVIOUS
  <2>1. r \in Leftover
    BY <1>5 DEF KeepLate
  <2>2. call.kind = "update" /\ call.landed = 0 /\ r.rv = call.rv /\ r.stamp = attempt + skew
    BY <2>1 DEF Leftover
  <2> QED  BY <1>1, <2>2 DEF InOrder, Never
<1>6. ASSUME CallFailed
      PROVE call' = NoCall /\ attempt' \in {attempt, Never}
  BY <1>6 DEF CallFailed, EndAttempt
<1>7. ASSUME Down,
             \A r \in late' : r \in late \/
               /\ r.stamp <= now + skew
               /\ Exists(lease) /\ r.rv = lease.rv => Mark(lease) <= r.stamp
      PROVE  Stamped' /\ InOrder'
  BY <1>2, <1>4, <1>7, OrderQuiet DEF Down
<1>8. ASSUME CallFailed, UNCHANGED <<now, skew, lease, ll, observedAt, late>>
      PROVE  Stamped' /\ InOrder'
  BY <1>2, <1>3, <1>6, <1>8, OrderQuiet
<1>9. CASE Start
  BY <1>2, <1>4, <1>9, OrderQuiet DEF Start
<1>10. CASE BeginAttempt
  <2>1. ASSUME Exists(lease), call'.kind = "update", call'.rv = lease.rv
        PROVE  Mark(lease) <= now + skew
    <3>1. ll.rv = lease.rv /\ ll.holder = Name
      BY <1>2, <1>10, <2>1 DEF BeginAttempt, IsLeader
    <3>2. lease.holder = Name
      BY <1>3, <2>1, <3>1 DEF SameRecord
    <3> QED  BY <2>1, <3>2, NamesAssumption DEF Mark, Stamped
  <2>2. call'.landed = 0 /\ attempt' = now /\ now # Never
    BY <1>1, <1>2, <1>10 DEF BeginAttempt, Never
  <2>3. UNCHANGED <<now, skew, lease, ll, observedAt, late>>
    BY <1>10 DEF BeginAttempt
  <2>4. \A r \in late' : r \in late
    BY <2>3
  <2> QED  BY <1>3, <2>1, <2>2, <2>3, <2>4, OrderQuiet
<1>11. CASE GetLease
  <2>1. UNCHANGED <<now, skew, lease, late>> /\ attempt # Never /\ attempt' \in {attempt, Never}
    BY <1>11 DEF GetLease, EndAttempt, Attempting
  <2>2. CASE Exists(lease)
    <3>1. SameRecord(ll', lease) /\ ll'.holder = lease.holder /\ ll'.renewTime = lease.renewTime
      BY <1>1, <1>11, <2>2 DEF GetLease, SameRecord, Lease
    <3>2. lease.holder = Sharder => lease.renewTime <= observedAt'
      BY <1>1, <1>3, <1>11, <2>2 DEF GetLease, SameRecord, Stamped
    <3>3. ASSUME call'.kind = "update"
          PROVE  attempt' # Never /\ Mark(lease) <= attempt' + skew
      <4>1. /\ lease.holder \in {Name, NoHolder} \/ ~LeaseValid(observedAt', lease, attempt)
            /\ attempt' = attempt
        BY <1>2, <1>11, <2>2, <3>3 DEF GetLease, EndAttempt
      <4>2. CASE lease.holder # Sharder
        BY <2>1, <2>2, <4>1, <4>2 DEF InOrder, Mark
      <4>3. CASE lease.holder = Sharder
        <5>1. observedAt' + lease.duration <= attempt
          BY <1>1, <4>1, <4>3, NamesAssumption DEF LeaseValid, TypeOK
        <5>2. observedAt' \in Nat
          BY DEF TypeOK
        <5> QED  BY <1>1, <2>1, <3>2, <4>1, <4>3, <5>1, <5>2 DEF Mark, Never
      <4> QED  BY <4>2, <4>3
    <3>4. call'.landed = 0
      BY <1>2, <1>11, <2>2 DEF GetLease, EndAttempt
    <3> QED  BY <2>1, <3>1, <3>2, <3>3, <3>4, OrderQuiet
  <2>3. CASE ~Exists(lease)
    <3>1. call'.landed = 0 /\ UNCHANGED <<ll, observedAt>>
      BY <1>11, <2>3 DEF GetLease
    <3> QED  BY <1>3, <2>1, <2>3, <3>1, OrderQuiet
  <2> QED  BY <2>2, <2>3
<1>12. ASSUME NEW l \in Lease, Write(Held(l, Name, attempt + skew, LeaseDuration)),
              call' = [call EXCEPT !.landed = rev + 1], attempt # Never,
              UNCHANGED <<now, skew, attempt, ll, observedAt, late>>
       PROVE  Stamped' /\ InOrder'
  <2>1. attempt + skew \in Int
    BY <1>1, <1>12 DEF Never
  <2>2. /\ lease'.rv = rev + 1 /\ lease'.holder = Name /\ lease'.renewTime = attempt + skew
        /\ lease'.duration = LeaseDuration /\ lease'.complete
    BY <1>1, <1>12, <2>1, WriteHeld
  <2>3. Shape(lease')
    BY <2>2, NamesAssumption DEF Shape
  <2>4. lease'.renewTime <= now + skew /\ lease'.holder # Sharder
    BY <1>1, <1>12, <2>2, NamesAssumption DEF Never
  <2> QED  BY <1>1, <1>12, <2>1, <2>2, <2>3, <2>4, OrderWrite
<1>13. CASE LandUpdate
  <2>1. CASE VersionMatches(call.rv)
    BY <1>1, <1>12, <1>13, <2>1 DEF LandUpdate, Attempting
  <2>2. CASE ~VersionMatches(call.rv)
    BY <1>8, <1>13, <2>2 DEF LandUpdate
  <2> QED  BY <2>1, <2>2
<1>14. CASE LandCreate
  <2>1. CASE ~Exists(lease)
    BY <1>1, <1>12, <1>14, <2>1 DEF LandCreate, Attempting
  <2>2. CASE Exists(lease)
    BY <1>8, <1>14, <2>2 DEF LandCreate
  <2> QED  BY <2>1, <2>2
<1>15. CASE Respond
  <2>1. attempt + skew \in Int
    BY <1>1, <1>15 DEF Respond, Attempting, Never
  <2>2. /\ ll'.rv = call.landed /\ ll'.holder = Name /\ ll'.renewTime = attempt + skew
        /\ ll'.duration = LeaseDuration
    <3> DEFINE h == Held(NoLease, Name, attempt + skew, LeaseDuration)
    <3>1. /\ h \in Lease /\ h.holder = Name /\ h.renewTime = attempt + skew
          /\ h.duration = LeaseDuration
      BY <1>1, <2>1, HeldTyped
    <3>2. ll' = [h EXCEPT !.rv = call.landed]
      BY <1>15 DEF Respond
    <3> HIDE DEF h
    <3> QED  BY <3>1, <3>2 DEF Lease
  <2>3. Exists(lease) /\ ll'.rv = lease.rv => SameRecord(ll', lease)
    BY <2>2 DEF InOrder, SameRecord
  <2>4. UNCHANGED <<now, skew, lease, late>> /\ call' = NoCall /\ attempt' = Never
    BY <1>15 DEF Respond, EndAttempt
  <2> QED  BY <1>2, <2>2, <2>3, <2>4, NamesAssumption, OrderQuiet
<1>16. CASE Timeout
  <2>1. call' = NoCall /\ attempt' \in {attempt, Never}
    BY <1>6, <1>16 DEF Timeout, EndAttempt
  <2>2. UNCHANGED <<now, skew, lease, ll, observedAt>> /\ KeepLate(Leftover)
    BY <1>16 DEF Timeout
  <2>3. \A r \in late' : r \in late \/
           /\ r.stamp <= now + skew
           /\ attempt' # Never => r.stamp <= attempt' + skew
           /\ Exists(lease) /\ r.rv = lease.rv => Mark(lease) <= r.stamp
    BY <1>1, <1>5, <2>1, <2>2 DEF Never
  <2> QED  BY <1>2, <1>3, <2>1, <2>2, <2>3, OrderQuiet
<1>17. CASE Crash
  BY <1>5, <1>7, <1>17 DEF Crash
<1>a. ASSUME NEW p \in {"releasing", "stopping"}, EndLeading(p) PROVE Stamped' /\ InOrder'
  <2>1. UNCHANGED <<now, skew, lease, ll, observedAt>> /\ call' = NoCall /\ attempt' = Never
    BY <1>a DEF EndLeading
  <2>2. \A r \in late' : r \in late \/
           /\ r.stamp <= now + skew
           /\ Exists(lease) /\ r.rv = lease.rv => Mark(lease) <= r.stamp
    BY <1>5, <1>a DEF EndLeading
  <2> QED  BY <1>2, <1>3, <2>1, <2>2, OrderQuiet
<1>18. CASE GiveUp
  BY <1>18, <1>a DEF GiveUp
<1>19. CASE Stop
  BY <1>19, <1>a DEF Stop
<1>21. CASE Release
  <2> DEFINE q == [kind |-> "release", rv |-> lease.rv, stamp |-> now + skew]
  <2>1. /\ KeepLate({q}) /\ ll' = NoLease /\ attempt = Never
        /\ UNCHANGED <<now, skew, lease, observedAt, attempt, call>>
    BY <1>21 DEF Release, IndInv, LandedAttempt
  <2>2. \A r \in late' : r \in late \/ r = q
    BY <2>1 DEF KeepLate
  <2>3. Mark(lease) <= now + skew
    <3>1. Exists(lease) /\ lease.holder # Sharder
      BY <1>21, NamesAssumption DEF Release, IndInv, ReleaserInTime
    <3> QED  BY <3>1 DEF Mark, Stamped
  <2>4. q.stamp = now + skew /\ q.stamp <= now + skew
    BY <1>1
  <2> HIDE DEF q
  <2> QED  BY <1>2, <1>4, <2>1, <2>2, <2>3, <2>4, OrderQuiet
<1>22. CASE Exit
  BY <1>7, <1>22 DEF Exit
<1>20. CASE LandLate
  <2>1. PICK r \in late :
          /\ VersionMatches(r.rv)
          /\ Write(IF r.kind = "release" THEN Held(lease, NoHolder, r.stamp, 1)
                                         ELSE Held(lease, Name, r.stamp, LeaseDuration))
          /\ late' = late \ {r}
          /\ UNCHANGED <<now, skew, ring, sharderVars, proc, starts, electorVars>>
    BY <1>20 DEF LandLate
  <2>2. r.stamp \in Int
    BY <1>1 DEF Request
  <2>3. /\ lease'.rv = rev + 1 /\ lease'.renewTime = r.stamp /\ lease'.complete
        /\ \/ lease'.holder = NoHolder /\ lease'.duration = 1
           \/ lease'.holder = Name /\ lease'.duration = LeaseDuration
    <3>1. CASE r.kind = "release"
      BY <1>1, <2>1, <2>2, <3>1, WriteHeld
    <3>2. CASE r.kind # "release"
      BY <1>1, <2>1, <2>2, <3>2, WriteHeld
    <3> QED  BY <3>1, <3>2
  <2>4. Shape(lease') /\ lease'.holder # Sharder
    BY <2>3, NamesAssumption DEF Shape
  <2>5. r.stamp <= now + skew /\ (attempt # Never => r.stamp <= attempt + skew)
    BY DEF Stamped, InOrder
  <2> QED  BY <2>1, <2>3, <2>4, <2>5, OrderWrite DEF electorVars
<1> QED  BY <1>9, <1>10, <1>11, <1>13, <1>14, <1>15, <1>16, <1>17, <1>18, <1>19, <1>20,
               <1>21, <1>22 DEF ShardNext, ElectorNext

\* What the shard writes comes after what it overwrites and keeps the label.
LEMMA ShardWrites ==
  ASSUME IndInv, Stamped, InOrder, ShardNext
  PROVE  /\ UNCHANGED <<now, skew, ring, sharderVars>>
         /\ \/ lease' = lease
            \/ /\ lease'.rv = rev + 1 /\ lease'.holder # Sharder
               /\ Exists(lease) => lease'.label = lease.label /\ Mark(lease) <= lease'.renewTime
<1>1. /\ attempt # Never => attempt + skew \in Int
      /\ lease \in Lease /\ NoLease \in Lease /\ rev \in Nat /\ LeaseDuration \in Nat
      /\ late \subseteq Request
  BY NoLeaseTyped, TimingAssumption DEF IndInv, TypeOK
<1>2. UNCHANGED <<now, skew, ring, sharderVars>>
  BY DEF ShardNext, ElectorNext, Start, BeginAttempt, GetLease, LandUpdate, LandCreate, Respond,
     Timeout, Crash, GiveUp, Stop, EndLeading, Release, Exit, Down, LandLate
<1>3. ASSUME LandUpdate, lease' # lease
      PROVE  /\ lease'.rv = rev + 1 /\ lease'.holder # Sharder
             /\ lease'.label = lease.label /\ Mark(lease) <= lease'.renewTime
  <2>1. /\ attempt # Never /\ call.kind = "update" /\ call.landed = 0 /\ VersionMatches(call.rv)
        /\ Write(Held(lease, Name, attempt + skew, LeaseDuration))
    BY <1>3 DEF LandUpdate, Attempting
  <2>2. Mark(lease) <= attempt + skew
    BY <2>1 DEF InOrder, VersionMatches
  <2> QED  BY <1>1, <2>1, <2>2, WriteHeld, NamesAssumption
<1>4. ASSUME LandCreate, lease' # lease
      PROVE  ~Exists(lease) /\ lease'.rv = rev + 1 /\ lease'.holder # Sharder
  <2>1. /\ attempt # Never /\ ~Exists(lease)
        /\ Write(Held(NoLease, Name, attempt + skew, LeaseDuration))
    BY <1>4 DEF LandCreate, Attempting
  <2> QED  BY <1>1, <2>1, WriteHeld, NamesAssumption
<1>5. ASSUME LandLate
      PROVE  /\ lease'.rv = rev + 1 /\ lease'.holder # Sharder
             /\ lease'.label = lease.label /\ Mark(lease) <= lease'.renewTime
  <2>1. PICK r \in late :
          /\ VersionMatches(r.rv)
          /\ Write(IF r.kind = "release" THEN Held(lease, NoHolder, r.stamp, 1)
                                         ELSE Held(lease, Name, r.stamp, LeaseDuration))
    BY <1>5 DEF LandLate
  <2>2. r.stamp \in Int
    BY <1>1 DEF Request
  <2>3. Mark(lease) <= r.stamp
    BY <2>1 DEF InOrder, VersionMatches
  <2>4. CASE r.kind = "release"
    BY <1>1, <2>1, <2>2, <2>3, <2>4, WriteHeld, NamesAssumption
  <2>5. CASE r.kind # "release"
    BY <1>1, <2>1, <2>2, <2>3, <2>5, WriteHeld, NamesAssumption
  <2> QED  BY <2>4, <2>5
<1> QED  BY <1>2, <1>3, <1>4, <1>5 DEF ShardNext, ElectorNext, Start, BeginAttempt, GetLease,
            Respond, Timeout, Crash, GiveUp, Stop, EndLeading, Release, Exit, Down

\* What the sharder writes: the label, its own lease record, or nothing more.
LEMMA SharderWrites ==
  ASSUME IndInv, Stamped, SharderNext
  PROVE  /\ UNCHANGED <<now, skew, shardVars>>
         /\ \/ lease' = lease
            \/ ActDelete /\ lease' = NoLease /\ tomb'
            \/ /\ MaintainLabel /\ Exists(lease) /\ rec.lease = lease /\ lease'.rv = rev + 1
               /\ lease'.label = State /\ lease'.complete = lease.complete
               /\ SameRecord(lease', lease)
            \/ /\ ActAcquire /\ Exists(lease) /\ rec.lease = lease /\ lease'.rv = rev + 1
               /\ lease'.label = lease.label /\ lease'.complete /\ lease.holder = Name
               /\ lease.renewTime + 2 * LeaseDuration <= rec.at /\ lease'.holder = Sharder
               /\ lease'.renewTime = rec.at /\ lease'.duration = 2 * LeaseDuration
<1>1. /\ lease \in Lease /\ rev \in Nat /\ rec \in Rec /\ rec.at \in Nat /\ rec.lease \in Lease
      /\ LeaseDuration \in Nat /\ 2 * LeaseDuration \in Nat
  BY TimingAssumption DEF IndInv, TypeOK, Rec
<1>2. UNCHANGED <<now, skew, shardVars>>
  BY DEF SharderNext, Reconcile, Deliver, Wake, CreateRing, RestartSharder, ReconcileRead,
     MaintainLabel, ActWait, ActAcquire, ActDelete
<1>3. VersionMatches(rec.lease.rv) => Exists(lease) /\ rec.lease = lease
  BY DEF VersionMatches, IndInv, CopiesAgree
<1>4. ASSUME MaintainLabel, lease' # lease
      PROVE  /\ Exists(lease) /\ rec.lease = lease /\ lease'.rv = rev + 1
             /\ lease'.label = State /\ lease'.complete = lease.complete
             /\ SameRecord(lease', lease)
  <2>1. VersionMatches(rec.lease.rv) /\ Write([lease EXCEPT !.label = State])
    BY <1>4 DEF MaintainLabel
  <2> QED  BY <1>1, <1>3, <2>1 DEF Write, SameRecord, Lease
<1>5. ASSUME ActAcquire, lease' # lease
      PROVE  /\ Exists(lease) /\ rec.lease = lease /\ lease'.rv = rev + 1
             /\ lease'.label = lease.label /\ lease'.complete /\ lease.holder = Name
             /\ lease.renewTime + 2 * LeaseDuration <= rec.at /\ lease'.holder = Sharder
             /\ lease'.renewTime = rec.at /\ lease'.duration = 2 * LeaseDuration
  <2>1. /\ VersionMatches(rec.lease.rv) /\ State = Uncertain
        /\ Write(Held(rec.lease, Sharder, rec.at, 2 * Times.LeaseDuration))
    BY <1>5 DEF ActAcquire
  <2>2. lease.complete
    BY <1>3, <2>1 DEF Stamped, Shape
  <2>3. lease.holder = Name /\ lease.renewTime + 2 * lease.duration <= rec.at
    BY <1>1, <1>3, <2>1, <2>2, UncertainLate DEF State
  <2>4. lease.duration = LeaseDuration /\ Times.LeaseDuration = LeaseDuration
    BY <1>3, <2>1, <2>2, <2>3 DEF IndInv, HeldDuration, Times, ToTimes
  <2> QED  BY <1>1, <1>3, <2>1, <2>3, <2>4, WriteHeld
<1>6. ActDelete => lease' = lease \/ (lease' = NoLease /\ tomb')
  BY DEF ActDelete
<1> QED  BY <1>2, <1>4, <1>5, <1>6 DEF SharderNext, Reconcile, Deliver, Wake, CreateRing,
            RestartSharder, ReconcileRead, ActWait

\* The sharder keeps the order.
LEMMA OrderSharder ==
  ASSUME IndInv, Stamped, InOrder, SharderNext, TypeOK'
  PROVE  Stamped' /\ InOrder'
<1>1. UNCHANGED <<now, skew, attempt, call, ll, observedAt, late>>
  BY SharderWrites DEF shardVars, electorVars
<1>2. /\ Exists(ll) /\ ll.holder = Sharder => ll.renewTime <= observedAt
      /\ Exists(lease) /\ ll.rv = lease.rv => SameRecord(ll, lease)
  BY DEF InOrder
<1>3. CASE lease' = lease
  BY <1>1, <1>2, <1>3, OrderQuiet
<1>4. CASE lease' = NoLease
  BY <1>1, <1>4, NoLeaseTyped DEF Stamped, InOrder, Exists
<1>5. CASE /\ Exists(lease) /\ lease'.rv = rev + 1
           /\ lease'.complete = lease.complete /\ SameRecord(lease', lease)
  <2>1. /\ Shape(lease)
        /\ lease.renewTime <= IF lease.holder = Sharder THEN now ELSE now + skew
        /\ attempt # Never /\ lease.holder # Sharder => lease.renewTime <= attempt + skew
    BY <1>5 DEF Stamped, InOrder
  <2> QED  BY <1>1, <1>5, <2>1, OrderWrite DEF Shape, SameRecord
<1>6. CASE /\ lease'.rv = rev + 1 /\ lease'.complete /\ lease'.holder = Sharder
           /\ lease'.renewTime = rec.at /\ lease'.duration = 2 * LeaseDuration
  <2>1. rec.at <= now
    BY DEF IndInv, ReadBefore
  <2>2. Shape(lease')
    BY <1>6, NamesAssumption DEF Shape
  <2> QED  BY <1>1, <1>6, <2>1, <2>2, OrderWrite
<1> QED  BY <1>3, <1>4, <1>5, <1>6, SharderWrites

\* Time keeps the order.
LEMMA OrderTick ==
  ASSUME IndInv, Stamped, InOrder, Tick
  PROVE  Stamped' /\ InOrder'
<1>1. /\ now \in Nat /\ skew \in Int /\ lease.renewTime \in Int /\ \A r \in late : r.stamp \in Int
      /\ now' = now + 1 /\ late' \subseteq late
      /\ UNCHANGED <<skew, lease, attempt, call, ll, observedAt>>
  BY DEF IndInv, TypeOK, Lease, Request, Tick, electorVars
<1>2. Stamped'
  BY <1>1 DEF Stamped, Shape, Exists
<1>3. InOrder'
  BY <1>1 DEF InOrder, Exists, SameRecord, Mark
<1> QED  BY <1>2, <1>3

\* The sharder's copies stay behind, whatever the shard writes.
LEMMA BehindShard ==
  ASSUME IndInv, Stamped, InOrder, CopiesBehind, ShardNext, TypeOK'
  PROVE  CopiesBehind'
<1>1. /\ UNCHANGED <<skew, cache, tomb, rec>> /\ skew \in Int
      /\ lease \in Lease /\ cache \in Lease /\ lease' \in Lease /\ rec.lease \in Lease
      /\ cache.rv <= rev /\ rec.lease.rv <= rev /\ rev \in Nat
  BY ShardWrites DEF sharderVars, IndInv, TypeOK, VersionsBounded, Rec
<1>2. CASE lease' = lease
  BY <1>1, <1>2 DEF CopiesBehind, Exists, Shape, Before, Mark
<1>3. CASE /\ lease'.rv = rev + 1 /\ lease'.holder # Sharder
           /\ Exists(lease) => Mark(lease) <= lease'.renewTime
  <2>1. /\ cache.rv \in Nat /\ rec.lease.rv \in Nat /\ Mark(cache) \in Int /\ Mark(lease) \in Int
        /\ lease'.renewTime \in Int
    BY <1>1 DEF Lease, Mark
  <2>2. cache.rv <= lease'.rv /\ rec.lease.rv <= lease'.rv
    BY <1>1, <1>3, <2>1
  <2>3. Exists(cache) /\ ~tomb => Mark(cache) <= lease'.renewTime
    BY <1>3, <2>1 DEF CopiesBehind, Before
  <2>4. Exists(lease')
    BY <1>1, <1>3 DEF Exists
  <2> QED  BY <1>1, <1>3, <2>2, <2>3, <2>4 DEF CopiesBehind, Exists, Shape, Before, Mark
<1> QED  BY <1>2, <1>3, ShardWrites

\* The sharder's copies stay behind, whatever it reads and writes.
LEMMA BehindSharder ==
  ASSUME IndInv, Stamped, InOrder, CopiesBehind, SharderNext, TypeOK'
  PROVE  CopiesBehind'
<1>1. /\ skew' = skew /\ skew \in Int /\ skew >= -MaxSkew /\ rec \in Rec
      /\ lease \in Lease /\ cache \in Lease /\ lease' \in Lease /\ rec.lease \in Lease
      /\ cache.rv <= rev /\ rec.lease.rv <= rev /\ rev \in Nat
  BY SharderWrites, TimingAssumption DEF IndInv, TypeOK, VersionsBounded, Rec
<1>2. /\ cache.rv \in Nat /\ rec.lease.rv \in Nat /\ lease.rv \in Nat /\ Mark(cache) \in Int
      /\ Mark(lease) \in Int /\ lease.renewTime \in Int /\ lease'.renewTime \in Int
      /\ lease.duration \in Nat /\ lease'.duration \in Nat /\ rec.at \in Nat
  BY <1>1 DEF Lease, Mark, Rec
<1>3. /\ Idle.pc = "idle" /\ Idle.lease = NoLease /\ ~Exists(NoLease) /\ NoLease.rv = 0
  BY NoLeaseTyped DEF Idle
<1>4. /\ Exists(lease) => Shape(lease)
      /\ Exists(cache) => Shape(cache)
  BY DEF Stamped, CopiesBehind
<1>5. CASE Deliver
  <2>1. UNCHANGED <<lease, rec>> /\ tomb' = FALSE /\ cache' \in {NoLease, lease}
    BY <1>5 DEF Deliver
  <2>2. Exists(cache') => cache' = lease /\ Exists(lease)
    BY <1>3, <2>1
  <2>3. cache'.rv <= lease.rv
    BY <1>2, <1>3, <2>1
  <2>4. Before(lease, lease)
    BY <1>2 DEF Before
  <2>5. Exists(cache') => Shape(cache') /\ Before(cache', lease)
    BY <1>4, <2>2, <2>4
  <2>6. rec.pc # "idle" => Shape(rec.lease)
    BY DEF CopiesBehind
  <2>7. rec.pc = "label" /\ Exists(cache') => rec.lease.rv <= cache'.rv
    BY <2>2 DEF CopiesBehind
  <2>8. /\ rec.pc = "idle" => rec = Idle
        /\ rec.pc # "idle" /\ Exists(lease) => rec.lease.rv <= lease.rv
    BY DEF CopiesBehind
  <2> QED  BY <1>1, <2>1, <2>2, <2>3, <2>5, <2>6, <2>7, <2>8
              DEF CopiesBehind, Exists, Shape, Before, Mark
<1>6. CASE Wake
  BY <1>1, <1>6 DEF Wake, CopiesBehind, Exists, Shape, Before, Mark
<1>7. CASE CreateRing
  BY <1>1, <1>7 DEF CreateRing, CopiesBehind, Exists, Shape, Before, Mark
<1>8. CASE RestartSharder
  BY <1>1, <1>2, <1>3, <1>8 DEF RestartSharder, CopiesBehind, Exists
<1>9. CASE ReconcileRead
  <2>1. UNCHANGED <<lease, cache, tomb>>
    BY <1>9 DEF ReconcileRead
  <2>2. rec' = Idle \/ (rec'.lease = cache /\ Exists(cache) /\ rec'.pc # "idle")
    BY <1>9 DEF ReconcileRead
  <2> QED  BY <1>1, <1>2, <1>3, <2>1, <2>2 DEF CopiesBehind, Exists, Shape, Before, Mark
<1>10. CASE MaintainLabel
  <2>1. UNCHANGED <<cache, tomb>>
    BY <1>10 DEF MaintainLabel
  <2>2. rec' = Idle \/ (rec'.lease = lease' /\ rec'.pc = "act" /\ lease' # lease)
    <3>1. CASE VersionMatches(rec.lease.rv)
      <4>1. lease'.rv = rev + 1
        BY <1>1, <1>10, <3>1 DEF MaintainLabel, Write, Lease
      <4>2. lease' # lease
        BY <1>1, <1>2, <4>1 DEF IndInv, VersionsBounded
      <4> QED  BY <1>1, <1>10, <3>1, <4>2 DEF MaintainLabel, LoseResponse, ReconcileError, Rec
    <3>2. CASE ~VersionMatches(rec.lease.rv)
      BY <1>10, <3>2 DEF MaintainLabel, ReconcileError
    <3> QED  BY <3>1, <3>2
  <2>3. CASE lease' = lease
    BY <1>1, <1>3, <2>1, <2>2, <2>3 DEF CopiesBehind, Exists, Shape, Before, Mark
  <2>4. CASE lease' # lease
    <3>1. /\ Exists(lease) /\ lease'.rv = rev + 1
          /\ lease'.complete = lease.complete /\ SameRecord(lease', lease)
      BY <1>10, <2>4, SharderWrites DEF MaintainLabel, ActDelete, ActAcquire
    <3>2. Shape(lease')
      BY <1>4, <3>1 DEF Shape, SameRecord
    <3>3. Exists(cache) /\ ~tomb => Before(cache, lease')
      BY <3>1 DEF CopiesBehind, SameRecord, Before, Mark
    <3>4. cache.rv <= lease'.rv /\ Exists(lease')
      BY <1>1, <1>2, <3>1 DEF Exists
    <3>5. Exists(cache) => Shape(cache)
      BY DEF CopiesBehind
    <3>6. lease'.rv <= lease'.rv
      BY <1>1, <3>1
    <3> QED  BY <1>1, <1>3, <2>1, <2>2, <3>2, <3>3, <3>4, <3>5, <3>6
                DEF CopiesBehind, Exists, Shape, Before, Mark
  <2> QED  BY <2>3, <2>4
<1>11. CASE ActWait
  <2>1. UNCHANGED <<lease, cache, tomb>> /\ rec' = Idle
    BY <1>11 DEF ActWait, RequeueAfter
  <2> QED  BY <1>1, <1>3, <2>1 DEF CopiesBehind, Exists, Shape, Before, Mark
<1>12. CASE ActAcquire
  <2>1. UNCHANGED <<cache, tomb>> /\ rec' = Idle
    BY <1>12 DEF ActAcquire, RequeueAfter, LoseResponse, ReconcileError
  <2>2. CASE lease' = lease
    BY <1>1, <1>3, <2>1, <2>2 DEF CopiesBehind, Exists, Shape, Before, Mark
  <2>3. CASE lease' # lease
    <3>1. /\ Exists(lease) /\ lease'.rv = rev + 1 /\ lease.holder = Name
          /\ lease.renewTime + 2 * LeaseDuration <= rec.at /\ lease'.holder = Sharder
          /\ lease'.renewTime = rec.at /\ lease'.duration = 2 * LeaseDuration
      <4>1. ~MaintainLabel /\ ~ActDelete
        BY <1>12 DEF ActAcquire, MaintainLabel, ActDelete, Uncertain, Orphaned
      <4> QED  BY <2>3, <4>1, SharderWrites
    <3>2. Mark(lease) = lease.renewTime /\ Mark(lease') = rec.at + 2 * LeaseDuration + skew
      BY <3>1, NamesAssumption DEF Mark
    <3>3. Exists(cache) /\ ~tomb => Mark(cache) <= lease.renewTime
      BY <3>1, <3>2 DEF CopiesBehind, Before
    <3>4. Exists(cache) /\ ~tomb => Mark(cache) <= Mark(lease') /\ Mark(cache) <= rec.at + skew
      BY <1>1, <1>2, <3>1, <3>2, <3>3, TimingAssumption
    <3>5. cache.holder # Sharder => Mark(cache) = cache.renewTime
      BY DEF Mark
    <3>6. Exists(cache) /\ ~tomb => Before(cache, lease')
      BY <3>1, <3>4, <3>5 DEF Before
    <3>7. cache.rv <= lease'.rv /\ Exists(lease')
      BY <1>1, <1>2, <3>1 DEF Exists
    <3>8. Exists(cache) => Shape(cache)
      BY DEF CopiesBehind
    <3> QED  BY <1>1, <1>3, <2>1, <3>6, <3>7, <3>8 DEF CopiesBehind, Exists, Shape, Before, Mark
  <2> QED  BY <2>2, <2>3
<1>13. CASE ActDelete
  <2>1. cache' = cache /\ rec' = Idle
    BY <1>13 DEF ActDelete, LoseResponse, ReconcileError
  <2>2. (lease' = NoLease /\ tomb') \/ UNCHANGED <<lease, tomb>>
    BY <1>13 DEF ActDelete
  <2> QED  BY <1>1, <1>3, <2>1, <2>2 DEF CopiesBehind, Exists, Shape, Before, Mark
<1> QED  BY <1>5, <1>6, <1>7, <1>8, <1>9, <1>10, <1>11, <1>12, <1>13 DEF SharderNext, Reconcile

\* The shard leaves the label and the sharder's queues alone.
LEMMA LabelledShard ==
  ASSUME IndInv, Stamped, InOrder, CopiesBehind, Labelled, ShardNext
  PROVE  Labelled'
<1>1. UNCHANGED <<now, ring, cache, tomb, queued, wakeAt, rec>>
  BY ShardWrites DEF sharderVars
<1>2. Following' => Following /\ lease'.label = lease.label
  BY <1>1, ShardWrites DEF Following, CopiesBehind, Exists
<1>3. rec.pc # "idle" => rec.at = now /\ ring
  BY DEF Labelled
<1>4. Following' => lease'.label \in {cache.label, ToState(cache, Name, now)}
  BY <1>2 DEF Labelled
<1>5. Following' /\ ring /\ ~queued /\ rec.pc = "idle" =>
        \/ wakeAt # Never /\ wakeAt <= now
        \/ /\ lease'.label = ToState(cache, Name, now)
           /\ Waits(cache, now) => wakeAt # Never /\ wakeAt <= NextChange(cache, now)
  BY <1>2 DEF Labelled
<1>6. Following' /\ ~queued /\ rec.pc = "act" =>
        /\ lease'.label = ToState(cache, Name, now)
        /\ ToState(rec.lease, Name, now) = ToState(cache, Name, now)
        /\ Waits(cache, now) => NextChange(rec.lease, now) <= NextChange(cache, now)
  BY <1>2 DEF Labelled
<1> QED  BY <1>1, <1>3, <1>4, <1>5, <1>6 DEF Labelled, Waits, NextChange

\* A timer that is not due yet leaves the state as it is for another moment.
LEMMA LabelledTick ==
  ASSUME IndInv, CopiesBehind, Labelled, Tick, PromptSharder
  PROVE  Labelled'
<1>1. /\ now' = now + 1 /\ now \in Nat /\ wakeAt \in Nat \cup {Never}
      /\ UNCHANGED <<lease, ring, cache, tomb, queued, wakeAt, rec>>
  BY DEF Tick, sharderVars, IndInv, TypeOK
<1>2. /\ cache = lease /\ ~tomb /\ ~queued /\ rec = Idle
      /\ wakeAt = Never \/ wakeAt > now
  BY DEF Tick, SharderIdle
<1>3. rec'.pc = "idle" /\ rec.pc = "idle"
  BY <1>1, <1>2 DEF Idle
<1>4. Following' <=> Following
  BY <1>1 DEF Following, Exists
<1>5. ASSUME Following, ring
      PROVE  \/ wakeAt # Never /\ wakeAt <= now + 1
             \/ /\ lease.label = ToState(cache, Name, now + 1)
                /\ Waits(cache, now + 1) => wakeAt # Never /\ wakeAt <= NextChange(cache, now + 1)
  <2>1. /\ lease.label = ToState(cache, Name, now)
        /\ Waits(cache, now) => wakeAt # Never /\ wakeAt <= NextChange(cache, now)
    BY <1>1, <1>2, <1>3, <1>5 DEF Labelled
  <2> SUFFICES ASSUME wakeAt # Never => wakeAt > now + 1
               PROVE  /\ lease.label = ToState(cache, Name, now + 1)
                      /\ Waits(cache, now + 1) => wakeAt # Never /\ wakeAt <= NextChange(cache, now + 1)
    BY <1>1
  <2>2. cache \in Lease /\ cache.complete /\ NextChange(cache, now) \in Int
    BY <1>5, LeasesAssumption DEF IndInv, TypeOK, Following, CopiesBehind, Shape, NextChange, Lease
  <2>3. Waits(cache, now) => now + 1 < NextChange(cache, now)
    BY <1>1, <2>1, <2>2
  <2>4. /\ ToState(cache, Name, now + 1) = ToState(cache, Name, now)
        /\ NextChange(cache, now + 1) = NextChange(cache, now)
    BY <1>1, <2>2, <2>3, StateStays
  <2> QED  BY <2>1, <2>4 DEF Waits
<1>6. lease'.label = cache'.label
  BY <1>1, <1>2
<1> QED  BY <1>1, <1>3, <1>4, <1>5, <1>6 DEF Labelled, Waits, NextChange

\* Every step of the sharder keeps its promise: to label the lease with the
\* state of its copy, or to look at it again.
LEMMA LabelledSharder ==
  ASSUME IndInv, Stamped, InOrder, CopiesBehind, Labelled, SharderNext, skew >= -1
  PROVE  Labelled'
<1>1. /\ now' = now /\ now \in Nat /\ skew \in Int /\ skew <= MaxSkew /\ rec \in Rec
      /\ lease \in Lease /\ cache \in Lease /\ rec.lease \in Lease /\ wakeAt \in Nat \cup {Never}
  BY SharderWrites, TimingAssumption DEF IndInv, TypeOK, Rec
<1>2. Idle.pc = "idle" /\ ~Exists(NoLease)
  BY NoLeaseTyped DEF Idle
<1>3. rec.pc # "idle" => rec.at = now /\ ring
  BY DEF Labelled
<1>4. ASSUME queued', rec' = Idle, Following' =>
               lease'.label \in {cache'.label, ToState(cache', Name, now)}
      PROVE  Labelled'
  BY <1>1, <1>2, <1>4 DEF Labelled
<1>5. ASSUME ~Following', rec'.pc # "idle" => rec'.at = now /\ ring'
      PROVE  Labelled'
  BY <1>1, <1>5 DEF Labelled
<1>6. ASSUME UNCHANGED <<lease, cache, tomb>>
      PROVE  Following' => lease'.label \in {cache'.label, ToState(cache', Name, now)}
  BY <1>6 DEF Labelled, Following, Exists
<1>7. CASE Deliver
  <2>1. /\ UNCHANGED <<lease, ring, wakeAt, rec>> /\ tomb' = FALSE
        /\ cache' = IF tomb THEN NoLease ELSE lease
        /\ queued' = (queued \/ LeasePredicate(cache, cache'))
    BY <1>7 DEF Deliver
  <2>2. CASE tomb
    BY <1>2, <1>3, <1>1, <1>5, <2>1, <2>2 DEF Following, Exists
  <2>3. CASE ~tomb
    <3>1. cache' = lease /\ cache' = lease'
      BY <2>1, <2>3
    <3>2. ASSUME Following', ~queued'
          PROVE  /\ Following /\ ~queued /\ ToState(cache, Name, now) = ToState(lease, Name, now)
                 /\ Waits(lease, now) => NextChange(cache, now) <= NextChange(lease, now)
      <4>1. Exists(lease) /\ ~queued /\ ~LeasePredicate(cache, lease)
        BY <2>1, <3>1, <3>2 DEF Following, Exists
      <4>2. Exists(cache) /\ ToState(cache, Name, now) = ToState(lease, Name, now)
        BY <4>1 DEF LeasePredicate
      <4>3. Shape(cache) /\ Shape(lease) /\ Before(cache, lease)
        BY <2>3, <4>1, <4>2 DEF CopiesBehind, Stamped
      <4> QED  BY <1>1, <2>3, <4>1, <4>2, <4>3, LaterChange DEF Following
    <3>3. ASSUME Following', ring, ~queued', rec.pc = "idle"
          PROVE  \/ wakeAt # Never /\ wakeAt <= now
                 \/ /\ lease.label = ToState(lease, Name, now)
                    /\ Waits(lease, now) => wakeAt # Never /\ wakeAt <= NextChange(lease, now)
      <4>1. \/ wakeAt # Never /\ wakeAt <= now
            \/ /\ lease.label = ToState(cache, Name, now)
               /\ Waits(cache, now) => wakeAt # Never /\ wakeAt <= NextChange(cache, now)
        BY <3>2, <3>3 DEF Labelled
      <4>2. NextChange(cache, now) \in Int /\ NextChange(lease, now) \in Int
        BY <1>1, LeasesAssumption DEF NextChange, Lease
      <4> QED  BY <1>1, <3>2, <3>3, <4>1, <4>2 DEF Waits
    <3>4. ASSUME Following', ~queued', rec.pc = "act"
          PROVE  /\ lease.label = ToState(lease, Name, now)
                 /\ ToState(rec.lease, Name, now) = ToState(lease, Name, now)
                 /\ Waits(lease, now) => NextChange(rec.lease, now) <= NextChange(lease, now)
      <4>1. /\ lease.label = ToState(cache, Name, now)
            /\ ToState(rec.lease, Name, now) = ToState(cache, Name, now)
            /\ Waits(cache, now) => NextChange(rec.lease, now) <= NextChange(cache, now)
        BY <3>2, <3>4 DEF Labelled
      <4>2. NextChange(cache, now) \in Int /\ NextChange(lease, now) \in Int
            /\ NextChange(rec.lease, now) \in Int
        BY <1>1, LeasesAssumption DEF NextChange, Lease
      <4> QED  BY <3>2, <3>4, <4>1, <4>2 DEF Waits
    <3> QED  BY <1>1, <1>3, <2>1, <3>1, <3>3, <3>4 DEF Labelled, Waits, NextChange
  <2> QED  BY <2>2, <2>3
<1>8. CASE Wake
  <2>1. UNCHANGED <<lease, ring, cache, tomb, rec>> /\ queued'
    BY <1>8 DEF Wake
  <2> QED  BY <1>1, <1>3, <1>6, <2>1 DEF Labelled
<1>9. CASE CreateRing
  <2>1. UNCHANGED <<lease, cache, tomb, rec>> /\ ring' /\ (Exists(cache) => queued')
    BY <1>9 DEF CreateRing
  <2>2. Following' => queued'
    BY <2>1 DEF Following, Exists
  <2> QED  BY <1>1, <1>3, <1>6, <2>1, <2>2 DEF Labelled
<1>10. CASE RestartSharder
  BY <1>2, <1>5, <1>10 DEF RestartSharder, Following, Exists
<1>11. CASE ReconcileRead
  <2>1. UNCHANGED <<lease, ring, cache, tomb>>
    BY <1>11 DEF ReconcileRead
  <2>2. CASE Exists(cache) /\ ring
    <3>1. /\ rec'.lease = cache /\ rec'.at = now /\ rec'.pc \in {"label", "act"}
          /\ rec'.pc = "act" => cache.label = ToState(cache, Name, now)
      BY <1>11, <2>2 DEF ReconcileRead
    <3>2. Following' => Following
      BY <2>1 DEF Following, Exists
    <3>3. Following' /\ rec'.pc = "act" => lease.label = ToState(cache, Name, now)
      BY <3>1, <3>2 DEF Labelled
    <3>4. NextChange(cache, now) <= NextChange(cache, now)
      BY <1>1, LeasesAssumption DEF NextChange, Lease
    <3> QED  BY <1>1, <1>6, <2>1, <2>2, <3>1, <3>3, <3>4 DEF Labelled, NextChange
  <2>3. CASE ~(Exists(cache) /\ ring)
    <3>1. rec' = Idle
      BY <1>11, <2>3 DEF ReconcileRead
    <3>2. ~(Following' /\ ring')
      BY <2>1, <2>3 DEF Following, Exists
    <3> QED  BY <1>1, <1>2, <1>6, <2>1, <3>1, <3>2 DEF Labelled
  <2> QED  BY <2>2, <2>3
<1>12. CASE MaintainLabel
  <2>1. UNCHANGED <<ring, cache, tomb>> /\ rec.pc = "label"
    BY <1>12 DEF MaintainLabel
  <2>2. CASE lease' = lease
    <3>1. ~VersionMatches(rec.lease.rv)
      <4>1. VersionMatches(rec.lease.rv) => lease'.rv = rev + 1
        BY <1>1, <1>12 DEF MaintainLabel, Write, Lease
      <4> QED  BY <1>1, <2>2, <4>1 DEF IndInv, TypeOK, VersionsBounded, Lease
    <3>2. queued' /\ rec' = Idle
      BY <1>12, <3>1 DEF MaintainLabel, ReconcileError
    <3> QED  BY <1>4, <1>6, <2>1, <2>2, <3>2
  <2>3. CASE lease' # lease
    <3>1. /\ Exists(lease) /\ rec.lease = lease /\ lease'.label = State
          /\ lease'.complete = lease.complete /\ SameRecord(lease', lease)
      BY <1>12, <2>3, SharderWrites DEF MaintainLabel, ActDelete, ActAcquire
    <3>2. Following' => cache = lease
      BY <1>1, <2>1, <3>1 DEF Following, Exists, CopiesBehind, IndInv, CopiesAgree, Lease
    <3>3. State = ToState(lease, Name, now) /\ ring
      BY <1>3, <2>1, <3>1 DEF State
    <3>4. Following' => lease'.label = ToState(cache, Name, now)
      BY <3>1, <3>2, <3>3
    <3>5. /\ ToState(lease', Name, now) = ToState(lease, Name, now)
          /\ NextChange(lease', now) = NextChange(lease, now)
          /\ NextChange(lease, now) \in Int
      <4>1. /\ lease'.holder = lease.holder /\ lease'.renewTime = lease.renewTime
            /\ lease'.duration = lease.duration /\ lease'.complete = lease.complete
        BY <3>1 DEF SameRecord
      <4>2. ToState(lease', Name, now) = ToState(lease, Name, now)
        BY <4>1 DEF ToState, toState, ToTimes
      <4> QED  BY <1>1, <4>1, <4>2, LeasesAssumption DEF NextChange, Lease
    <3>6. \/ queued' /\ rec' = Idle
          \/ rec'.pc = "act" /\ rec'.lease = lease' /\ rec'.at = rec.at
      BY <1>1, <1>12, <2>3 DEF MaintainLabel, LoseResponse, ReconcileError, Rec
    <3>7. CASE queued' /\ rec' = Idle
      BY <1>4, <2>1, <3>4, <3>7
    <3>8. CASE rec'.pc = "act" /\ rec'.lease = lease' /\ rec'.at = rec.at
      <4>1. Following' =>
              /\ lease'.label = ToState(cache, Name, now)
              /\ ToState(rec'.lease, Name, now) = ToState(cache, Name, now)
              /\ NextChange(rec'.lease, now) <= NextChange(cache, now)
        BY <3>2, <3>4, <3>5, <3>8
      <4> QED  BY <1>1, <1>3, <2>1, <3>8, <4>1 DEF Labelled, NextChange
    <3> QED  BY <3>6, <3>7, <3>8
  <2> QED  BY <2>2, <2>3
<1>13. CASE ActWait
  <2>1. /\ UNCHANGED <<lease, ring, cache, tomb, queued>> /\ rec' = Idle /\ rec.pc = "act"
        /\ State \in {Ready, Expired, Dead}
    BY <1>13 DEF ActWait, RequeueAfter
  <2>2. rec.at = now /\ rec.lease.complete /\ State = ToState(rec.lease, Name, now)
        /\ Times = ToTimes(rec.lease, now)
    BY <1>3, <2>1 DEF CopiesBehind, Shape, State, Times
  <2>3. PICK d \in Int : d > 0 /\ RequeueAfter(d) /\ now + d = NextChange(rec.lease, now)
    <3>1. /\ Times.ToExpired \in Int /\ Times.ToUncertain \in Int /\ Times.ToOrphaned \in Int
          /\ State = Ready => Times.ToExpired > 0 /\ now + Times.ToExpired = NextChange(rec.lease, now)
          /\ State = Expired => Times.ToUncertain > 0 /\ now + Times.ToUncertain = NextChange(rec.lease, now)
          /\ State = Dead => Times.ToOrphaned > 0 /\ now + Times.ToOrphaned = NextChange(rec.lease, now)
      BY <1>1, <2>2, StateTyped, WaitPositive, WaitsForChange
    <3> QED  BY <1>13, <2>1, <3>1 DEF ActWait, Ready, Expired, Dead
  <2>4. wakeAt' # Never /\ wakeAt' <= NextChange(rec.lease, now) /\ wakeAt' \in Int
    BY <1>1, <2>3 DEF RequeueAfter, Min2, Never
  <2>5. ASSUME Following, ~queued
        PROVE  /\ lease.label = ToState(cache, Name, now)
               /\ Waits(cache, now) => wakeAt' # Never /\ wakeAt' <= NextChange(cache, now)
    <3>1. /\ lease.label = ToState(cache, Name, now)
          /\ Waits(cache, now) => NextChange(rec.lease, now) <= NextChange(cache, now)
      BY <2>1, <2>5 DEF Labelled
    <3>2. NextChange(cache, now) \in Int /\ NextChange(rec.lease, now) \in Int
      BY <1>1, LeasesAssumption DEF NextChange, Lease
    <3> QED  BY <2>4, <3>1, <3>2
  <2>6. Following' => Following
    BY <2>1 DEF Following, Exists
  <2> QED  BY <1>1, <1>2, <1>6, <2>1, <2>5, <2>6 DEF Labelled, Waits, NextChange
<1>14. CASE ActAcquire
  <2>1. UNCHANGED <<ring, cache, tomb>> /\ rec' = Idle /\ rec.pc = "act" /\ State = Uncertain
    BY <1>14 DEF ActAcquire, RequeueAfter, LoseResponse, ReconcileError
  <2>2. queued' \/ queued' = queued
    BY <1>14 DEF ActAcquire, RequeueAfter, LoseResponse, ReconcileError
  <2>3. lease' = lease \/ (Exists(lease) /\ lease'.label = lease.label)
    <3>1. ~MaintainLabel /\ ~ActDelete
      BY <1>14 DEF ActAcquire, MaintainLabel, ActDelete, Uncertain, Orphaned
    <3> QED  BY <3>1, SharderWrites
  <2>4. Following' => Following /\ lease'.label = lease.label
    BY <2>1, <2>3 DEF Following, Exists
  <2>5. Following' => lease'.label \in {cache'.label, ToState(cache', Name, now)}
    BY <2>1, <2>4 DEF Labelled
  <2>6. CASE queued'
    BY <1>4, <2>1, <2>5, <2>6
  <2>7. CASE queued' = queued /\ ~queued'
    <3>1. Following' =>
            /\ lease'.label = ToState(cache, Name, now)
            /\ ToState(rec.lease, Name, now) = ToState(cache, Name, now)
      BY <2>1, <2>4, <2>7 DEF Labelled
    <3>2. ToState(rec.lease, Name, now) = Uncertain
      BY <1>3, <2>1 DEF State
    <3>3. Following' => ~Waits(cache, now)
      BY <3>1, <3>2 DEF Waits, Uncertain, Ready, Expired, Dead
    <3> QED  BY <1>1, <1>2, <2>1, <2>5, <3>1, <3>3 DEF Labelled, Waits
  <2> QED  BY <2>2, <2>6, <2>7
<1>15. CASE ActDelete
  <2>1. cache' = cache /\ rec' = Idle
    BY <1>15 DEF ActDelete, LoseResponse, ReconcileError
  <2>2. CASE tomb'
    BY <1>2, <1>5, <2>1, <2>2 DEF Following
  <2>3. CASE ~tomb'
    <3>1. queued' /\ UNCHANGED <<lease, tomb>>
      BY <1>15, <2>3 DEF ActDelete, ReconcileError
    <3> QED  BY <1>4, <1>6, <2>1, <3>1
  <2> QED  BY <2>2, <2>3
<1> QED  BY <1>7, <1>8, <1>9, <1>10, <1>11, <1>12, <1>13, <1>14, <1>15 DEF SharderNext, Reconcile

\* The invariant about labels holds in every reachable state.
LEMMA LabelInvariance == Spec => []LabelInv
<1>1. Init => LabelInv
  <2> SUFFICES ASSUME Init PROVE LabelInv
    OBVIOUS
  <2>1. ~Exists(lease) /\ ~Exists(cache) /\ ~Exists(ll) /\ rec = Idle /\ rec.pc = "idle"
    BY NoLeaseTyped DEF Init, Idle
  <2> QED  BY <2>1 DEF Init, LabelInv, Stamped, InOrder, CopiesBehind, Labelled, Following
<1>2. IndInv /\ IndInv' /\ LabelInv /\ [Next]_vars => LabelInv'
  <2> SUFFICES ASSUME IndInv, TypeOK', ReleaseInTime, Stamped, InOrder, CopiesBehind,
                      Punctual => Labelled, [Next]_vars
               PROVE  Stamped' /\ InOrder' /\ CopiesBehind' /\ (Punctual => Labelled)'
    BY DEF IndInv, LabelInv, ReleaseInTime
  <2> USE DEF Punctual
  <2>1. CASE SharderNext
    <3>1. skew' = skew
      BY <2>1, SharderWrites
    <3> QED  BY <2>1, <3>1, OrderSharder, BehindSharder, LabelledSharder
  <2>2. CASE ShardNext
    <3>1. skew' = skew
      BY <2>2, ShardWrites
    <3> QED  BY <2>2, <3>1, OrderShard, BehindShard, LabelledShard
  <2>3. CASE Tick
    <3>1. UNCHANGED <<skew, lease, cache, tomb, rec>>
      BY <2>3 DEF Tick, sharderVars
    <3>2. CopiesBehind'
      BY <3>1 DEF CopiesBehind, Exists, Shape, Before, Mark
    <3> QED  BY <2>3, <3>1, <3>2, OrderTick, LabelledTick
  <2>4. CASE UNCHANGED vars
    <3>1. UNCHANGED <<now, skew, lease, ring, cache, tomb, queued, wakeAt, rec, ll, observedAt,
                      attempt, call, late>>
      BY <2>4 DEF vars, sharderVars, shardVars, electorVars
    <3>2. Stamped' /\ InOrder'
      BY <3>1 DEF Stamped, InOrder, Exists, Shape, Mark, SameRecord
    <3>3. CopiesBehind'
      BY <3>1 DEF CopiesBehind, Exists, Shape, Before, Mark
    <3>4. Labelled => Labelled'
      BY <3>1 DEF Labelled, Following, Exists, Waits, NextChange
    <3> QED  BY <3>1, <3>2, <3>3, <3>4
  <2> QED  BY <2>1, <2>2, <2>3, <2>4 DEF Next, Horizon
<1> QED  BY <1>1, <1>2, Invariance, PTL DEF Spec

\* A sharder that reacts at once keeps the label of the lease equal to its
\* state: its timers are never too late, and LeasePredicate drops no event
\* that changes them, if the shard's clock is behind by at most 1 and releases
\* are over in time.
THEOREM LabelsCurrent == Spec => []LabelCurrent
<1>1. IndInv /\ LabelInv => LabelCurrent
  <2> SUFFICES ASSUME IndInv, LabelInv, Punctual, SharderIdle, ring, Exists(lease)
               PROVE  lease.label = ToState(lease, Name, now)
    BY DEF LabelCurrent
  <2>1. Labelled /\ Following /\ ~queued /\ rec.pc = "idle" /\ cache = lease
    BY DEF LabelInv, Punctual, SharderIdle, Following, Idle
  <2>2. ~(wakeAt # Never /\ wakeAt <= now)
    BY DEF SharderIdle, IndInv, TypeOK, Never
  <2> QED  BY <2>1, <2>2 DEF Labelled
<1> QED  BY <1>1, Invariance, LabelInvariance, PTL

-----------------------------------------------------------------------------
(* Takeover and deletion *)

\* the cached lease was uncertain and is the sharder's by now: whatever the
\* shard writes after that is stamped after the end of the sharder's lease
TakenOver == /\ ToState(cache, Name, now) = Uncertain
             /\ now + 2 * LeaseDuration + skew <= Mark(lease)

\* a sharder with nothing to do waits for a lease that is neither uncertain nor
\* orphaned, or has yet to hear of its own takeover
InTime ==
  Following /\ ring /\ ~queued /\ rec.pc = "idle" =>
    (wakeAt # Never /\ wakeAt <= now) \/ Waits(cache, now) \/ TakenOver

\* What is written after a takeover is neither uncertain nor orphaned.
LEMMA TakenOverWaits ==
  ASSUME lease \in Lease, Shape(lease), now \in Nat, skew \in Int, skew >= -1,
         now + 2 * LeaseDuration + skew <= Mark(lease)
  PROVE  Waits(lease, now)
<1>1. /\ lease.renewTime \in Int /\ lease.duration \in Nat /\ lease.complete
      /\ lease.holder \in {Name, Sharder, NoHolder}
      /\ LeaseDuration \in Nat /\ LeaseDuration > 0 /\ leaseTTL \in Nat /\ leaseTTL > 0
  BY TimingAssumption, LeasesAssumption DEF Lease, Shape
<1>2. /\ ToTimes(lease, now).ToUncertain = (lease.renewTime + lease.duration) - now + lease.duration
      /\ ToTimes(lease, now).ToOrphaned = (lease.renewTime + lease.duration) - now + leaseTTL
  BY <1>1 DEF ToTimes
<1>3. CASE lease.holder = Name
  <2>1. lease.renewTime + 1 >= now + 2 * LeaseDuration
    BY <1>1, <1>3, NamesAssumption DEF Mark
  <2>2. ToTimes(lease, now).ToUncertain > 0
    BY <1>1, <1>2, <2>1
  <2>3. ToState(lease, Name, now) \in {Expired, Ready}
    BY <1>1, <1>2, <1>3, <2>2 DEF ToState, toState
  <2> QED  BY <2>3 DEF Waits
<1>4. CASE lease.holder # Name
  <2>1. lease.renewTime + lease.duration >= now
    <3>1. CASE lease.holder = Sharder
      BY <1>1, <3>1 DEF Mark
    <3>2. CASE lease.holder = NoHolder
      BY <1>1, <3>2, NamesAssumption DEF Mark
    <3> QED  BY <1>1, <1>4, <3>1, <3>2
  <2>2. ToTimes(lease, now).ToOrphaned > 0
    BY <1>1, <1>2, <2>1
  <2>3. ToState(lease, Name, now) = Dead
    BY <1>1, <1>2, <1>4, <2>2 DEF ToState, toState
  <2> QED  BY <2>3 DEF Waits
<1> QED  BY <1>3, <1>4

\* The shard does not bring a lease back that was taken over.
LEMMA InTimeShard ==
  ASSUME IndInv, Stamped, InOrder, CopiesBehind, InTime, ShardNext, TypeOK'
  PROVE  InTime'
<1>1. UNCHANGED <<now, skew, ring, cache, tomb, queued, wakeAt, rec>>
  BY ShardWrites DEF sharderVars
<1>2. Following' => Following
  BY <1>1, ShardWrites DEF Following, CopiesBehind, Exists
<1>3. Following' => Mark(lease) <= Mark(lease')
  <2>1. Mark(lease) \in Int
    BY DEF IndInv, TypeOK, Lease, Mark
  <2> QED  BY <1>2, <2>1, ShardWrites DEF Following, Mark
<1>4. Following' /\ TakenOver => TakenOver'
  <2>1. /\ Mark(lease) \in Int /\ Mark(lease') \in Int /\ now \in Nat /\ skew \in Int
        /\ LeaseDuration \in Nat
    BY TimingAssumption DEF IndInv, TypeOK, Lease, Mark
  <2>2. Mark(lease)' = Mark(lease')
    BY <1>1 DEF Mark
  <2> QED  BY <1>1, <1>3, <2>1, <2>2 DEF TakenOver
<1> QED  BY <1>1, <1>2, <1>4 DEF InTime, Waits

\* The clock advances only when there is nothing to do and the copy is the lease.
LEMMA InTimeTick ==
  ASSUME IndInv, Stamped, CopiesBehind, Labelled, InTime, Tick, PromptSharder, skew >= -1
  PROVE  InTime'
<1>1. /\ now' = now + 1 /\ now \in Nat /\ wakeAt \in Nat \cup {Never} /\ skew \in Int
      /\ UNCHANGED <<lease, ring, cache, tomb, queued, wakeAt, rec>>
  BY TimingAssumption DEF Tick, sharderVars, IndInv, TypeOK
<1>2. /\ cache = lease /\ ~tomb /\ ~queued /\ rec = Idle /\ rec.pc = "idle"
      /\ wakeAt = Never \/ wakeAt > now
  BY DEF Tick, SharderIdle, Idle
<1>3. ASSUME Following, ring
      PROVE  (wakeAt # Never /\ wakeAt <= now + 1) \/ Waits(cache, now + 1)
  <2>1. cache \in Lease /\ Shape(cache) /\ cache.complete /\ NextChange(cache, now) \in Int
    BY <1>3, LeasesAssumption DEF IndInv, TypeOK, Following, CopiesBehind, Shape, NextChange, Lease
  <2>2. Waits(cache, now)
    BY <1>1, <1>2, <1>3, <2>1, TakenOverWaits DEF InTime, TakenOver
  <2>3. wakeAt # Never /\ wakeAt <= NextChange(cache, now)
    BY <1>1, <1>2, <1>3, <2>2 DEF Labelled
  <2> SUFFICES ASSUME wakeAt > now + 1 PROVE Waits(cache, now + 1)
    BY <1>1, <2>3
  <2>4. now + 1 < NextChange(cache, now)
    BY <1>1, <2>1, <2>3
  <2>5. ToState(cache, Name, now + 1) = ToState(cache, Name, now)
    BY <1>1, <2>1, <2>4, StateStays
  <2> QED  BY <2>2, <2>5 DEF Waits
<1>4. Following' <=> Following
  BY <1>1 DEF Following, Exists
<1> QED  BY <1>1, <1>3, <1>4 DEF InTime, Waits

\* The sharder acts on an uncertain or orphaned lease before it is idle.
LEMMA InTimeSharder ==
  ASSUME IndInv, Stamped, InOrder, CopiesBehind, Labelled, InTime, SharderNext, skew >= -1
  PROVE  InTime'
<1>1. /\ now' = now /\ skew' = skew /\ now \in Nat /\ skew \in Int /\ rec \in Rec
      /\ lease \in Lease /\ cache \in Lease /\ LeaseDuration \in Nat
  BY SharderWrites, TimingAssumption DEF IndInv, TypeOK, Rec
<1>2. ~Exists(NoLease)
  BY NoLeaseTyped
<1>3. CASE queued'
  BY <1>3 DEF InTime
<1>4. CASE ~Following' \/ ~ring'
  BY <1>4 DEF InTime
<1>5. CASE rec'.pc # "idle"
  BY <1>5 DEF InTime
<1>6. CASE Deliver
  <2>1. /\ UNCHANGED <<lease, ring, wakeAt, rec>> /\ tomb' = FALSE
        /\ cache' = IF tomb THEN NoLease ELSE lease
        /\ queued' = (queued \/ LeasePredicate(cache, cache'))
    BY <1>6 DEF Deliver
  <2> SUFFICES ASSUME Following', ring, ~queued', rec.pc = "idle"
               PROVE  (wakeAt # Never /\ wakeAt <= now) \/ Waits(lease, now)
    <3>1. Following' => cache' = lease
      BY <1>2, <2>1 DEF Following, Exists
    <3> QED  BY <1>1, <2>1, <3>1 DEF InTime, Waits
  <2>2. cache' = lease /\ ~tomb /\ Exists(lease) /\ ~queued /\ ~LeasePredicate(cache, lease)
    BY <1>2, <2>1 DEF Following, Exists
  <2>3. Exists(cache) /\ ToState(cache, Name, now) = ToState(lease, Name, now)
    BY <2>2 DEF LeasePredicate
  <2>4. (wakeAt # Never /\ wakeAt <= now) \/ Waits(cache, now) \/ TakenOver
    BY <2>2, <2>3 DEF InTime, Following
  <2>5. TakenOver => Waits(lease, now)
    BY <1>1, <2>2, TakenOverWaits DEF TakenOver, Stamped
  <2> QED  BY <2>3, <2>4, <2>5 DEF Waits
<1>7. CASE Wake
  BY <1>3, <1>7 DEF Wake
<1>8. CASE CreateRing
  <2>1. Following' => queued'
    BY <1>8 DEF CreateRing, Following, Exists
  <2> QED  BY <1>3, <1>4, <2>1
<1>9. CASE RestartSharder
  BY <1>2, <1>4, <1>9 DEF RestartSharder, Following, Exists
<1>10. CASE ReconcileRead
  <2>1. UNCHANGED <<ring, cache>>
    BY <1>10 DEF ReconcileRead
  <2>2. CASE Exists(cache) /\ ring
    <3>1. rec'.pc # "idle"
      BY <1>10, <2>2 DEF ReconcileRead
    <3> QED  BY <1>5, <3>1
  <2>3. CASE ~(Exists(cache) /\ ring)
    BY <1>4, <2>1, <2>3 DEF Following, Exists
  <2> QED  BY <2>2, <2>3
<1>11. CASE MaintainLabel
  <2>1. queued' \/ rec'.pc = "act"
    BY <1>1, <1>11 DEF MaintainLabel, LoseResponse, ReconcileError, Rec
  <2> QED  BY <1>3, <1>5, <2>1
<1>12. ASSUME rec.pc = "act", Following, ~queued
       PROVE  ToState(cache, Name, now) = State
  <2>1. rec.at = now
    BY <1>12 DEF Labelled
  <2> QED  BY <1>12, <2>1 DEF Labelled, State
<1>13. CASE ActWait
  <2>1. /\ UNCHANGED <<lease, ring, cache, tomb, queued>> /\ rec.pc = "act"
        /\ State \in {Ready, Expired, Dead}
    BY <1>13 DEF ActWait, RequeueAfter
  <2>2. Following' => Following
    BY <2>1 DEF Following, Exists
  <2>3. Following' /\ ~queued' => Waits(cache, now)
    BY <1>12, <2>1, <2>2 DEF Waits
  <2> QED  BY <1>1, <2>1, <2>3 DEF InTime, Waits
<1>14. CASE ActAcquire
  <2>1. UNCHANGED <<ring, cache, tomb>> /\ rec.pc = "act" /\ State = Uncertain
    BY <1>14 DEF ActAcquire
  <2>2. CASE lease' = lease
    <3>1. ~VersionMatches(rec.lease.rv)
      <4>1. VersionMatches(rec.lease.rv) => lease'.rv = rev + 1
        BY <1>1, <1>14 DEF ActAcquire, Write, Held, Rec, Lease
      <4> QED  BY <1>1, <2>2, <4>1 DEF IndInv, TypeOK, VersionsBounded, Lease
    <3>2. queued'
      BY <1>14, <3>1 DEF ActAcquire, ReconcileError
    <3> QED  BY <1>3, <3>2
  <2>3. CASE lease' # lease
    <3>1. /\ Exists(lease) /\ lease'.holder = Sharder /\ lease'.renewTime = rec.at
          /\ lease'.duration = 2 * LeaseDuration
      BY <1>14, <2>3, SharderWrites DEF ActAcquire, ActDelete, MaintainLabel, Uncertain, Orphaned
    <3>2. Following' => Following
      BY <2>1, <3>1 DEF Following, Exists
    <3>3. queued' \/ queued' = queued
      BY <1>14 DEF ActAcquire, RequeueAfter, LoseResponse, ReconcileError
    <3>4. rec.at = now
      BY <2>1 DEF Labelled
    <3>5. Mark(lease)' = now + 2 * LeaseDuration + skew
      BY <1>1, <3>1, <3>4 DEF Mark
    <3>6. Following' /\ ~queued' => ToState(cache, Name, now) = Uncertain
      BY <1>12, <2>1, <3>2, <3>3
    <3>7. Following' /\ ~queued' => TakenOver'
      BY <1>1, <2>1, <3>5, <3>6 DEF TakenOver
    <3> QED  BY <3>7 DEF InTime
  <2> QED  BY <2>2, <2>3
<1>15. CASE ActDelete
  <2>1. queued' \/ tomb'
    BY <1>15 DEF ActDelete, ReconcileError
  <2> QED  BY <1>3, <1>4, <2>1 DEF Following
<1> QED  BY <1>6, <1>7, <1>8, <1>9, <1>10, <1>11, <1>13, <1>14, <1>15 DEF SharderNext, Reconcile

\* A sharder that reacts at once takes a lease over and deletes it in the moment in
\* which this is due, whatever shard and API server do, if the shard's clock is behind
\* by at most 1 and releases are over in time.  What GoneIsCollected adds to this is that time passes.
THEOREM CollectsInTime == Spec => []CollectedInTime
<1> DEFINE Inv == Punctual => InTime
<1>1. Init => Inv
  <2> SUFFICES ASSUME Init PROVE InTime
    OBVIOUS
  <2>1. ~Exists(lease)
    BY NoLeaseTyped DEF Init
  <2> QED  BY <2>1 DEF InTime, Following
<1>2. IndInv /\ IndInv' /\ LabelInv /\ Inv /\ [Next]_vars => Inv'
  <2>0. IndInv /\ LabelInv /\ ReleaseInTime /\ [Next]_vars => skew' = skew
    BY SharderWrites, ShardWrites DEF LabelInv, Next, Horizon, Tick, vars
  <2> SUFFICES ASSUME IndInv, TypeOK', LabelInv, InTime, [Next]_vars, Punctual
               PROVE  InTime'
    BY <2>0 DEF IndInv, Punctual, ReleaseInTime
  <2>1. /\ Stamped /\ InOrder /\ CopiesBehind /\ Labelled
        /\ PromptSharder /\ skew >= -1
    BY DEF LabelInv, Punctual
  <2>2. CASE SharderNext
    BY <2>1, <2>2, InTimeSharder
  <2>3. CASE ShardNext
    BY <2>1, <2>3, InTimeShard
  <2>4. CASE Tick
    BY <2>1, <2>4, InTimeTick
  <2>5. CASE UNCHANGED vars
    BY <2>5 DEF vars, sharderVars, InTime, Following, Exists, Waits, TakenOver, Mark
  <2> QED  BY <2>2, <2>3, <2>4, <2>5 DEF Next, Horizon
<1>3. IndInv /\ LabelInv /\ Inv => CollectedInTime
  <2> SUFFICES ASSUME IndInv, LabelInv, InTime, Punctual, SharderIdle, ring, Exists(lease)
               PROVE  ToState(lease, Name, now) \notin {Uncertain, Orphaned}
    BY DEF CollectedInTime
  <2>1. /\ Following /\ ~queued /\ rec.pc = "idle" /\ cache = lease /\ Shape(lease)
        /\ skew >= -1
    BY DEF LabelInv, Punctual, Stamped, SharderIdle, Following, Idle
  <2>2. ~(wakeAt # Never /\ wakeAt <= now)
    BY DEF SharderIdle, IndInv, TypeOK, Never
  <2>3. lease \in Lease /\ now \in Nat /\ skew \in Int
    BY TimingAssumption DEF IndInv, TypeOK
  <2>4. Waits(lease, now)
    BY <2>1, <2>2, <2>3, TakenOverWaits DEF InTime, TakenOver
  <2> QED  BY <2>4 DEF Waits, Ready, Expired, Dead, Uncertain, Orphaned
<1> QED  BY <1>1, <1>2, <1>3, Invariance, LabelInvariance, PTL DEF Spec
=============================================================================
