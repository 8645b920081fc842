------------------------------- MODULE Leases -------------------------------
(***************************************************************************)
(* The package pkg/sharding/leases: how the sharder reads a shard's Lease  *)
(* object.  A lease is a record with at least the fields                   *)
(*   holder     Spec.HolderIdentity ("" or nil is any value but the name)  *)
(*   complete   Spec.AcquireTime, Spec.RenewTime and                       *)
(*              Spec.LeaseDurationSeconds are all set                      *)
(*   renewTime, duration   those fields, meaningful if complete            *)
(* Times are integers, in any unit.                                        *)
(***************************************************************************)
EXTENDS Integers

CONSTANTS leaseTTL,             \* how long a lease stays Dead before it is Orphaned
          defaultLeaseDuration  \* LeaseDuration of an incomplete lease

ASSUME LeasesAssumption == /\ leaseTTL \in Nat \ {0}
                           /\ defaultLeaseDuration \in Nat \ {0}

(***************************************************************************)
(* ShardState, in the order of the iota constants.  StateFromString maps   *)
(* the state label back, a missing or unknown label being Unknown: here    *)
(* the label is the state itself.                                          *)
(***************************************************************************)
Unknown   == 0
Orphaned  == 1
Dead      == 2
Uncertain == 3
Expired   == 4
Ready     == 5

ShardState == Unknown .. Ready

IsAvailable(s) == s >= Uncertain

ToTimes(lease, now) ==
  LET duration   == IF lease.complete THEN lease.duration ELSE defaultLeaseDuration
      Expiration == IF lease.complete THEN lease.renewTime + lease.duration ELSE now
  IN [ LeaseDuration |-> duration,
       ToExpired     |-> Expiration - now,
       ToUncertain   |-> (Expiration - now) + duration,
       ToOrphaned    |-> (Expiration - now) + leaseTTL ]

\* mutant: a lease is taken over as soon as it expired
toStateEager(lease, name, t) ==
  IF lease.holder # name
  THEN IF t.ToOrphaned <= 0 THEN Orphaned ELSE Dead
  ELSE IF t.ToExpired <= 0 THEN Uncertain ELSE Ready

\* mutant: a state ends only after its last moment
toStateStrict(lease, name, t) ==
  IF lease.holder # name
  THEN IF t.ToOrphaned < 0 THEN Orphaned ELSE Dead
  ELSE IF t.ToUncertain < 0 THEN Uncertain
       ELSE IF t.ToExpired < 0 THEN Expired ELSE Ready

toState(lease, name, t) ==
  IF lease.holder # name
  THEN IF t.ToOrphaned <= 0 THEN Orphaned ELSE Dead
  ELSE IF t.ToUncertain <= 0 THEN Uncertain
       ELSE IF t.ToExpired <= 0 THEN Expired ELSE Ready

ToState(lease, name, now) == toState(lease, name, ToTimes(lease, now))
=============================================================================
