---------------------------- MODULE MCShardLease ----------------------------
(***************************************************************************)
(* ShardLease for TLC.  Versions are only ever compared with the current   *)
(* version of the lease and a new version is larger than all others, so    *)
(* two states that agree on everything but the version numbers, and on     *)
(* which copies are current, have the same futures: View keeps only that.  *)
(***************************************************************************)
EXTENDS ShardLease

Current(rv) == rv # 0 /\ rv = lease.rv

Copy(l) == [l EXCEPT !.rv = IF @ = 0 THEN 0 ELSE IF Current(@) THEN 2 ELSE 1]

\* no attempt follows: its times do not matter any more
Ending == proc \in {"releasing", "stopping"}

View ==
  << now, skew, Copy(lease), ring,
     Copy(cache), tomb, queued, wakeAt, [rec EXCEPT !.lease = Copy(rec.lease)], faults,
     proc, starts, Copy(ll), IF Ending THEN 0 ELSE observedAt, attempt,
     [call EXCEPT !.rv = IF Current(@) THEN 2 ELSE 1,
                  !.landed = IF @ = 0 THEN 0 ELSE IF Current(@) THEN 2 ELSE 1],
     IF attempt = Never /\ ~Ending THEN retryAt ELSE 0, stopBy,
     {[r EXCEPT !.rv = 0] : r \in {q \in late : Current(q.rv)}} >>
=============================================================================
