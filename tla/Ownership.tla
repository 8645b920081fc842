----------------------------- MODULE Ownership -----------------------------
(***************************************************************************)
(* What sharding promises the controllers: every object has at most one    *)
(* owner, only the owner works on it, and ownership does not change while  *)
(* somebody works on the object.                                           *)
(***************************************************************************)
CONSTANTS Shards, Objects, None

VARIABLES owner,    \* owner[o]: the shard responsible for o, or None
          working   \* working[s]: the objects s works on

ovars == <<owner, working>>

Init == /\ owner = [o \in Objects |-> None]
        /\ working = [s \in Shards |-> {}]

Reassign(o, s) == /\ \A t \in Shards : o \notin working[t]
                  /\ owner' = [owner EXCEPT ![o] = s]
                  /\ UNCHANGED working

Begin(s, o) == /\ owner[o] = s
               /\ working' = [working EXCEPT ![s] = @ \cup {o}]
               /\ UNCHANGED owner

End(s, o) == /\ o \in working[s]
             /\ working' = [working EXCEPT ![s] = @ \ {o}]
             /\ UNCHANGED owner

Crash(s) == /\ working' = [working EXCEPT ![s] = {}]
            /\ UNCHANGED owner

Next == \/ \E o \in Objects, s \in Shards \cup {None} : Reassign(o, s)
        \/ \E s \in Shards, o \in Objects : Begin(s, o) \/ End(s, o)
        \/ \E s \in Shards : Crash(s)

Spec == Init /\ [][Next]_ovars
=============================================================================
