----------------------------- MODULE MCLifecycle -----------------------------
(* Lifecycle for TLC: requests are interchangeable, and two outboxes are    *)
(* the same when they have told consumers the same, up to the same version. *)
EXTENDS Lifecycle, TLC, FiniteSetsExt

RequestSymmetry == Permutations(Requests)

(* Jobs are only ever compared for equality. *)
JobSymmetry == Permutations(Requests) \cup Permutations(Jobs)

LastTold(vals) ==
    LET told == {i \in DOMAIN vals : vals[i] # Null}
    IN  IF told = {} THEN Null ELSE vals[Max(told)]

Told(ev) ==
    [status     |-> LastTold([i \in DOMAIN ev |-> ev[i].payload.status]),
     visibility |-> LastTold([i \in DOMAIN ev |-> ev[i].payload.visibility]),
     publishAt  |-> LastTold([i \in DOMAIN ev |-> ev[i].payload.publishAt]),
     tags       |-> LastTold([i \in DOMAIN ev |-> ev[i].payload.tags]),
     stage      |-> [s \in Stages |->
                       LastTold([i \in DOMAIN ev |-> ev[i].payload.stage[s]])],
     output     |-> [s \in Stages |->
                       LastTold([i \in DOMAIN ev |-> ev[i].payload.output[s]])],
     version    |-> Max({0} \cup {ev[i].version : i \in DOMAIN ev})]

LifecycleView ==
    <<video, [v \in Videos |-> Told(outbox[v])], req, clock, raced>>
=============================================================================
