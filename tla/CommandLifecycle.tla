--------------------------- MODULE CommandLifecycle ---------------------------
(* What the command bridge promises of a command that must not be repeated: *)
(* it is queued, taken by one worker, and ends once. It never goes back to  *)
(* the queue and its result never changes.                                  *)
CONSTANT Jobs
VARIABLE job

Ended == {"done", "failed"}

Init == job = [j \in Jobs |-> "absent"]

Move(j, from, to) ==
    /\ job[j] = from
    /\ job' = [job EXCEPT ![j] = to]

Submit(j) == Move(j, "absent", "pending")
Take(j) == Move(j, "pending", "running")
End(j) == \E result \in Ended : Move(j, "running", result)

Next == \E j \in Jobs : Submit(j) \/ Take(j) \/ End(j)

Spec == Init /\ [][Next]_job
=============================================================================
