------------------------------- MODULE JobQueue -------------------------------
(***************************************************************************)
(* What the queue of worker/scheduler.py promises its callers when nobody  *)
(* dies under the lock: a job is in one place at a time, a lease hands it  *)
(* to one worker, a lease that is taken back is worth nothing from then    *)
(* on, a job is handed out at most max times and, within one priority, in  *)
(* the order of its name.                                                  *)
(***************************************************************************)
EXTENDS Naturals

CONSTANTS Jobs, PriorityOf, MaxAttemptsLimit

VARIABLES
    job,    \* job[j]: where j stands
    drawn   \* the lease ids drawn so far are 1 .. drawn

vars == <<job, drawn>>

Standing(state, tries, max, lease) ==
    [state |-> state, tries |-> tries, max |-> max, lease |-> lease]

Settled(state) == Standing(state, 0, 0, 0)

InState(s) == {j \in Jobs : job[j].state = s}

Init == job = [j \in Jobs |-> Settled("new")] /\ drawn = 0

Submit(j, m) ==
    /\ j \in InState("new")
    /\ job' = [job EXCEPT ![j] = Standing("pending", 0, m, 0)]
    /\ UNCHANGED drawn

\* Nobody is handed j while an older job of its priority waits.
Lease(j) ==
    /\ j \in InState("pending")
    /\ \A i \in InState("pending") : PriorityOf[i] = PriorityOf[j] => j <= i
    /\ job[j].tries < job[j].max
    /\ job' = [job EXCEPT ![j] = Standing("leased", @.tries + 1, @.max, drawn + 1)]
    /\ drawn' = drawn + 1

Finish(j) ==
    /\ j \in InState("leased")
    /\ job' = [job EXCEPT ![j] = Settled("done")]
    /\ UNCHANGED drawn

Bury(j) ==
    /\ j \in InState("leased")
    /\ job' = [job EXCEPT ![j] = Settled("dead")]
    /\ UNCHANGED drawn

TakeBack(j) ==
    /\ j \in InState("leased")
    /\ job[j].tries < job[j].max
    /\ job' = [job EXCEPT ![j] = Standing("pending", @.tries, @.max, 0)]
    /\ UNCHANGED drawn

Next == \E j \in Jobs :
            \/ \E m \in 1..MaxAttemptsLimit : Submit(j, m)
            \/ Lease(j) \/ Finish(j) \/ Bury(j) \/ TakeBack(j)

Spec == Init /\ [][Next]_vars
=============================================================================
