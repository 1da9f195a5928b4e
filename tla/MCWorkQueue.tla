----------------------------- MODULE MCWorkQueue -----------------------------
(***************************************************************************)
(* At most two jobs and two processes.  With one priority the order of the *)
(* names decides who is leased next; with two, a worker may ask for either *)
(* and job 1 is the more urgent one.                                       *)
(***************************************************************************)
EXTENDS WorkQueue, TLC

MCJobs == {1, 2}
ProcsSymmetry == Permutations(Procs)
MCSamePriority == [j \in MCJobs |-> 0]
MCTwoPriorities == [j \in MCJobs |-> j - 1]
=============================================================================
