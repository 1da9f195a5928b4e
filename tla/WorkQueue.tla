------------------------------ MODULE WorkQueue ------------------------------
(***************************************************************************)
(* The durable job queue of worker/scheduler.py and its queue_lock.        *)
(*                                                                         *)
(* A job is a JSON file that moves between directories.  Every mutation    *)
(* runs inside queue_lock, a flock the kernel drops when the holder dies,  *)
(* so what another process can see are the states between two critical     *)
(* sections and, after an abort, the state between two file operations.    *)
(* One action is one file operation.  write_job is Path.write_text, which  *)
(* truncates the file before it writes it: between the two steps the file  *)
(* is Torn, and it stays Torn when the process dies there.                 *)
(***************************************************************************)
EXTENDS Naturals, FiniteSets

CONSTANTS
    Jobs,               \* job ids, numbered in the order their file names sort
    PriorityOf,         \* PriorityOf[j]: the pN prefix of the file name of j
    Procs,              \* the processes that call the scheduler
    MaxAttemptsLimit,   \* the largest max_attempts an enqueue may ask for
    MaxAborts,          \* bound: processes killed, or raising, under the lock
    NoFile, Torn,       \* a path that does not exist; one json.loads refuses
    NoProc              \* nobody holds queue_lock

NoLease == 0            \* lease_id (and lease_expires_at) absent or null

Job == [lease : Nat, tries : Nat, max : Nat]

File == Job \cup {NoFile, Torn}

ASSUME JobsAssumption ==
    /\ Jobs \subseteq Nat
    /\ \A i, j \in Jobs : i < j => PriorityOf[i] <= PriorityOf[j]

ASSUME BoundsAssumption == MaxAttemptsLimit \in Nat \ {0} /\ MaxAborts \in Nat

ASSUME ValuesAssumption ==
    NoFile \notin Job /\ Torn \notin Job /\ NoFile # Torn /\ NoProc \notin Procs

Dirs == {"pending", "processing", "dead", "archive"}

\* Where a call to the scheduler stands.  The stages of Inside hold the lock.
Inside == {"reply", "renamed", "write", "leased", "fail_unlink",
           "scan", "scan_unlink", "archive"}
Stages == {"idle", "sweep", "lease"} \cup Inside

VARIABLES
    dir,        \* dir[d][j]: the file of job j in directory d
    lock,       \* the holder of queue_lock
    pc,         \* pc[p]: the stage p has reached
    op,         \* the local variables of the call that holds the lock
    issued,     \* lease ids drawn so far: 1 .. issued
    expired,    \* the leases whose lease_expires_at has passed
    due,        \* the last recovery sweep is older than the interval
    granted,    \* <<job, lease>> pairs that lease_next returned to a worker
    enqueued,   \* history: the jobs whose file was ever created
    closed,     \* history: <<job, lease>> pairs complete or fail accepted
    completed,  \* history: the jobs complete unlinked, each time as <<job, lease>>
    revoked,    \* history: the leases a recovery took back
    aborts

vars == <<dir, lock, pc, op, issued, expired, due, granted, enqueued, closed,
          completed, revoked, aborts>>

history == <<enqueued, closed, completed, revoked>>

Op == [job : Jobs \cup {0}, rec : Job, target : Dirs, after : Stages,
       todo : SUBSET Jobs, next : {"idle", "lease"}]

NoOp == [job |-> 0, rec |-> [lease |-> NoLease, tries |-> 0, max |-> 0],
         target |-> "pending", after |-> "idle", todo |-> {}, next |-> "idle"]

Present(d) == {j \in Jobs : dir[d][j] # NoFile}

Readable(d, j) == dir[d][j] \notin {NoFile, Torn}

Bug_LastName(S) == CHOOSE j \in S : \A i \in S : i <= j

Least(S) == CHOOSE j \in S : \A i \in S : j <= i

Put(d, j, f) == dir' = [dir EXCEPT ![d][j] = f]

Goto(p, stage) == pc' = [pc EXCEPT ![p] = stage]

Acquire(p, stage) == lock = NoProc /\ lock' = p /\ Goto(p, stage)

Release(p, stage) == lock' = NoProc /\ op' = NoOp /\ Goto(p, stage)

\* write_job(target, rec) opens the target for writing, which truncates it;
\* WriteBack puts the content there.
Truncate(p, target, j, rec, after) ==
    /\ Put(target, j, Torn)
    /\ op' = [op EXCEPT !.job = j, !.rec = rec, !.target = target, !.after = after]

Init ==
    /\ dir = [d \in Dirs |-> [j \in Jobs |-> NoFile]]
    /\ lock = NoProc
    /\ pc = [p \in Procs |-> "idle"]
    /\ op = NoOp
    /\ issued = 0 /\ expired = {} /\ due = TRUE
    /\ granted = {} /\ enqueued = {} /\ closed = {} /\ completed = {} /\ revoked = {}
    /\ aborts = 0

-----------------------------------------------------------------------------
(* enqueue: a temporary file renamed over the final name. *)

Enqueue(p, j, m) ==
    /\ pc[p] = "idle" /\ j \notin enqueued
    /\ Acquire(p, "reply")
    /\ Put("pending", j, [lease |-> NoLease, tries |-> 0, max |-> m])
    /\ enqueued' = enqueued \cup {j}
    /\ UNCHANGED <<op, issued, expired, due, granted, closed, completed, revoked, aborts>>

\* The audit record is written, the result returned, the lock given back.
Reply(p) ==
    /\ lock = p /\ pc[p] = "reply"
    /\ Release(p, "idle")
    /\ UNCHANGED <<dir, issued, expired, due, granted, history, aborts>>

-----------------------------------------------------------------------------
(* lease_next: a recovery sweep when one is due, then the first pending     *)
(* file of the priorities asked for.                                        *)

Bug_NoSweep(p) ==
    /\ pc[p] = "idle"
    /\ Goto(p, "lease")
    /\ UNCHANGED <<dir, lock, op, issued, expired, due, granted, history, aborts>>

LeaseCall(p) ==
    /\ pc[p] = "idle"
    /\ Goto(p, IF due THEN "sweep" ELSE "lease")
    /\ UNCHANGED <<dir, lock, op, issued, expired, due, granted, history, aborts>>

Candidates(prios) == {j \in Present("pending") : PriorityOf[j] \in prios}

LeaseNone(p, prios) ==
    /\ pc[p] = "lease" /\ lock = NoProc
    /\ Candidates(prios) = {}
    /\ Goto(p, "idle")
    /\ UNCHANGED <<dir, lock, op, issued, expired, due, granted, history, aborts>>

LeaseRename(p, prios) ==
    /\ pc[p] = "lease"
    /\ Candidates(prios) # {}
    /\ Acquire(p, "renamed")
    /\ LET j == Least(Candidates(prios)) IN
         /\ dir' = [dir EXCEPT !["processing"][j] = dir["pending"][j],
                               !["pending"][j] = NoFile]
         /\ op' = [op EXCEPT !.job = j]
    /\ UNCHANGED <<issued, expired, due, granted, history, aborts>>

Bug_LeaseIdReused(p) ==
    /\ lock = p /\ pc[p] = "renamed"
    /\ Readable("processing", op.job)
    /\ LET job == dir["processing"][op.job] IN
         Truncate(p, "processing", op.job,
                  [lease |-> issued + 1, tries |-> job.tries + 1, max |-> job.max], "leased")
    /\ Goto(p, "write")
    /\ UNCHANGED <<lock, issued, expired, due, granted, history, aborts>>

\* read_job succeeds and write_job starts: a new lease id, one more attempt.
LeaseRead(p) ==
    /\ lock = p /\ pc[p] = "renamed"
    /\ Readable("processing", op.job)
    /\ issued' = issued + 1
    /\ LET job == dir["processing"][op.job] IN
         Truncate(p, "processing", op.job,
                  [lease |-> issued + 1, tries |-> job.tries + 1, max |-> job.max], "leased")
    /\ Goto(p, "write")
    /\ UNCHANGED <<lock, expired, due, granted, history, aborts>>

\* read_job raises on a torn file, which stays where the rename put it.
LeaseReadFails(p) ==
    /\ lock = p /\ pc[p] = "renamed"
    /\ dir["processing"][op.job] = Torn
    /\ Release(p, "idle")
    /\ UNCHANGED <<dir, issued, expired, due, granted, history, aborts>>

WriteBack(p) ==
    /\ lock = p /\ pc[p] = "write"
    /\ Put(op.target, op.job, op.rec)
    /\ Goto(p, op.after)
    /\ UNCHANGED <<lock, op, issued, expired, due, granted, history, aborts>>

LeaseReply(p) ==
    /\ lock = p /\ pc[p] = "leased"
    /\ granted' = granted \cup {<<op.job, op.rec.lease>>}
    /\ Release(p, "idle")
    /\ UNCHANGED <<dir, issued, expired, due, history, aborts>>

-----------------------------------------------------------------------------
(* complete and fail, called with a lease some lease_next returned: maybe   *)
(* long ago, maybe for the second time.  find_processing, read_job and      *)
(* require_lease refuse a call that does not match; it changes nothing.     *)

Bug_LeaseNotCompared(j, l) == Readable("processing", j)

HoldsLease(j, l) == Readable("processing", j) /\ dir["processing"][j].lease = l

Bug_CompleteKeepsFile(p, j, l) ==
    /\ pc[p] = "idle" /\ <<j, l>> \in granted
    /\ HoldsLease(j, l)
    /\ Acquire(p, "reply")
    /\ closed' = closed \cup {<<j, l>>}
    /\ completed' = completed \cup {<<j, l>>}
    /\ UNCHANGED <<dir, op, issued, expired, due, granted, enqueued, revoked, aborts>>

Complete(p, j, l) ==
    /\ pc[p] = "idle" /\ <<j, l>> \in granted
    /\ HoldsLease(j, l)
    /\ Acquire(p, "reply")
    /\ Put("processing", j, NoFile)
    /\ closed' = closed \cup {<<j, l>>}
    /\ completed' = completed \cup {<<j, l>>}
    /\ UNCHANGED <<op, issued, expired, due, granted, enqueued, revoked, aborts>>

Bug_FailUnlinksFirst(p, j, l) ==
    /\ pc[p] = "idle" /\ <<j, l>> \in granted
    /\ HoldsLease(j, l)
    /\ Acquire(p, "write")
    /\ Put("processing", j, NoFile)
    /\ op' = [op EXCEPT !.job = j, !.rec = dir["processing"][j], !.target = "dead",
                        !.after = "reply"]
    /\ closed' = closed \cup {<<j, l>>}
    /\ UNCHANGED <<issued, expired, due, granted, enqueued, completed, revoked, aborts>>

Fail(p, j, l) ==
    /\ pc[p] = "idle" /\ <<j, l>> \in granted
    /\ HoldsLease(j, l)
    /\ Acquire(p, "write")
    /\ Truncate(p, "dead", j, dir["processing"][j], "fail_unlink")
    /\ closed' = closed \cup {<<j, l>>}
    /\ UNCHANGED <<issued, expired, due, granted, enqueued, completed, revoked, aborts>>

Bug_FailKeepsFile(p) ==
    /\ lock = p /\ pc[p] = "fail_unlink"
    /\ Goto(p, "reply")
    /\ UNCHANGED <<dir, lock, op, issued, expired, due, granted, history, aborts>>

FailUnlink(p) ==
    /\ lock = p /\ pc[p] = "fail_unlink"
    /\ Put("processing", op.job, NoFile)
    /\ Goto(p, "reply")
    /\ UNCHANGED <<lock, op, issued, expired, due, granted, history, aborts>>

-----------------------------------------------------------------------------
(* recover_expired: called by the operator, or by a lease_next whose sweep  *)
(* was due; it walks the processing files in name order.                    *)

RecoverBegin(p) ==
    /\ pc[p] \in {"idle", "sweep"}
    /\ Acquire(p, "scan")
    /\ op' = [op EXCEPT !.todo = Present("processing"),
                        !.next = IF pc[p] = "idle" THEN "idle" ELSE "lease"]
    /\ UNCHANGED <<dir, issued, expired, due, granted, history, aborts>>

Scanning(p) == lock = p /\ pc[p] = "scan" /\ op.todo # {}

Expired(j) == Readable("processing", j) /\ dir["processing"][j].lease \in expired

Bug_ExhaustedTooLate(job) == job.tries > job.max

Exhausted(job) == job.tries >= job.max

\* A file without lease_expires_at, or with a null one, is passed over.
ScanKeep(p) ==
    /\ Scanning(p)
    /\ LET j == Least(op.todo) IN
         /\ Readable("processing", j) /\ ~ Expired(j)
         /\ op' = [op EXCEPT !.todo = @ \ {j}]
    /\ UNCHANGED <<dir, lock, pc, issued, expired, due, granted, history, aborts>>

\* read_job is outside the try: it raises out of the whole sweep, and out of
\* the lease_next that asked for it.
ScanFails(p) ==
    /\ Scanning(p)
    /\ dir["processing"][Least(op.todo)] = Torn
    /\ Release(p, "idle")
    /\ UNCHANGED <<dir, issued, expired, due, granted, history, aborts>>

ScanExpired(p) ==
    /\ Scanning(p)
    /\ LET j == Least(op.todo)
           job == dir["processing"][j]
       IN  /\ Expired(j)
           /\ \/ /\ Exhausted(job)
                 /\ Truncate(p, "dead", j, job, "scan_unlink")
              \/ /\ ~ Exhausted(job)
                 /\ Truncate(p, "pending", j, [job EXCEPT !.lease = NoLease],
                             "scan_unlink")
    /\ Goto(p, "write")
    /\ UNCHANGED <<lock, issued, expired, due, granted, history, aborts>>

ScanUnlink(p) ==
    /\ lock = p /\ pc[p] = "scan_unlink"
    /\ Put("processing", op.job, NoFile)
    /\ revoked' = revoked \cup {dir["processing"][op.job].lease}
    /\ op' = [op EXCEPT !.todo = @ \ {op.job}]
    /\ Goto(p, "scan")
    /\ UNCHANGED <<lock, issued, expired, due, granted, enqueued, closed, completed, aborts>>

\* write_recovery_state replaces queue.recovery.json: no sweep is due for a while.
ScanDone(p) ==
    /\ lock = p /\ pc[p] = "scan" /\ op.todo = {}
    /\ due' = FALSE
    /\ Release(p, op.next)
    /\ UNCHANGED <<dir, issued, expired, granted, history, aborts>>

-----------------------------------------------------------------------------
(* archive_dead: the dead files older than the cutoff, one rename each.     *)

ArchiveBegin(p) ==
    /\ pc[p] = "idle" /\ Present("dead") # {}
    /\ Acquire(p, "archive")
    /\ op' = [op EXCEPT !.todo = Present("dead")]
    /\ UNCHANGED <<dir, issued, expired, due, granted, history, aborts>>

Archiving(p) == lock = p /\ pc[p] = "archive" /\ op.todo # {}

ArchiveKeep(p) ==
    /\ Archiving(p)
    /\ Readable("dead", Least(op.todo))
    /\ op' = [op EXCEPT !.todo = @ \ {Least(op.todo)}]
    /\ UNCHANGED <<dir, lock, pc, issued, expired, due, granted, history, aborts>>

ArchiveMove(p) ==
    /\ Archiving(p)
    /\ LET j == Least(op.todo) IN
         /\ Readable("dead", j)
         /\ dir' = [dir EXCEPT !["archive"][j] = dir["dead"][j], !["dead"][j] = NoFile]
         /\ op' = [op EXCEPT !.todo = @ \ {j}]
    /\ UNCHANGED <<lock, pc, issued, expired, due, granted, history, aborts>>

\* The end of the walk, or the exception of a torn dead file.
ArchiveEnd(p) ==
    /\ lock = p /\ pc[p] = "archive"
    /\ op.todo # {} => dir["dead"][Least(op.todo)] = Torn
    /\ Release(p, "idle")
    /\ UNCHANGED <<dir, issued, expired, due, granted, history, aborts>>

-----------------------------------------------------------------------------
(* The environment: time, and the death of a process under the lock (or an  *)
(* exception there: append_audit and every write may raise).  Either way    *)
(* the lock is released, the files stay as they are and nobody gets a reply.*)

SweepComesDue ==
    /\ ~ due /\ due' = TRUE
    /\ UNCHANGED <<dir, lock, pc, op, issued, expired, granted, history, aborts>>

LeaseExpires(l) ==
    /\ l \notin expired /\ expired' = expired \cup {l}
    /\ UNCHANGED <<dir, lock, pc, op, issued, due, granted, history, aborts>>

Abort(p) ==
    /\ lock = p /\ aborts < MaxAborts
    /\ aborts' = aborts + 1
    /\ Release(p, "idle")
    /\ UNCHANGED <<dir, issued, expired, due, granted, history>>

PriorityFilters == {{PriorityOf[j] : j \in Jobs}} \cup {{PriorityOf[j]} : j \in Jobs}

\* The steps of a call that already holds the lock.
Step(p) ==
    \/ Reply(p)
    \/ LeaseRead(p) \/ LeaseReadFails(p) \/ WriteBack(p) \/ LeaseReply(p)
    \/ FailUnlink(p)
    \/ ScanKeep(p) \/ ScanFails(p) \/ ScanExpired(p) \/ ScanUnlink(p) \/ ScanDone(p)
    \/ ArchiveKeep(p) \/ ArchiveMove(p) \/ ArchiveEnd(p)

LeaseTake(p, prios) == LeaseNone(p, prios) \/ LeaseRename(p, prios)

Next ==
    \/ \E p \in Procs :
         \/ \E j \in Jobs, m \in 1..MaxAttemptsLimit : Enqueue(p, j, m)
         \/ LeaseCall(p)
         \/ \E prios \in PriorityFilters : LeaseTake(p, prios)
         \/ \E g \in granted : Complete(p, g[1], g[2]) \/ Fail(p, g[1], g[2])
         \/ RecoverBegin(p)
         \/ ArchiveBegin(p)
         \/ Step(p)
         \/ Abort(p)
    \/ SweepComesDue
    \/ \E l \in 1..issued : LeaseExpires(l)

Spec == Init /\ [][Next]_vars

\* Workers poll, a waiter for the flock gets it in the end, a call that holds
\* it goes on, and time passes.  Nobody has to complete or fail anything.
Fairness ==
    /\ \A p \in Procs :
         /\ SF_vars(LeaseCall(p))
         /\ SF_vars(LeaseTake(p, {PriorityOf[j] : j \in Jobs}))
         /\ SF_vars(RecoverBegin(p) /\ pc[p] = "sweep")
         /\ WF_vars(Step(p))
    /\ WF_vars(SweepComesDue)
    /\ \A l \in 1..(MaxAttemptsLimit * Cardinality(Jobs)) : WF_vars(LeaseExpires(l))

FairSpec == Spec /\ Fairness

-----------------------------------------------------------------------------
(* Properties *)

\* Every variable has its type; in particular a lease is granted, closed or
\* expired only after its id was drawn.
TypeOK ==
    /\ dir \in [Dirs -> [Jobs -> File]]
    /\ lock \in Procs \cup {NoProc}
    /\ pc \in [Procs -> Stages]
    /\ op \in Op
    /\ issued \in Nat
    /\ expired \in SUBSET (1..issued)
    /\ due \in BOOLEAN
    /\ granted \in SUBSET (Jobs \X (1..issued))
    /\ enqueued \in SUBSET Jobs
    /\ closed \in SUBSET granted
    /\ completed \in SUBSET closed
    /\ revoked \in SUBSET (1..issued)
    /\ aborts \in Nat

\* A lease that recover_expired took back buys nothing any more: no complete
\* and no fail is ever accepted under it, however late the worker answers,
\* whoever holds the job by then, and whatever died in between (require_lease
\* against the lease_id of the processing file).
NoRevokedClose == [][\A g \in closed' \ closed : g[2] \notin revoked]_vars

\* An accepted job is never lost: until complete is accepted for it, a file
\* of it exists in one of the directories, even when a process dies between
\* any two file operations (target written before the source is unlinked).
NeverLost ==
    \A j \in enqueued : (\E g \in completed : g[1] = j) \/ (\E d \in Dirs : j \in Present(d))

\* A job is handed to workers at most max_attempts times, also when recoveries
\* abort half way and leave a second copy of it behind.
BoundedAttempts ==
    \A j \in Jobs : \A d \in Dirs : Readable(d, j) =>
        Cardinality({g \in granted : g[1] = j}) <= dir[d][j].max

\* While nobody died under the lock, outside the critical sections a job that
\* was enqueued is in exactly one directory, or in none once it was completed:
\* a job is neither duplicated, nor lost, nor run again after it was completed.
OneHome ==
    aborts = 0 /\ lock = NoProc =>
        \A j \in enqueued :
            Cardinality({d \in Dirs : j \in Present(d)})
                = IF \E g \in completed : g[1] = j THEN 0 ELSE 1

\* While nobody died under the lock, two workers never both close a job.
ClosedOnce ==
    aborts = 0 => \A g, h \in closed : g[1] = h[1] => g = h

\* Every enqueued job is completed or dead-lettered in the end, even when the
\* workers that lease it never answer: sweeps take expired leases back and the
\* attempts run out.
EveryJobSettles ==
    \A j \in Jobs : j \in enqueued ~>
        ((\E g \in completed : g[1] = j) \/ Readable("dead", j) \/ Readable("archive", j))

\* ARCHITECTURE.md on recover_expired: a job whose lease expired goes back to
\* pending, or to dead when its attempts are used up.
ExpiredLeasesAreTakenBack == \A j \in Jobs : Expired(j) ~> ~ Expired(j)

-----------------------------------------------------------------------------
(* Refinement: while nobody dies under the lock the files implement JobQueue. *)

\* lease_next is between the rename and the end of write_job.
Taking(j) ==
    /\ lock # NoProc /\ op.job = j
    /\ pc[lock] = "renamed" \/ (pc[lock] = "write" /\ op.target = "processing")

PendingFile(j) ==
    IF ~ Taking(j) THEN dir["pending"][j]
    ELSE IF pc[lock] = "renamed" THEN dir["processing"][j]
    ELSE [op.rec EXCEPT !.tries = @ - 1]

AbsJob(j) ==
    LET at(state, f, l) ==
            [state |-> state, tries |-> f.tries, max |-> f.max, lease |-> l]
    IN  IF j \notin enqueued THEN at("new", NoOp.rec, 0)
        ELSE IF Taking(j) \/ Readable("pending", j) THEN at("pending", PendingFile(j), 0)
        ELSE IF Readable("dead", j) \/ Readable("archive", j) THEN at("dead", NoOp.rec, 0)
        ELSE IF j \in Present("processing")
             THEN at("leased", dir["processing"][j], dir["processing"][j].lease)
        ELSE at("done", NoOp.rec, 0)

Abs == INSTANCE JobQueue WITH
    job <- [j \in Jobs |-> AbsJob(j)],
    drawn <- IF \E j \in Jobs : Taking(j) /\ pc[lock] = "write" THEN issued - 1 ELSE issued

\* Until the first process dies under the lock, every step of the scheduler is
\* a step of JobQueue or leaves it unchanged.
ImplementsJobQueue == Abs!Init /\ [][aborts' = 0 => [Abs!Next]_(Abs!vars)]_vars
=============================================================================
