--------------------------- MODULE WorkQueueProofs ---------------------------
(***************************************************************************)
(* What holds of the job queue for any number of jobs, processes, attempts *)
(* and aborts: types, the exclusion queue_lock gives, the fence a revoked  *)
(* lease meets, and that no job is lost.  Then what the files add up to:   *)
(* attempts are bounded; while nobody died under queue_lock a job has one  *)
(* file and is closed once, and the files implement JobQueue.              *)
(***************************************************************************)
EXTENDS WorkQueue, FiniteSetTheorems, WellFoundedInduction, TLAPS

\* A stage of Inside is reached by the holder of the lock and by nobody else.
LockInv == \A p \in Procs : pc[p] \in Inside <=> lock = p

\* What the holder of the lock relies on when it is at stage s.
At(s) == lock # NoProc /\ pc[lock] = s

\* The lease that lease_next is about to write is on no processing file yet.
FreshLease ==
    /\ op.rec.lease = issued /\ issued # 0 /\ issued \notin revoked
    /\ \A i \in Jobs : Readable("processing", i) => dir["processing"][i].lease # issued

WriteInv == At("write") =>
    /\ op.job \in Jobs
    /\ \/ op.target = "processing" /\ op.after = "leased" /\ FreshLease
       \/ op.target = "dead" /\ op.after = "fail_unlink"
       \/ /\ op.target \in {"pending", "dead"} /\ op.after = "scan_unlink"
          /\ Expired(op.job)
          /\ op.target = "pending" => op.rec.lease = NoLease

UnlinkInv == At("fail_unlink") \/ At("scan_unlink") =>
    /\ op.job \in Jobs
    /\ op.target \in {"pending", "dead"}
    /\ dir[op.target][op.job] # NoFile
    /\ At("scan_unlink") => Expired(op.job)

LeaseStageInv ==
    /\ At("renamed") => op.job \in Jobs
    /\ At("leased") => op.job \in Jobs /\ op.rec.lease \in 1..issued

StageInv == WriteInv /\ UnlinkInv /\ LeaseStageInv

\* Pending files carry no lease; a lease is on one processing file at most,
\* was drawn before, and is on none once it is revoked.
LeaseInv ==
    /\ \A j \in Jobs : Readable("pending", j) => dir["pending"][j].lease = NoLease
    /\ \A j \in Jobs : Readable("processing", j) =>
         /\ dir["processing"][j].lease <= issued
         /\ dir["processing"][j].lease \notin revoked
    /\ \A i, j \in Jobs :
         /\ Readable("processing", i) /\ Readable("processing", j)
         /\ dir["processing"][i].lease = dir["processing"][j].lease
         /\ dir["processing"][i].lease # NoLease
         => i = j

IInv == TypeOK /\ LockInv /\ StageInv /\ LeaseInv

LEMMA LeastIsMember ==
    ASSUME NEW S \in SUBSET Jobs, S # {}
    PROVE  Least(S) \in S
<1>1. PICK j \in S : \A i \in S : <<i, j>> \notin OpToRel(<, Nat)
    BY WFMin, NatLessThanWellFounded, JobsAssumption, Zenon
<1>2. \A i \in S : j <= i
    <2> TAKE i \in S
    <2>1. i \in Nat /\ j \in Nat
        BY JobsAssumption
    <2>2. ~(i < j)
        BY <1>1, <2>1, Zenon DEF OpToRel
    <2> QED BY <2>1, <2>2
<1> QED BY <1>1, <1>2, Zenon DEF Least

LEMMA EnqueuePreserves ==
    ASSUME NEW p \in Procs, NEW j \in Jobs, NEW m \in 1..MaxAttemptsLimit, IInv, Enqueue(p, j, m)
    PROVE  IInv'
<1>1. TypeOK'
    BY ValuesAssumption, BoundsAssumption
    DEF Enqueue, Acquire, Put, Goto, history, IInv, TypeOK, Dirs, File, Job, Op, NoOp,
        NoLease, Stages, Inside, Readable, StageInv, LeaseStageInv, WriteInv, UnlinkInv, At,
        Expired
<1>2. LockInv'
    BY ValuesAssumption, BoundsAssumption
    DEF Enqueue, Acquire, Put, Goto, history, IInv, TypeOK, LockInv, Stages, Inside,
        StageInv, WriteInv, At
<1>3. StageInv'
    BY ValuesAssumption, BoundsAssumption
    DEF Enqueue, Acquire, Put, Goto, history, IInv, TypeOK, LockInv, LeaseInv, Dirs, File,
        Job, Op, NoOp, NoLease, Stages, Inside, Readable, StageInv, LeaseStageInv, WriteInv,
        UnlinkInv, At, Expired, FreshLease
<1>4. LeaseInv'
    BY ValuesAssumption, BoundsAssumption
    DEF Enqueue, Acquire, Put, Goto, history, IInv, TypeOK, LeaseInv, Dirs, File, Job,
        NoOp, NoLease, Readable, StageInv, WriteInv, UnlinkInv, At, Expired, FreshLease
<1> QED BY <1>1, <1>2, <1>3, <1>4 DEF IInv

LEMMA ReplyPreserves ==
    ASSUME NEW p \in Procs, IInv, Reply(p)
    PROVE  IInv'
<1>1. TypeOK'
    BY ValuesAssumption, BoundsAssumption
    DEF Reply, Release, Goto, history, IInv, TypeOK, Dirs, File, Job, Op, NoOp, NoLease,
        Stages, Inside, Readable, StageInv, LeaseStageInv, WriteInv, UnlinkInv, At, Expired
<1>2. LockInv'
    BY ValuesAssumption, BoundsAssumption
    DEF Reply, Release, Goto, history, IInv, TypeOK, LockInv, Stages, Inside, StageInv,
        WriteInv, At
<1>3. StageInv'
    BY ValuesAssumption, BoundsAssumption
    DEF Reply, Release, Goto, history, IInv, TypeOK, LockInv, LeaseInv, Dirs, File, Job,
        Op, NoOp, NoLease, Stages, Inside, Readable, StageInv, LeaseStageInv, WriteInv,
        UnlinkInv, At, Expired, FreshLease
<1>4. LeaseInv'
    BY ValuesAssumption, BoundsAssumption
    DEF Reply, Release, Goto, history, IInv, TypeOK, LeaseInv, Dirs, File, Job, NoOp,
        NoLease, Readable, StageInv, WriteInv, UnlinkInv, At, Expired, FreshLease
<1> QED BY <1>1, <1>2, <1>3, <1>4 DEF IInv

LEMMA LeaseCallPreserves ==
    ASSUME NEW p \in Procs, IInv, LeaseCall(p)
    PROVE  IInv'
<1>1. TypeOK'
    BY ValuesAssumption, BoundsAssumption
    DEF LeaseCall, Goto, history, IInv, TypeOK, Dirs, File, Job, Op, NoOp, NoLease,
        Stages, Inside, Readable, StageInv, LeaseStageInv, WriteInv, UnlinkInv, At, Expired
<1>2. LockInv'
    BY ValuesAssumption, BoundsAssumption
    DEF LeaseCall, Goto, history, IInv, TypeOK, LockInv, Stages, Inside, StageInv,
        WriteInv, At
<1>3. StageInv'
    BY ValuesAssumption, BoundsAssumption
    DEF LeaseCall, Goto, history, IInv, TypeOK, LockInv, LeaseInv, Dirs, File, Job, Op,
        NoOp, NoLease, Stages, Inside, Readable, StageInv, LeaseStageInv, WriteInv, UnlinkInv,
        At, Expired, FreshLease
<1>4. LeaseInv'
    BY ValuesAssumption, BoundsAssumption
    DEF LeaseCall, Goto, history, IInv, TypeOK, LeaseInv, Dirs, File, Job, NoOp, NoLease,
        Readable, StageInv, WriteInv, UnlinkInv, At, Expired, FreshLease
<1> QED BY <1>1, <1>2, <1>3, <1>4 DEF IInv

LEMMA LeaseNonePreserves ==
    ASSUME NEW p \in Procs, NEW prios, IInv, LeaseNone(p, prios)
    PROVE  IInv'
<1>1. TypeOK'
    BY ValuesAssumption, BoundsAssumption
    DEF LeaseNone, Goto, history, IInv, TypeOK, Dirs, File, Job, Op, NoOp, NoLease,
        Stages, Inside, Readable, StageInv, LeaseStageInv, WriteInv, UnlinkInv, At, Expired
<1>2. LockInv'
    BY ValuesAssumption, BoundsAssumption
    DEF LeaseNone, Goto, history, IInv, TypeOK, LockInv, Stages, Inside, StageInv,
        WriteInv, At
<1>3. StageInv'
    BY ValuesAssumption, BoundsAssumption
    DEF LeaseNone, Goto, history, IInv, TypeOK, LockInv, LeaseInv, Dirs, File, Job, Op,
        NoOp, NoLease, Stages, Inside, Readable, StageInv, LeaseStageInv, WriteInv, UnlinkInv,
        At, Expired, FreshLease
<1>4. LeaseInv'
    BY ValuesAssumption, BoundsAssumption
    DEF LeaseNone, Goto, history, IInv, TypeOK, LeaseInv, Dirs, File, Job, NoOp, NoLease,
        Readable, StageInv, WriteInv, UnlinkInv, At, Expired, FreshLease
<1> QED BY <1>1, <1>2, <1>3, <1>4 DEF IInv

LEMMA LeaseRenamePreserves ==
    ASSUME NEW p \in Procs, NEW prios, IInv, LeaseRename(p, prios)
    PROVE  IInv'
<1>a. PICK j \in Candidates(prios) : j = Least(Candidates(prios))
    BY LeastIsMember DEF LeaseRename, Candidates, Present
<1>b. j \in Jobs /\ dir["pending"][j] # NoFile
    BY <1>a DEF Candidates, Present
<1>c. /\ dir' = [dir EXCEPT !["processing"][j] = dir["pending"][j], !["pending"][j] = NoFile]
      /\ op' = [op EXCEPT !.job = j]
      /\ lock = NoProc /\ lock' = p /\ pc' = [pc EXCEPT ![p] = "renamed"]
      /\ UNCHANGED <<issued, expired, due, granted, enqueued, closed, completed, revoked, aborts>>
    BY <1>a DEF LeaseRename, Acquire, Goto, history
<1>1. TypeOK'
    BY <1>b, <1>c DEF IInv, TypeOK, Dirs, File, Op, Stages, Inside
<1>2. LockInv'
    BY ValuesAssumption, BoundsAssumption
    DEF LeaseRename, Acquire, Goto, Candidates, Present, history, IInv, TypeOK, LockInv,
        Stages, Inside, StageInv, WriteInv, At
<1>3. StageInv'
    BY <1>b, <1>c, ValuesAssumption DEF IInv, TypeOK, Op, Stages, Inside, StageInv,
       LeaseStageInv, WriteInv, UnlinkInv, At
<1>4. LeaseInv'
  <2>1. \A i \in Jobs : dir'["pending"][i] = IF i = j THEN NoFile ELSE dir["pending"][i]
    BY <1>b, <1>c DEF IInv, TypeOK, Dirs
  <2>2. \A i \in Jobs :
            dir'["processing"][i] = IF i = j THEN dir["pending"][j] ELSE dir["processing"][i]
    BY <1>b, <1>c DEF IInv, TypeOK, Dirs
  <2>3. 0 \notin revoked /\ 0 <= issued /\ issued \in Nat
    BY DEF IInv, TypeOK
  <2>4. Readable("pending", j) => dir["pending"][j].lease = 0
    BY <1>b DEF IInv, LeaseInv, NoLease
  <2>5. \A i \in Jobs : Readable("processing", i)' /\ i # j =>
            Readable("processing", i) /\ dir'["processing"][i] = dir["processing"][i]
    BY <2>2 DEF Readable
  <2>6. Readable("processing", j)' => dir'["processing"][j].lease = 0
    BY <1>b, <2>2, <2>4 DEF Readable
  <2>7. \A i \in Jobs : Readable("pending", i)' => dir'["pending"][i].lease = NoLease
    BY <2>1 DEF IInv, LeaseInv, Readable
  <2>8. UNCHANGED <<issued, revoked>>
    BY <1>c
  <2> QED BY <2>3, <2>5, <2>6, <2>7, <2>8 DEF IInv, LeaseInv, NoLease
<1> QED BY <1>1, <1>2, <1>3, <1>4 DEF IInv

LEMMA LeaseReadPreserves ==
    ASSUME NEW p \in Procs, IInv, LeaseRead(p)
    PROVE  IInv'
<1>a. PICK j \in Jobs, job \in Job : j = op.job /\ job = dir["processing"][j]
    BY ValuesAssumption
    DEF LeaseRead, Readable, IInv, TypeOK, StageInv, LeaseStageInv, At, Dirs, File
<1>b. PICK rec \in Job : /\ rec = [lease |-> issued + 1, tries |-> job.tries + 1, max |-> job.max]
                        /\ rec.lease = issued + 1
  <2>1. issued + 1 \in Nat /\ job.tries + 1 \in Nat
    BY DEF Job, IInv, TypeOK
  <2>2. [lease |-> issued + 1, tries |-> job.tries + 1, max |-> job.max] \in Job
    BY <2>1 DEF Job
  <2> QED BY <2>2
<1>c. /\ dir' = [dir EXCEPT !["processing"][j] = Torn]
      /\ op' = [op EXCEPT !.job = j, !.rec = rec, !.target = "processing", !.after = "leased"]
      /\ lock = p /\ lock' = p /\ pc' = [pc EXCEPT ![p] = "write"]
      /\ issued' = issued + 1
      /\ UNCHANGED <<expired, due, granted, enqueued, closed, completed, revoked, aborts>>
    BY <1>a, <1>b DEF LeaseRead, Truncate, Put, Goto, history
<1>1. TypeOK'
  <2>1. issued' \in Nat /\ 1..issued \subseteq 1..issued'
    BY <1>c DEF IInv, TypeOK
  <2>2. op' \in Op
    BY <1>a, <1>b, <1>c DEF IInv, TypeOK, Op, Dirs, Stages, Inside
  <2>3. dir' \in [Dirs -> [Jobs -> File]]
    BY <1>a, <1>c DEF IInv, TypeOK, Dirs, File
  <2>4. pc' \in [Procs -> Stages]
    BY <1>c DEF IInv, TypeOK, Stages, Inside
  <2>5. /\ expired' \in SUBSET (1..issued') /\ revoked' \in SUBSET (1..issued')
        /\ granted' \in SUBSET (Jobs \X (1..issued'))
    BY <1>c, <2>1 DEF IInv, TypeOK
  <2> QED BY <1>c, <2>1, <2>2, <2>3, <2>4, <2>5 DEF IInv, TypeOK
<1>2. LockInv'
    BY ValuesAssumption, BoundsAssumption
    DEF LeaseRead, Truncate, Put, Goto, history, IInv, TypeOK, LockInv, Stages, Inside,
        StageInv, WriteInv, At
<1>3. StageInv'
  <2>1. \A i \in Jobs : dir'["processing"][i] = IF i = j THEN Torn ELSE dir["processing"][i]
    BY <1>a, <1>c DEF IInv, TypeOK, Dirs
  <2>2. op'.job = j /\ op'.target = "processing" /\ op'.after = "leased" /\ op'.rec = rec
    BY <1>c DEF IInv, TypeOK, Op
  <2>3. At("write")' /\ \A s \in Stages \ {"write"} : ~ At(s)'
    BY <1>c, ValuesAssumption DEF At, IInv, TypeOK, Stages, Inside
  <2>4. issued' # 0 /\ issued' \notin revoked'
    BY <1>c DEF IInv, TypeOK
  <2>5. \A i \in Jobs : dir["processing"][i] \notin {NoFile, Torn} =>
            dir["processing"][i].lease <= issued /\ dir["processing"][i] \in Job
    BY DEF IInv, LeaseInv, Readable, TypeOK, File, Dirs
  <2>6. ASSUME NEW i \in Jobs, dir'["processing"][i] \notin {NoFile, Torn}
        PROVE  dir'["processing"][i].lease # issued'
    <3>1. i # j /\ dir'["processing"][i] = dir["processing"][i]
        BY <2>1, <2>6
    <3>2. dir["processing"][i].lease <= issued /\ dir["processing"][i].lease \in Nat
        BY <2>5, <2>6, <3>1 DEF Job
    <3> QED BY <1>c, <3>1, <3>2 DEF IInv, TypeOK
  <2>7. FreshLease'
    BY <1>b, <1>c, <2>2, <2>4, <2>6 DEF FreshLease, Readable
  <2>8. WriteInv'
    BY <1>a, <2>2, <2>7 DEF WriteInv
  <2> QED BY <2>3, <2>8 DEF StageInv, UnlinkInv, LeaseStageInv, Stages, Inside
<1>4. LeaseInv'
    BY ValuesAssumption, BoundsAssumption
    DEF LeaseRead, Truncate, Put, Goto, history, IInv, TypeOK, LeaseInv, Dirs, File, Job,
        NoOp, NoLease, Readable, StageInv, WriteInv, UnlinkInv, At, Expired, FreshLease
<1> QED BY <1>1, <1>2, <1>3, <1>4 DEF IInv

LEMMA LeaseReadFailsPreserves ==
    ASSUME NEW p \in Procs, IInv, LeaseReadFails(p)
    PROVE  IInv'
<1>1. TypeOK'
    BY ValuesAssumption, BoundsAssumption
    DEF LeaseReadFails, Release, Goto, history, IInv, TypeOK, Dirs, File, Job, Op, NoOp,
        NoLease, Stages, Inside, Readable, StageInv, LeaseStageInv, WriteInv, UnlinkInv, At,
        Expired
<1>2. LockInv'
    BY ValuesAssumption, BoundsAssumption
    DEF LeaseReadFails, Release, Goto, history, IInv, TypeOK, LockInv, Stages, Inside,
        StageInv, WriteInv, At
<1>3. StageInv'
    BY ValuesAssumption, BoundsAssumption
    DEF LeaseReadFails, Release, Goto, history, IInv, TypeOK, LockInv, LeaseInv, Dirs,
        File, Job, Op, NoOp, NoLease, Stages, Inside, Readable, StageInv, LeaseStageInv,
        WriteInv, UnlinkInv, At, Expired, FreshLease
<1>4. LeaseInv'
    BY ValuesAssumption, BoundsAssumption
    DEF LeaseReadFails, Release, Goto, history, IInv, TypeOK, LeaseInv, Dirs, File, Job,
        NoOp, NoLease, Readable, StageInv, WriteInv, UnlinkInv, At, Expired, FreshLease
<1> QED BY <1>1, <1>2, <1>3, <1>4 DEF IInv

LEMMA WriteBackPreserves ==
    ASSUME NEW p \in Procs, IInv, WriteBack(p)
    PROVE  IInv'
<1>1. TypeOK'
    BY ValuesAssumption, BoundsAssumption
    DEF WriteBack, Put, Goto, history, IInv, TypeOK, Dirs, File, Job, Op, NoOp, NoLease,
        Stages, Inside, Readable, StageInv, LeaseStageInv, WriteInv, UnlinkInv, At, Expired
<1>2. LockInv'
    BY ValuesAssumption, BoundsAssumption
    DEF WriteBack, Put, Goto, history, IInv, TypeOK, LockInv, Stages, Inside, StageInv,
        WriteInv, At
<1>3. StageInv'
    BY ValuesAssumption, BoundsAssumption
    DEF WriteBack, Put, Goto, history, IInv, TypeOK, LockInv, LeaseInv, Dirs, File, Job,
        Op, NoOp, NoLease, Stages, Inside, Readable, StageInv, LeaseStageInv, WriteInv,
        UnlinkInv, At, Expired, FreshLease
<1>4. LeaseInv'
    BY ValuesAssumption, BoundsAssumption
    DEF WriteBack, Put, Goto, history, IInv, TypeOK, LeaseInv, Dirs, File, Job, NoOp,
        NoLease, Readable, StageInv, WriteInv, UnlinkInv, At, Expired, FreshLease
<1> QED BY <1>1, <1>2, <1>3, <1>4 DEF IInv

LEMMA LeaseReplyPreserves ==
    ASSUME NEW p \in Procs, IInv, LeaseReply(p)
    PROVE  IInv'
<1>1. TypeOK'
    BY ValuesAssumption, BoundsAssumption
    DEF LeaseReply, Release, Goto, history, IInv, TypeOK, Dirs, File, Job, Op, NoOp,
        NoLease, Stages, Inside, Readable, StageInv, LeaseStageInv, WriteInv, UnlinkInv, At,
        Expired
<1>2. LockInv'
    BY ValuesAssumption, BoundsAssumption
    DEF LeaseReply, Release, Goto, history, IInv, TypeOK, LockInv, Stages, Inside,
        StageInv, WriteInv, At
<1>3. StageInv'
    BY ValuesAssumption, BoundsAssumption
    DEF LeaseReply, Release, Goto, history, IInv, TypeOK, LockInv, LeaseInv, Dirs, File,
        Job, Op, NoOp, NoLease, Stages, Inside, Readable, StageInv, LeaseStageInv, WriteInv,
        UnlinkInv, At, Expired, FreshLease
<1>4. LeaseInv'
    BY ValuesAssumption, BoundsAssumption
    DEF LeaseReply, Release, Goto, history, IInv, TypeOK, LeaseInv, Dirs, File, Job, NoOp,
        NoLease, Readable, StageInv, WriteInv, UnlinkInv, At, Expired, FreshLease
<1> QED BY <1>1, <1>2, <1>3, <1>4 DEF IInv

LEMMA CompletePreserves ==
    ASSUME NEW p \in Procs, NEW j, NEW l, IInv, Complete(p, j, l)
    PROVE  IInv'
<1>1. TypeOK'
    BY ValuesAssumption, BoundsAssumption
    DEF Complete, HoldsLease, Acquire, Put, Goto, history, IInv, TypeOK, Dirs, File, Job,
        Op, NoOp, NoLease, Stages, Inside, Readable, StageInv, LeaseStageInv, WriteInv,
        UnlinkInv, At, Expired
<1>2. LockInv'
    BY ValuesAssumption, BoundsAssumption
    DEF Complete, HoldsLease, Acquire, Put, Goto, history, IInv, TypeOK, LockInv, Stages,
        Inside, StageInv, WriteInv, At
<1>3. StageInv'
    BY ValuesAssumption, BoundsAssumption
    DEF Complete, HoldsLease, Acquire, Put, Goto, history, IInv, TypeOK, LockInv,
        LeaseInv, Dirs, File, Job, Op, NoOp, NoLease, Stages, Inside, Readable, StageInv,
        LeaseStageInv, WriteInv, UnlinkInv, At, Expired, FreshLease
<1>4. LeaseInv'
    BY ValuesAssumption, BoundsAssumption
    DEF Complete, HoldsLease, Acquire, Put, Goto, history, IInv, TypeOK, LeaseInv, Dirs,
        File, Job, NoOp, NoLease, Readable, StageInv, WriteInv, UnlinkInv, At, Expired,
        FreshLease
<1> QED BY <1>1, <1>2, <1>3, <1>4 DEF IInv

LEMMA FailPreserves ==
    ASSUME NEW p \in Procs, NEW j, NEW l, IInv, Fail(p, j, l)
    PROVE  IInv'
<1>1. TypeOK'
  <2>1. j \in Jobs /\ dir["processing"][j] \in Job
    BY DEF Fail, HoldsLease, Readable, IInv, TypeOK, Dirs, File
  <2>2. op' \in Op
    BY <2>1 DEF Fail, Truncate, IInv, TypeOK, Op, Dirs, Stages, Inside
  <2>3. dir' \in [Dirs -> [Jobs -> File]]
    BY <2>1 DEF Fail, Truncate, Put, IInv, TypeOK, Dirs, File
  <2>4. pc' \in [Procs -> Stages] /\ lock' \in Procs \cup {NoProc}
    BY DEF Fail, Acquire, Goto, IInv, TypeOK, Stages, Inside
  <2>5. closed' \in SUBSET granted' /\ completed' \in SUBSET closed'
    BY DEF Fail, IInv, TypeOK
  <2> QED BY <2>2, <2>3, <2>4, <2>5 DEF Fail, IInv, TypeOK
<1>2. LockInv'
    BY ValuesAssumption, BoundsAssumption
    DEF Fail, HoldsLease, Acquire, Truncate, Put, Goto, history, IInv, TypeOK, LockInv,
        Stages, Inside, StageInv, WriteInv, At
<1>3. StageInv'
    BY ValuesAssumption, BoundsAssumption
    DEF Fail, HoldsLease, Acquire, Truncate, Put, Goto, history, IInv, TypeOK, LockInv,
        LeaseInv, Dirs, File, Job, Op, NoOp, NoLease, Stages, Inside, Readable, StageInv,
        LeaseStageInv, WriteInv, UnlinkInv, At, Expired, FreshLease
<1>4. LeaseInv'
    BY ValuesAssumption, BoundsAssumption
    DEF Fail, HoldsLease, Acquire, Truncate, Put, Goto, history, IInv, TypeOK, LeaseInv,
        Dirs, File, Job, NoOp, NoLease, Readable, StageInv, WriteInv, UnlinkInv, At, Expired,
        FreshLease
<1> QED BY <1>1, <1>2, <1>3, <1>4 DEF IInv

LEMMA FailUnlinkPreserves ==
    ASSUME NEW p \in Procs, IInv, FailUnlink(p)
    PROVE  IInv'
<1>1. TypeOK'
    BY ValuesAssumption, BoundsAssumption
    DEF FailUnlink, Put, Goto, history, IInv, TypeOK, Dirs, File, Job, Op, NoOp, NoLease,
        Stages, Inside, Readable, StageInv, LeaseStageInv, WriteInv, UnlinkInv, At, Expired
<1>2. LockInv'
    BY ValuesAssumption, BoundsAssumption
    DEF FailUnlink, Put, Goto, history, IInv, TypeOK, LockInv, Stages, Inside, StageInv,
        WriteInv, At
<1>3. StageInv'
    BY ValuesAssumption, BoundsAssumption
    DEF FailUnlink, Put, Goto, history, IInv, TypeOK, LockInv, LeaseInv, Dirs, File, Job,
        Op, NoOp, NoLease, Stages, Inside, Readable, StageInv, LeaseStageInv, WriteInv,
        UnlinkInv, At, Expired, FreshLease
<1>4. LeaseInv'
    BY ValuesAssumption, BoundsAssumption
    DEF FailUnlink, Put, Goto, history, IInv, TypeOK, LeaseInv, Dirs, File, Job, NoOp,
        NoLease, Readable, StageInv, WriteInv, UnlinkInv, At, Expired, FreshLease
<1> QED BY <1>1, <1>2, <1>3, <1>4 DEF IInv

LEMMA RecoverBeginPreserves ==
    ASSUME NEW p \in Procs, IInv, RecoverBegin(p)
    PROVE  IInv'
<1>1. TypeOK'
    BY ValuesAssumption, BoundsAssumption
    DEF RecoverBegin, Acquire, Goto, Present, history, IInv, TypeOK, Dirs, File, Job, Op,
        NoOp, NoLease, Stages, Inside, Readable, StageInv, LeaseStageInv, WriteInv, UnlinkInv,
        At, Expired
<1>2. LockInv'
    BY ValuesAssumption, BoundsAssumption
    DEF RecoverBegin, Acquire, Goto, Present, history, IInv, TypeOK, LockInv, Stages,
        Inside, StageInv, WriteInv, At
<1>3. StageInv'
    BY ValuesAssumption, BoundsAssumption
    DEF RecoverBegin, Acquire, Goto, Present, history, IInv, TypeOK, LockInv, LeaseInv,
        Dirs, File, Job, Op, NoOp, NoLease, Stages, Inside, Readable, StageInv, LeaseStageInv,
        WriteInv, UnlinkInv, At, Expired, FreshLease
<1>4. LeaseInv'
    BY ValuesAssumption, BoundsAssumption
    DEF RecoverBegin, Acquire, Goto, Present, history, IInv, TypeOK, LeaseInv, Dirs, File,
        Job, NoOp, NoLease, Readable, StageInv, WriteInv, UnlinkInv, At, Expired, FreshLease
<1> QED BY <1>1, <1>2, <1>3, <1>4 DEF IInv

LEMMA ScanKeepPreserves ==
    ASSUME NEW p \in Procs, IInv, ScanKeep(p)
    PROVE  IInv'
<1>1. TypeOK'
    BY ValuesAssumption, BoundsAssumption, LeastIsMember
    DEF ScanKeep, Scanning, history, IInv, TypeOK, Dirs, File, Job, Op, NoOp, NoLease,
        Stages, Inside, Readable, StageInv, LeaseStageInv, WriteInv, UnlinkInv, At, Expired
<1>2. LockInv'
    BY ValuesAssumption, BoundsAssumption
    DEF ScanKeep, Scanning, history, IInv, TypeOK, LockInv, Stages, Inside, StageInv,
        WriteInv, At
<1>3. StageInv'
    BY ValuesAssumption, BoundsAssumption, LeastIsMember
    DEF ScanKeep, Scanning, history, IInv, TypeOK, LockInv, LeaseInv, Dirs, File, Job, Op,
        NoOp, NoLease, Stages, Inside, Readable, StageInv, LeaseStageInv, WriteInv, UnlinkInv,
        At, Expired, FreshLease
<1>4. LeaseInv'
    BY ValuesAssumption, BoundsAssumption, LeastIsMember
    DEF ScanKeep, Scanning, history, IInv, TypeOK, LeaseInv, Dirs, File, Job, NoOp,
        NoLease, Readable, StageInv, WriteInv, UnlinkInv, At, Expired, FreshLease
<1> QED BY <1>1, <1>2, <1>3, <1>4 DEF IInv

LEMMA ScanFailsPreserves ==
    ASSUME NEW p \in Procs, IInv, ScanFails(p)
    PROVE  IInv'
<1>1. TypeOK'
    BY ValuesAssumption, BoundsAssumption, LeastIsMember
    DEF ScanFails, Scanning, Release, Goto, history, IInv, TypeOK, Dirs, File, Job, Op,
        NoOp, NoLease, Stages, Inside, Readable, StageInv, LeaseStageInv, WriteInv, UnlinkInv,
        At, Expired
<1>2. LockInv'
    BY ValuesAssumption, BoundsAssumption
    DEF ScanFails, Scanning, Release, Goto, history, IInv, TypeOK, LockInv, Stages,
        Inside, StageInv, WriteInv, At
<1>3. StageInv'
    BY ValuesAssumption, BoundsAssumption, LeastIsMember
    DEF ScanFails, Scanning, Release, Goto, history, IInv, TypeOK, LockInv, LeaseInv,
        Dirs, File, Job, Op, NoOp, NoLease, Stages, Inside, Readable, StageInv, LeaseStageInv,
        WriteInv, UnlinkInv, At, Expired, FreshLease
<1>4. LeaseInv'
    BY ValuesAssumption, BoundsAssumption, LeastIsMember
    DEF ScanFails, Scanning, Release, Goto, history, IInv, TypeOK, LeaseInv, Dirs, File,
        Job, NoOp, NoLease, Readable, StageInv, WriteInv, UnlinkInv, At, Expired, FreshLease
<1> QED BY <1>1, <1>2, <1>3, <1>4 DEF IInv

LEMMA ScanExpiredPreserves ==
    ASSUME NEW p \in Procs, IInv, ScanExpired(p)
    PROVE  IInv'
<1>a. PICK j \in Jobs : j = Least(op.todo)
    BY LeastIsMember DEF ScanExpired, Scanning, IInv, TypeOK, Op
<1>b. PICK job \in Job : job = dir["processing"][j] /\ Expired(j)
    BY <1>a DEF ScanExpired, Expired, Readable, IInv, TypeOK, Dirs, File
<1>c. [job EXCEPT !.lease = NoLease] \in Job /\ [job EXCEPT !.lease = NoLease].lease = NoLease
    BY <1>b DEF Job, NoLease
<1>d. PICK target \in {"pending", "dead"}, rec \in Job :
        /\ target = "pending" => rec.lease = NoLease
        /\ dir' = [dir EXCEPT ![target][j] = Torn]
        /\ op' = [op EXCEPT !.job = j, !.rec = rec, !.target = target, !.after = "scan_unlink"]
    BY <1>a, <1>b, <1>c DEF ScanExpired, Truncate, Put
<1>e. /\ lock = p /\ lock' = p /\ pc' = [pc EXCEPT ![p] = "write"]
      /\ UNCHANGED <<issued, expired, due, granted, enqueued, closed, completed, revoked, aborts>>
    BY DEF ScanExpired, Scanning, Goto, history
<1>1. TypeOK'
    BY <1>a, <1>d, <1>e DEF IInv, TypeOK, Dirs, File, Op, Stages, Inside
<1>2. LockInv'
    BY ValuesAssumption, BoundsAssumption
    DEF ScanExpired, Scanning, Truncate, Put, Goto, history, IInv, TypeOK, LockInv,
        Stages, Inside, StageInv, WriteInv, At
<1>3. StageInv'
  <2>1. dir'["processing"] = dir["processing"]
    BY <1>a, <1>d DEF IInv, TypeOK, Dirs
  <2>2. op'.job = j /\ op'.target = target /\ op'.after = "scan_unlink" /\ op'.rec = rec
    BY <1>d DEF IInv, TypeOK, Op
  <2>3. At("write")' /\ \A s \in Stages \ {"write"} : ~ At(s)'
    BY <1>e, ValuesAssumption DEF At, IInv, TypeOK, Stages, Inside
  <2>4. Expired(j)'
    BY <1>b, <1>e, <2>1 DEF Expired, Readable
  <2> QED BY <1>a, <1>d, <2>2, <2>3, <2>4 DEF StageInv, WriteInv, UnlinkInv, LeaseStageInv,
       Expired, Readable, Stages, Inside
<1>4. LeaseInv'
  <2>1. dir'["processing"] = dir["processing"]
    BY <1>a, <1>d DEF IInv, TypeOK, Dirs
  <2>2. \A i \in Jobs : dir'["pending"][i] \in {Torn, dir["pending"][i]}
    BY <1>a, <1>d DEF IInv, TypeOK, Dirs
  <2> QED BY <1>e, <2>1, <2>2 DEF IInv, LeaseInv, Readable
<1> QED BY <1>1, <1>2, <1>3, <1>4 DEF IInv

LEMMA ScanUnlinkPreserves ==
    ASSUME NEW p \in Procs, IInv, ScanUnlink(p)
    PROVE  IInv'
<1>1. TypeOK'
    BY ValuesAssumption, BoundsAssumption
    DEF ScanUnlink, Put, Goto, history, IInv, TypeOK, Dirs, File, Job, Op, NoOp, NoLease,
        Stages, Inside, Readable, StageInv, LeaseStageInv, WriteInv, UnlinkInv, At, Expired
<1>2. LockInv'
    BY ValuesAssumption, BoundsAssumption
    DEF ScanUnlink, Put, Goto, history, IInv, TypeOK, LockInv, Stages, Inside, StageInv,
        WriteInv, At
<1>3. StageInv'
    BY ValuesAssumption, BoundsAssumption
    DEF ScanUnlink, Put, Goto, history, IInv, TypeOK, LockInv, LeaseInv, Dirs, File, Job,
        Op, NoOp, NoLease, Stages, Inside, Readable, StageInv, LeaseStageInv, WriteInv,
        UnlinkInv, At, Expired, FreshLease
<1>4. LeaseInv'
    BY ValuesAssumption, BoundsAssumption
    DEF ScanUnlink, Put, Goto, history, IInv, TypeOK, LeaseInv, Dirs, File, Job, NoOp,
        NoLease, Readable, StageInv, WriteInv, UnlinkInv, At, Expired, FreshLease
<1> QED BY <1>1, <1>2, <1>3, <1>4 DEF IInv

LEMMA ScanDonePreserves ==
    ASSUME NEW p \in Procs, IInv, ScanDone(p)
    PROVE  IInv'
<1>1. TypeOK'
    BY ValuesAssumption, BoundsAssumption
    DEF ScanDone, Release, Goto, history, IInv, TypeOK, Dirs, File, Job, Op, NoOp,
        NoLease, Stages, Inside, Readable, StageInv, LeaseStageInv, WriteInv, UnlinkInv, At,
        Expired
<1>2. LockInv'
    BY ValuesAssumption, BoundsAssumption
    DEF ScanDone, Release, Goto, history, IInv, TypeOK, Op, LockInv, Stages, Inside,
        StageInv, WriteInv, At
<1>3. StageInv'
    BY ValuesAssumption, BoundsAssumption
    DEF ScanDone, Release, Goto, history, IInv, TypeOK, LockInv, LeaseInv, Dirs, File,
        Job, Op, NoOp, NoLease, Stages, Inside, Readable, StageInv, LeaseStageInv, WriteInv,
        UnlinkInv, At, Expired, FreshLease
<1>4. LeaseInv'
    BY ValuesAssumption, BoundsAssumption
    DEF ScanDone, Release, Goto, history, IInv, TypeOK, LeaseInv, Dirs, File, Job, NoOp,
        NoLease, Readable, StageInv, WriteInv, UnlinkInv, At, Expired, FreshLease
<1> QED BY <1>1, <1>2, <1>3, <1>4 DEF IInv

LEMMA ArchiveBeginPreserves ==
    ASSUME NEW p \in Procs, IInv, ArchiveBegin(p)
    PROVE  IInv'
<1>1. TypeOK'
    BY ValuesAssumption, BoundsAssumption
    DEF ArchiveBegin, Acquire, Goto, Present, history, IInv, TypeOK, Dirs, File, Job, Op,
        NoOp, NoLease, Stages, Inside, Readable, StageInv, LeaseStageInv, WriteInv, UnlinkInv,
        At, Expired
<1>2. LockInv'
    BY ValuesAssumption, BoundsAssumption
    DEF ArchiveBegin, Acquire, Goto, Present, history, IInv, TypeOK, LockInv, Stages,
        Inside, StageInv, WriteInv, At
<1>3. StageInv'
    BY ValuesAssumption, BoundsAssumption
    DEF ArchiveBegin, Acquire, Goto, Present, history, IInv, TypeOK, LockInv, LeaseInv,
        Dirs, File, Job, Op, NoOp, NoLease, Stages, Inside, Readable, StageInv, LeaseStageInv,
        WriteInv, UnlinkInv, At, Expired, FreshLease
<1>4. LeaseInv'
    BY ValuesAssumption, BoundsAssumption
    DEF ArchiveBegin, Acquire, Goto, Present, history, IInv, TypeOK, LeaseInv, Dirs, File,
        Job, NoOp, NoLease, Readable, StageInv, WriteInv, UnlinkInv, At, Expired, FreshLease
<1> QED BY <1>1, <1>2, <1>3, <1>4 DEF IInv

LEMMA ArchiveKeepPreserves ==
    ASSUME NEW p \in Procs, IInv, ArchiveKeep(p)
    PROVE  IInv'
<1>1. TypeOK'
    BY ValuesAssumption, BoundsAssumption, LeastIsMember
    DEF ArchiveKeep, Archiving, history, IInv, TypeOK, Dirs, File, Job, Op, NoOp, NoLease,
        Stages, Inside, Readable, StageInv, LeaseStageInv, WriteInv, UnlinkInv, At, Expired
<1>2. LockInv'
    BY ValuesAssumption, BoundsAssumption
    DEF ArchiveKeep, Archiving, history, IInv, TypeOK, LockInv, Stages, Inside, StageInv,
        WriteInv, At
<1>3. StageInv'
    BY ValuesAssumption, BoundsAssumption, LeastIsMember
    DEF ArchiveKeep, Archiving, history, IInv, TypeOK, LockInv, LeaseInv, Dirs, File, Job,
        Op, NoOp, NoLease, Stages, Inside, Readable, StageInv, LeaseStageInv, WriteInv,
        UnlinkInv, At, Expired, FreshLease
<1>4. LeaseInv'
    BY ValuesAssumption, BoundsAssumption, LeastIsMember
    DEF ArchiveKeep, Archiving, history, IInv, TypeOK, LeaseInv, Dirs, File, Job, NoOp,
        NoLease, Readable, StageInv, WriteInv, UnlinkInv, At, Expired, FreshLease
<1> QED BY <1>1, <1>2, <1>3, <1>4 DEF IInv

LEMMA ArchiveMovePreserves ==
    ASSUME NEW p \in Procs, IInv, ArchiveMove(p)
    PROVE  IInv'
<1>1. TypeOK'
    BY ValuesAssumption, BoundsAssumption, LeastIsMember, SMTT(30)
    DEF ArchiveMove, Archiving, history, IInv, TypeOK, Dirs, File, Job, Op, NoOp, NoLease,
        Stages, Inside, Readable, StageInv, LeaseStageInv, WriteInv, UnlinkInv, At, Expired
<1>2. LockInv'
    BY ValuesAssumption, BoundsAssumption
    DEF ArchiveMove, Archiving, history, IInv, TypeOK, LockInv, Stages, Inside, StageInv,
        WriteInv, At
<1>3. StageInv'
    BY ValuesAssumption, BoundsAssumption, LeastIsMember
    DEF ArchiveMove, Archiving, history, IInv, TypeOK, LockInv, LeaseInv, Dirs, File, Job,
        Op, NoOp, NoLease, Stages, Inside, Readable, StageInv, LeaseStageInv, WriteInv,
        UnlinkInv, At, Expired, FreshLease
<1>4. LeaseInv'
    BY ValuesAssumption, BoundsAssumption, LeastIsMember
    DEF ArchiveMove, Archiving, history, IInv, TypeOK, LeaseInv, Dirs, File, Job, NoOp,
        NoLease, Readable, StageInv, WriteInv, UnlinkInv, At, Expired, FreshLease
<1> QED BY <1>1, <1>2, <1>3, <1>4 DEF IInv

LEMMA ArchiveEndPreserves ==
    ASSUME NEW p \in Procs, IInv, ArchiveEnd(p)
    PROVE  IInv'
<1>1. TypeOK'
    BY ValuesAssumption, BoundsAssumption, LeastIsMember
    DEF ArchiveEnd, Release, Goto, history, IInv, TypeOK, Dirs, File, Job, Op, NoOp,
        NoLease, Stages, Inside, Readable, StageInv, LeaseStageInv, WriteInv, UnlinkInv, At,
        Expired
<1>2. LockInv'
    BY ValuesAssumption, BoundsAssumption
    DEF ArchiveEnd, Release, Goto, history, IInv, TypeOK, LockInv, Stages, Inside,
        StageInv, WriteInv, At
<1>3. StageInv'
    BY ValuesAssumption, BoundsAssumption, LeastIsMember
    DEF ArchiveEnd, Release, Goto, history, IInv, TypeOK, LockInv, LeaseInv, Dirs, File,
        Job, Op, NoOp, NoLease, Stages, Inside, Readable, StageInv, LeaseStageInv, WriteInv,
        UnlinkInv, At, Expired, FreshLease
<1>4. LeaseInv'
    BY ValuesAssumption, BoundsAssumption, LeastIsMember
    DEF ArchiveEnd, Release, Goto, history, IInv, TypeOK, LeaseInv, Dirs, File, Job, NoOp,
        NoLease, Readable, StageInv, WriteInv, UnlinkInv, At, Expired, FreshLease
<1> QED BY <1>1, <1>2, <1>3, <1>4 DEF IInv

LEMMA SweepComesDuePreserves ==
    ASSUME IInv, SweepComesDue
    PROVE  IInv'
<1>1. TypeOK'
    BY ValuesAssumption, BoundsAssumption
    DEF SweepComesDue, history, IInv, TypeOK, Dirs, File, Job, Op, NoOp, NoLease, Stages,
        Inside, Readable, StageInv, LeaseStageInv, WriteInv, UnlinkInv, At, Expired
<1>2. LockInv'
    BY ValuesAssumption, BoundsAssumption
    DEF SweepComesDue, history, IInv, TypeOK, LockInv, Stages, Inside, StageInv, WriteInv,
        At
<1>3. StageInv'
    BY ValuesAssumption, BoundsAssumption
    DEF SweepComesDue, history, IInv, TypeOK, LockInv, LeaseInv, Dirs, File, Job, Op,
        NoOp, NoLease, Stages, Inside, Readable, StageInv, LeaseStageInv, WriteInv, UnlinkInv,
        At, Expired, FreshLease
<1>4. LeaseInv'
    BY ValuesAssumption, BoundsAssumption
    DEF SweepComesDue, history, IInv, TypeOK, LeaseInv, Dirs, File, Job, NoOp, NoLease,
        Readable, StageInv, WriteInv, UnlinkInv, At, Expired, FreshLease
<1> QED BY <1>1, <1>2, <1>3, <1>4 DEF IInv

LEMMA LeaseExpiresPreserves ==
    ASSUME NEW l \in 1..issued, IInv, LeaseExpires(l)
    PROVE  IInv'
<1>1. TypeOK'
    BY ValuesAssumption, BoundsAssumption
    DEF LeaseExpires, history, IInv, TypeOK, Dirs, File, Job, Op, NoOp, NoLease, Stages,
        Inside, Readable, StageInv, LeaseStageInv, WriteInv, UnlinkInv, At, Expired
<1>2. LockInv'
    BY ValuesAssumption, BoundsAssumption
    DEF LeaseExpires, history, IInv, TypeOK, LockInv, Stages, Inside, StageInv, WriteInv,
        At
<1>3. StageInv'
    BY ValuesAssumption, BoundsAssumption
    DEF LeaseExpires, history, IInv, TypeOK, LockInv, LeaseInv, Dirs, File, Job, Op, NoOp,
        NoLease, Stages, Inside, Readable, StageInv, LeaseStageInv, WriteInv, UnlinkInv, At,
        Expired, FreshLease
<1>4. LeaseInv'
    BY ValuesAssumption, BoundsAssumption
    DEF LeaseExpires, history, IInv, TypeOK, LeaseInv, Dirs, File, Job, NoOp, NoLease,
        Readable, StageInv, WriteInv, UnlinkInv, At, Expired, FreshLease
<1> QED BY <1>1, <1>2, <1>3, <1>4 DEF IInv

LEMMA AbortPreserves ==
    ASSUME NEW p \in Procs, IInv, Abort(p)
    PROVE  IInv'
<1>1. TypeOK'
    BY ValuesAssumption, BoundsAssumption
    DEF Abort, Release, Goto, history, IInv, TypeOK, Dirs, File, Job, Op, NoOp, NoLease,
        Stages, Inside, Readable, StageInv, LeaseStageInv, WriteInv, UnlinkInv, At, Expired
<1>2. LockInv'
    BY ValuesAssumption, BoundsAssumption
    DEF Abort, Release, Goto, history, IInv, TypeOK, LockInv, Stages, Inside, StageInv,
        WriteInv, At
<1>3. StageInv'
    BY ValuesAssumption, BoundsAssumption
    DEF Abort, Release, Goto, history, IInv, TypeOK, LockInv, LeaseInv, Dirs, File, Job,
        Op, NoOp, NoLease, Stages, Inside, Readable, StageInv, LeaseStageInv, WriteInv,
        UnlinkInv, At, Expired, FreshLease
<1>4. LeaseInv'
    BY ValuesAssumption, BoundsAssumption
    DEF Abort, Release, Goto, history, IInv, TypeOK, LeaseInv, Dirs, File, Job, NoOp,
        NoLease, Readable, StageInv, WriteInv, UnlinkInv, At, Expired, FreshLease
<1> QED BY <1>1, <1>2, <1>3, <1>4 DEF IInv

LEMMA InitEstablishes == Init => IInv
<1> SUFFICES ASSUME Init PROVE IInv
    OBVIOUS
<1>1. TypeOK
    BY ValuesAssumption, BoundsAssumption
    DEF Init, TypeOK, Dirs, File, Job, Op, NoOp, NoLease, Stages, Inside
<1>2. LockInv
    BY ValuesAssumption DEF Init, LockInv, Inside
<1>3. StageInv
    BY DEF Init, StageInv, WriteInv, UnlinkInv, LeaseStageInv, At
<1>4. LeaseInv
    BY DEF Init, LeaseInv, Readable, Dirs
<1> QED BY <1>1, <1>2, <1>3, <1>4 DEF IInv

LEMMA NextPreserves == IInv /\ [Next]_vars => IInv'
<1> SUFFICES ASSUME IInv, [Next]_vars PROVE IInv'
    OBVIOUS
<1>1. ASSUME NEW p \in Procs, Step(p) PROVE IInv'
    BY <1>1, ReplyPreserves, LeaseReadPreserves, LeaseReadFailsPreserves, WriteBackPreserves,
       LeaseReplyPreserves, FailUnlinkPreserves, ScanKeepPreserves, ScanFailsPreserves,
       ScanExpiredPreserves, ScanUnlinkPreserves, ScanDonePreserves, ArchiveKeepPreserves,
       ArchiveMovePreserves, ArchiveEndPreserves, Zenon DEF Step
<1>2. ASSUME NEW p \in Procs, NEW prios, LeaseTake(p, prios) PROVE IInv'
    BY <1>2, LeaseNonePreserves, LeaseRenamePreserves DEF LeaseTake
<1>3. ASSUME NEW p \in Procs, NEW g \in granted, Complete(p, g[1], g[2]) \/ Fail(p, g[1], g[2])
      PROVE  IInv'
    BY <1>3, CompletePreserves, FailPreserves
<1>4. ASSUME NEW p \in Procs, NEW j \in Jobs, NEW m \in 1..MaxAttemptsLimit, Enqueue(p, j, m)
      PROVE  IInv'
    BY <1>4, EnqueuePreserves
<1>5. ASSUME NEW p \in Procs,
             LeaseCall(p) \/ RecoverBegin(p) \/ ArchiveBegin(p) \/ Abort(p)
      PROVE  IInv'
    BY <1>5, LeaseCallPreserves, RecoverBeginPreserves, ArchiveBeginPreserves, AbortPreserves
<1>6. CASE SweepComesDue \/ \E l \in 1..issued : LeaseExpires(l)
    BY <1>6, SweepComesDuePreserves, LeaseExpiresPreserves
<1>7. CASE UNCHANGED vars
    BY <1>7 DEF vars, IInv, TypeOK, LockInv, StageInv, WriteInv, UnlinkInv, LeaseStageInv, At,
       FreshLease, Expired, Readable, LeaseInv
<1> QED BY <1>1, <1>2, <1>3, <1>4, <1>5, <1>6, <1>7 DEF Next

LEMMA Invariance == Spec => []IInv
    BY InitEstablishes, NextPreserves, PTL DEF Spec

-----------------------------------------------------------------------------
(* The theorems *)

\* Every variable of the queue stays in its type.
THEOREM TypeCorrect == Spec => []TypeOK
<1>1. IInv => TypeOK
    BY DEF IInv
<1> QED BY <1>1, Invariance, PTL

\* queue_lock excludes: two calls are never inside their critical sections at
\* once, and a call inside holds the lock.
QueueLockExcludes ==
    \A p, q \in Procs : pc[p] \in Inside /\ pc[q] \in Inside => p = q

THEOREM MutualExclusion == Spec => []QueueLockExcludes
<1>1. IInv => QueueLockExcludes
    BY DEF IInv, LockInv, QueueLockExcludes
<1> QED BY <1>1, Invariance, PTL

\* No complete and no fail is accepted under a lease a recovery took back.
THEOREM FencedLeases == Spec => NoRevokedClose
<1>1. ASSUME IInv, [Next]_vars
      PROVE  [\A g \in closed' \ closed : g[2] \notin revoked]_vars
  <2>1. ASSUME NEW p \in Procs, NEW j, NEW l, Complete(p, j, l) \/ Fail(p, j, l)
        PROVE  \A g \in closed' \ closed : g[2] \notin revoked
    <3>1. l \notin revoked
        BY <1>1, <2>1 DEF Complete, Fail, HoldsLease, IInv, TypeOK, LeaseInv
    <3> QED BY <2>1, <3>1 DEF Complete, Fail
  <2>2. \/ closed' = closed
        \/ \E p \in Procs, g \in granted : Complete(p, g[1], g[2]) \/ Fail(p, g[1], g[2])
    BY <1>1
    DEF Next, Step, LeaseTake, vars, history, Enqueue, LeaseCall, LeaseNone, LeaseRename,
       RecoverBegin, ArchiveBegin, Abort, Reply, LeaseRead, LeaseReadFails, WriteBack, LeaseReply,
       FailUnlink, ScanKeep, ScanFails, ScanExpired, ScanUnlink, ScanDone, ArchiveKeep,
       ArchiveMove, ArchiveEnd, SweepComesDue, LeaseExpires
  <2> QED BY <2>1, <2>2
<1> QED BY <1>1, Invariance, PTL DEF Spec, NoRevokedClose

\* A job whose file moves keeps a file: in every action but complete's unlink,
\* each job present before the step is present in some directory after it.
LEMMA PresentStays ==
    ASSUME IInv, [Next]_vars, NEW j \in Jobs, NEW d \in Dirs, j \in Present(d)
    PROVE  (\E g \in completed' : g[1] = j) \/ (\E e \in Dirs : j \in Present(e)')
<1> USE DEF Present
<1>a. dir[d][j] # NoFile /\ NoFile # Torn /\ NoFile \notin Job
    BY ValuesAssumption
<1>b. dir \in [Dirs -> [Jobs -> File]] /\ op.rec \in Job
    BY DEF IInv, TypeOK, Op
<1>1. ASSUME NEW e \in Dirs, NEW i \in Jobs, NEW f, f # NoFile, Put(e, i, f)
      PROVE  dir'[d][j] # NoFile
    BY <1>1, <1>a, <1>b DEF Put
<1>2. CASE UNCHANGED dir
    BY <1>2, <1>a
<1>3. ASSUME NEW p \in Procs, NEW i \in Jobs, NEW m \in 1..MaxAttemptsLimit, Enqueue(p, i, m)
      PROVE  dir'[d][j] # NoFile
  <2>1. [lease |-> NoLease, tries |-> 0, max |-> m] \in Job
    BY <1>3, BoundsAssumption DEF Job, NoLease
  <2> QED BY <1>1, <1>3, <1>a, <2>1 DEF Enqueue, Dirs
<1>4. ASSUME NEW p \in Procs, NEW prios, LeaseRename(p, prios)
      PROVE  \E e \in Dirs : dir'[e][j] # NoFile
  <2>1. PICK i \in Jobs : /\ dir["pending"][i] # NoFile
                          /\ dir' = [dir EXCEPT !["processing"][i] = dir["pending"][i],
                                                !["pending"][i] = NoFile]
    <3>1. Least(Candidates(prios)) \in Candidates(prios)
        BY <1>4, LeastIsMember DEF LeaseRename, Candidates
    <3> QED BY <1>4, <3>1 DEF LeaseRename, Candidates
  <2>2. CASE i = j
    <3>1. dir'["processing"][j] # NoFile
        BY <2>1, <2>2, <1>b DEF Dirs
    <3> QED BY <3>1 DEF Dirs
  <2>3. CASE i # j
    BY <2>1, <2>3, <1>a, <1>b
  <2> QED BY <2>2, <2>3
<1>5. ASSUME NEW p \in Procs, LeaseRead(p) \/ WriteBack(p) \/ ScanExpired(p)
      PROVE  dir'[d][j] # NoFile
  <2>1. CASE LeaseRead(p)
    BY <2>1, <1>1, <1>a, ValuesAssumption DEF LeaseRead, Truncate, IInv, StageInv, LeaseStageInv, At, Dirs
  <2>2. CASE WriteBack(p)
    BY <2>2, <1>1, <1>a, <1>b, ValuesAssumption
    DEF WriteBack, IInv, StageInv, WriteInv, At, Dirs
  <2>3. CASE ScanExpired(p)
    <3>1. Least(op.todo) \in Jobs
        BY <2>3, LeastIsMember DEF ScanExpired, Scanning, IInv, TypeOK, Op
    <3> QED BY <2>3, <3>1, <1>1, <1>a DEF ScanExpired, Truncate, Dirs
  <2> QED BY <1>5, <2>1, <2>2, <2>3
<1>6. ASSUME NEW p \in Procs, NEW g \in granted, Complete(p, g[1], g[2])
      PROVE  (\E h \in completed' : h[1] = j) \/ dir'[d][j] # NoFile
    BY <1>6, <1>a, <1>b DEF Complete, Put
<1>7. ASSUME NEW p \in Procs, NEW g \in granted, Fail(p, g[1], g[2])
      PROVE  dir'[d][j] # NoFile
    BY <1>7, <1>1, <1>a DEF Fail, Truncate, IInv, TypeOK, Dirs
<1>8. ASSUME NEW p \in Procs, FailUnlink(p) \/ ScanUnlink(p)
      PROVE  \E e \in Dirs : dir'[e][j] # NoFile
  <2>1. /\ op.job \in Jobs /\ op.target \in {"pending", "dead"}
        /\ dir[op.target][op.job] # NoFile
        /\ dir' = [dir EXCEPT !["processing"][op.job] = NoFile]
    BY <1>8, ValuesAssumption
    DEF FailUnlink, ScanUnlink, Put, IInv, StageInv, UnlinkInv, At
  <2>2. CASE op.job = j
    BY <2>1, <2>2, <1>b DEF Dirs
  <2>3. CASE op.job # j
    BY <2>1, <2>3, <1>a, <1>b
  <2> QED BY <2>2, <2>3
<1>9. ASSUME NEW p \in Procs, ArchiveMove(p)
      PROVE  \E e \in Dirs : dir'[e][j] # NoFile
  <2>1. PICK i \in Jobs : /\ dir["dead"][i] # NoFile
                          /\ dir' = [dir EXCEPT !["archive"][i] = dir["dead"][i],
                                                !["dead"][i] = NoFile]
    BY <1>9, LeastIsMember DEF ArchiveMove, Archiving, Readable, IInv, TypeOK, Op
  <2>2. CASE i = j
    <3>1. dir'["archive"][j] # NoFile
        BY <2>1, <2>2, <1>b DEF Dirs
    <3> QED BY <3>1 DEF Dirs
  <2>3. CASE i # j
    BY <2>1, <2>3, <1>a, <1>b
  <2> QED BY <2>2, <2>3
<1>10. \/ UNCHANGED dir
       \/ \E p \in Procs :
            \/ \E i \in Jobs, m \in 1..MaxAttemptsLimit : Enqueue(p, i, m)
            \/ \E prios : LeaseRename(p, prios)
            \/ LeaseRead(p) \/ WriteBack(p) \/ ScanExpired(p)
            \/ \E g \in granted : Complete(p, g[1], g[2]) \/ Fail(p, g[1], g[2])
            \/ FailUnlink(p) \/ ScanUnlink(p) \/ ArchiveMove(p)
    BY DEF Next, Step, LeaseTake, vars, LeaseCall, LeaseNone, RecoverBegin, ArchiveBegin, Abort,
       Reply, LeaseReadFails, LeaseReply, ScanKeep, ScanFails, ScanDone, ArchiveKeep, ArchiveEnd,
       SweepComesDue, LeaseExpires
<1> QED BY <1>2, <1>3, <1>4, <1>5, <1>6, <1>7, <1>8, <1>9, <1>10

\* However many processes die under the lock: until a complete is accepted for
\* it, an enqueued job has a file in some directory.
THEOREM NoJobLost == Spec => []NeverLost
<1>1. Init => NeverLost
    BY DEF Init, NeverLost
<1>2. ASSUME IInv, NeverLost, [Next]_vars PROVE NeverLost'
  <2>1. ASSUME NEW j \in Jobs, j \in enqueued
        PROVE  (\E g \in completed' : g[1] = j) \/ (\E d \in Dirs : j \in Present(d)')
    <3>1. CASE \E g \in completed : g[1] = j
      <4>1. completed \subseteq completed'
        BY <1>2, ZenonT(30) DEF Next, Step, LeaseTake, vars, history, Enqueue, LeaseCall, LeaseNone,
           LeaseRename, RecoverBegin, ArchiveBegin, Abort, Reply, LeaseRead, LeaseReadFails,
           WriteBack, LeaseReply, FailUnlink, ScanKeep, ScanFails, ScanExpired, ScanUnlink,
           ScanDone, ArchiveKeep, ArchiveMove, ArchiveEnd, SweepComesDue, LeaseExpires,
           Complete, Fail
      <4> QED BY <3>1, <4>1
    <3>2. CASE \E d \in Dirs : j \in Present(d)
        BY <1>2, <3>2, PresentStays
    <3> QED BY <1>2, <2>1, <3>1, <3>2 DEF NeverLost
  <2>2. ASSUME NEW p \in Procs, NEW j \in Jobs, NEW m \in 1..MaxAttemptsLimit, Enqueue(p, j, m)
        PROVE  j \in Present("pending")'
    <3>1. [lease |-> NoLease, tries |-> 0, max |-> m] \in Job
        BY <2>2, BoundsAssumption DEF Job, NoLease
    <3>2. dir'["pending"][j] # NoFile
        BY <1>2, <2>2, <3>1, ValuesAssumption DEF Enqueue, Put, IInv, TypeOK, Dirs
    <3> QED BY <3>2 DEF Present
  <2>3. \/ enqueued' = enqueued
        \/ \E p \in Procs, j \in Jobs, m \in 1..MaxAttemptsLimit :
                Enqueue(p, j, m) /\ enqueued' = enqueued \cup {j}
    BY <1>2, ZenonT(30) DEF Next, Step, LeaseTake, vars, history, Enqueue, LeaseCall, LeaseNone,
       LeaseRename, RecoverBegin, ArchiveBegin, Abort, Reply, LeaseRead, LeaseReadFails,
       WriteBack, LeaseReply, FailUnlink, ScanKeep, ScanFails, ScanExpired, ScanUnlink,
       ScanDone, ArchiveKeep, ArchiveMove, ArchiveEnd, SweepComesDue, LeaseExpires,
       Complete, Fail
  <2>4. enqueued \subseteq Jobs /\ "pending" \in Dirs
    BY <1>2 DEF IInv, TypeOK, Dirs
  <2> QED BY <2>1, <2>2, <2>3, <2>4 DEF NeverLost
<1> QED BY <1>1, <1>2, Invariance, PTL DEF Spec

-----------------------------------------------------------------------------
(* The inductive invariant *)

\* The leases of j that lease_next told a worker.
Grants(j) == {g \in granted : g[1] = j}
Handed(j) == Cardinality(Grants(j))

\* lease_next holds a job it has not handed out yet.
LeaseTaking == At("renamed") \/ (At("write") /\ op.target = "processing")

\* A move has begun: while its target is written, and until its source is unlinked.
Moving == (At("write") /\ op.target # "processing") \/ At("fail_unlink") \/ At("scan_unlink")

Burying == (At("write") /\ op.after = "fail_unlink") \/ At("fail_unlink")

\* There is nothing of a job before it is enqueued.
UnknownInv == \A j \in Jobs \ enqueued :
    /\ \A d \in Dirs : dir[d][j] = NoFile
    /\ Grants(j) = {}

\* The holder of the lock knows what it read and what it has not written yet.
CopyInv ==
    /\ At("renamed") => op.job \in Present("processing")
    /\ LeaseTaking \/ At("leased") => dir["pending"][op.job] = NoFile
    /\ At("write") => dir[op.target][op.job] = Torn
    /\ Moving => Readable("processing", op.job)
    /\ At("write") /\ Moving =>
         /\ op.rec.tries = dir["processing"][op.job].tries
         /\ op.rec.max = dir["processing"][op.job].max
    /\ At("leased") => dir["processing"][op.job] = op.rec

\* One file of j: max stays what the enqueue asked for, and what can still be leased,
\* or is leased, counts at least the grants there were.
FileInv(j) ==
    /\ \A d, e \in Dirs : Readable(d, j) /\ Readable(e, j) => dir[d][j].max = dir[e][j].max
    /\ \A d \in Dirs : Readable(d, j) => Handed(j) <= dir[d][j].max
    /\ Readable("pending", j) =>
         /\ Handed(j) <= dir["pending"][j].tries
         /\ dir["pending"][j].tries < dir["pending"][j].max
    /\ Readable("processing", j) =>
         /\ Handed(j) <= dir["processing"][j].tries
         /\ dir["processing"][j].tries <= dir["processing"][j].max

RecordInv ==
    /\ At("renamed") /\ Readable("processing", op.job) =>
         dir["processing"][op.job].tries < dir["processing"][op.job].max
    /\ At("write") =>
         /\ \A d \in Dirs : Readable(d, op.job) => dir[d][op.job].max = op.rec.max
         /\ Handed(op.job) <= op.rec.max
         /\ op.target = "processing" =>
              Handed(op.job) < op.rec.tries /\ op.rec.tries <= op.rec.max
         /\ op.target = "pending" => op.rec.tries < op.rec.max
    /\ At("leased") => Handed(op.job) < op.rec.tries

\* lease_next took the first name of its priority.
OrderInv == LeaseTaking =>
    \A i \in Jobs : Readable("pending", i) /\ PriorityOf[i] = PriorityOf[op.job] => op.job <= i

\* While nobody died a job has two files only during a move, and only what is being
\* written is torn.
HomeInv == aborts = 0 => \A j \in Jobs : \A d, e \in Dirs :
    /\ dir[d][j] = Torn => At("write") /\ op.job = j /\ op.target = d
    /\ j \in Present(d) /\ j \in Present(e) =>
         d = e \/ (Moving /\ op.job = j /\ {d, e} = {"processing", op.target})

\* While nobody died a job that was closed is not leased again.
ClosedInv == aborts = 0 =>
    /\ \A g \in closed :
         /\ g[1] \notin Present("pending")
         /\ g[1] \in Present("processing") => Burying /\ op.job = g[1]
    /\ \A g \in completed : \A d \in Dirs : g[1] \notin Present(d)

KInv ==
    /\ UnknownInv /\ IsFiniteSet(granted) /\ CopyInv /\ (\A j \in Jobs : FileInv(j))
    /\ RecordInv /\ OrderInv /\ HomeInv /\ ClosedInv /\ ClosedOnce

-----------------------------------------------------------------------------
LEMMA LeastIsLeast ==
    ASSUME NEW S \in SUBSET Jobs, NEW i \in S
    PROVE  Least(S) <= i
<1>1. PICK j \in S : \A k \in S : <<k, j>> \notin OpToRel(<, Nat)
    BY WFMin, NatLessThanWellFounded, JobsAssumption, Zenon
<1>2. \A k \in S : j <= k
    <2> TAKE k \in S
    <2>1. k \in Nat /\ j \in Nat
        BY JobsAssumption
    <2>2. ~(k < j)
        BY <1>1, <2>1, Zenon DEF OpToRel
    <2> QED BY <2>1, <2>2
<1> QED BY <1>1, <1>2, Zenon DEF Least

LEMMA HandedIsNat ==
    ASSUME IsFiniteSet(granted), NEW j \in Jobs
    PROVE  IsFiniteSet(Grants(j)) /\ Handed(j) \in Nat
<1>1. Grants(j) \subseteq granted
    BY DEF Grants
<1> QED BY <1>1, FS_Subset, FS_CardinalityType DEF Handed

LEMMA HandedSame ==
    ASSUME NEW j, \A g \in granted' \cup granted : g[1] = j => g \in granted' /\ g \in granted
    PROVE  Grants(j)' = Grants(j) /\ Handed(j)' = Handed(j)
<1>1. {g \in granted' : g[1] = j} = {g \in granted : g[1] = j}
    OBVIOUS
<1> QED BY <1>1, Zenon DEF Grants, Handed

LEMMA HandedMore ==
    ASSUME NEW j \in Jobs, NEW l, IsFiniteSet(granted), granted' = granted \cup {<<j, l>>}
    PROVE  /\ IsFiniteSet(granted')
           /\ Handed(j) \in Nat /\ Handed(j)' \in Nat /\ Handed(j)' <= Handed(j) + 1
<1> DEFINE G == {g \in granted : g[1] = j}
<1> DEFINE H == {g \in granted' : g[1] = j}
<1>1. H = G \cup {<<j, l>>}
    OBVIOUS
<1>2. IsFiniteSet(G)
    BY FS_Subset, G \subseteq granted
<1>3. IsFiniteSet(granted')
    BY FS_AddElement
<1> HIDE DEF G, H
<1>4. Cardinality(G) \in Nat /\ Cardinality(H) \in Nat /\ Cardinality(H) <= Cardinality(G) + 1
  <2>1. Cardinality(H) = IF <<j, l>> \in G THEN Cardinality(G) ELSE Cardinality(G) + 1
    BY <1>1, <1>2, FS_AddElement
  <2>2. Cardinality(G) \in Nat
    BY <1>2, FS_CardinalityType
  <2> QED BY <2>1, <2>2
<1>5. Handed(j) = Cardinality(G) /\ Handed(j)' = Cardinality(H)
    BY Zenon DEF Handed, Grants, G, H
<1> QED BY <1>3, <1>4, <1>5

\* Steps of those who do not hold the lock, and time.
LEMMA BystanderKeeps ==
    ASSUME KInv, lock # NoProc => pc'[lock] = pc[lock],
           UNCHANGED <<dir, lock, op, granted, enqueued, closed, completed, aborts>>
    PROVE  KInv'
<1>1. UnknownInv' /\ IsFiniteSet(granted)' /\ CopyInv'
    BY DEF KInv, UnknownInv, Grants, CopyInv, At, Moving, LeaseTaking, Present,
       Readable
<1>2. \A j \in Jobs : FileInv(j)'
    BY DEF KInv, FileInv, Handed, Grants, Readable
<1>3. RecordInv' /\ OrderInv'
    BY DEF KInv, RecordInv, OrderInv, LeaseTaking, At, Handed, Grants, Readable
<1>4. HomeInv' /\ ClosedInv' /\ ClosedOnce'
    BY DEF KInv, HomeInv, ClosedInv, ClosedOnce, Moving, Burying, At, Present
<1> QED BY <1>1, <1>2, <1>3, <1>4 DEF KInv

\* No file is in the holder's hands.
Calm == /\ ~At("renamed") /\ ~At("write") /\ ~At("leased")
        /\ ~At("fail_unlink") /\ ~At("scan_unlink")

\* Steps between the file operations, and the end of a call.
LEMMA CalmKeeps ==
    ASSUME KInv, Calm', aborts \in Nat,
           UNCHANGED <<dir, granted, enqueued, closed, completed>>,
           (aborts' = aborts /\ ~At("write") /\ ~Moving) \/ aborts' = aborts + 1
    PROVE  KInv'
<1>1. UnknownInv' /\ IsFiniteSet(granted)' /\ CopyInv'
    BY DEF KInv, UnknownInv, Grants, CopyInv, Calm, Moving, LeaseTaking
<1>2. \A j \in Jobs : FileInv(j)'
    BY DEF KInv, FileInv, Handed, Grants, Readable
<1>3. RecordInv' /\ OrderInv'
    BY DEF Calm, RecordInv, OrderInv, LeaseTaking
<1>4. HomeInv' /\ ClosedInv' /\ ClosedOnce'
  <2>1. aborts' = 0 => aborts = 0 /\ ~At("write") /\ ~Moving /\ ~Burying
    BY DEF Moving, Burying
  <2> QED BY <2>1 DEF KInv, HomeInv, ClosedInv, ClosedOnce, Present
<1> QED BY <1>1, <1>2, <1>3, <1>4 DEF KInv

LEMMA LeaseReplyKeeps ==
    ASSUME NEW p \in Procs, IInv, KInv, LeaseReply(p)
    PROVE  KInv'
<1> USE ValuesAssumption
<1>a. PICK k \in Jobs :
      /\ At("leased") /\ k = op.job /\ Calm' /\ UNCHANGED <<dir, history, aborts>>
      /\ granted' = granted \cup {<<k, op.rec.lease>>}
      /\ dir["processing"][k] = op.rec /\ Handed(k) < op.rec.tries
      /\ op.rec \in Job
    BY DEF LeaseReply, Release, Goto, IInv, TypeOK, Op, StageInv, LeaseStageInv, KInv, CopyInv,
       RecordInv, At, Calm
<1>b. ASSUME NEW j \in Jobs, j # k
      PROVE  Grants(j)' = Grants(j) /\ Handed(j)' = Handed(j)
    BY <1>a, <1>b, HandedSame
<1>c. /\ IsFiniteSet(granted')
      /\ Handed(k) \in Nat /\ Handed(k)' \in Nat /\ Handed(k)' <= Handed(k) + 1
    BY <1>a, HandedMore DEF KInv
<1>1. UnknownInv' /\ CopyInv'
  <2>1. k \in enqueued
    BY <1>a DEF KInv, UnknownInv, Dirs
  <2>2. UnknownInv'
    BY <1>a, <1>b, <2>1 DEF KInv, UnknownInv, history
  <2>3. CopyInv'
    BY <1>a DEF Calm, CopyInv, Moving, LeaseTaking
  <2> QED BY <2>2, <2>3
<1>2. ASSUME NEW j \in Jobs PROVE FileInv(j)'
  <2>1. CASE j # k
    BY <1>a, <1>b, <2>1 DEF KInv, FileInv, Readable
  <2>2. CASE j = k
    <3>1. /\ Readable("processing", j) /\ dir["pending"][j] = NoFile
          /\ "processing" \in Dirs
        BY <1>a, <2>2 DEF KInv, CopyInv, Readable, Dirs
    <3>2. op.rec.tries \in Nat /\ op.rec.max \in Nat /\ op.rec.tries <= op.rec.max
        BY <1>a, <2>2, <3>1 DEF KInv, FileInv, Job
    <3>3. Handed(j)' <= op.rec.tries /\ Handed(j)' <= op.rec.max
        BY <1>a, <1>c, <2>2, <3>2
    <3>4. \A d \in Dirs : Readable(d, j) => dir[d][j].max = op.rec.max
        BY <1>a, <2>2, <3>1 DEF KInv, FileInv
    <3> QED BY <1>a, <2>2, <3>1, <3>2, <3>3, <3>4 DEF KInv, FileInv, Readable
  <2> QED BY <2>1, <2>2
<1>3. RecordInv' /\ OrderInv'
    BY <1>a DEF Calm, RecordInv, OrderInv, LeaseTaking
<1>4. HomeInv' /\ ClosedInv' /\ ClosedOnce'
  <2>1. ~Moving /\ ~Burying /\ ~At("write")
    BY <1>a DEF Moving, Burying, At
  <2> QED BY <1>a, <2>1 DEF KInv, HomeInv, ClosedInv, ClosedOnce, Present, history
<1> QED BY <1>1, <1>c, <1>2, <1>3, <1>4 DEF KInv

LEMMA EnqueueKeeps ==
    ASSUME NEW p \in Procs, NEW j \in Jobs, NEW m \in 1..MaxAttemptsLimit, IInv, KInv,
           Enqueue(p, j, m)
    PROVE  KInv'
<1> USE ValuesAssumption
<1> DEFINE new == [lease |-> NoLease, tries |-> 0, max |-> m]
<1>a. /\ new \in Job /\ new.tries = 0 /\ new.max = m /\ m \in Nat /\ 0 < m
    BY BoundsAssumption DEF Job, NoLease
<1>b. /\ j \notin enqueued /\ enqueued' = enqueued \cup {j} /\ lock = NoProc
      /\ dir' = [dir EXCEPT !["pending"][j] = new]
      /\ UNCHANGED <<granted, closed, completed, aborts>> /\ Calm'
    BY DEF Enqueue, Acquire, Goto, Put, Calm, At, IInv, TypeOK
<1> HIDE DEF new
<1>c. ASSUME NEW i \in Jobs, NEW d \in Dirs
      PROVE  dir'[d][i] = IF d = "pending" /\ i = j THEN new ELSE dir[d][i]
    BY <1>b DEF IInv, TypeOK, Dirs
<1>d. /\ \A d \in Dirs : dir[d][j] = NoFile
      /\ Grants(j) = {} /\ Handed(j) = 0
  <2>1. (\A d \in Dirs : dir[d][j] = NoFile) /\ Grants(j) = {}
    BY <1>b DEF KInv, UnknownInv
  <2> QED BY <2>1, FS_EmptySet DEF Handed
<1>e. ASSUME NEW i
      PROVE  Grants(i)' = Grants(i) /\ Handed(i)' = Handed(i)
    BY <1>b, HandedSame
<1>f. \A g \in granted : g[1] # j
    BY <1>d DEF Grants
<1>1. UnknownInv' /\ IsFiniteSet(granted)' /\ CopyInv'
  <2>1. UnknownInv'
    BY <1>b, <1>c, <1>e DEF KInv, UnknownInv
  <2> QED BY <1>b, <2>1 DEF KInv, Calm, CopyInv, Moving, LeaseTaking
<1>2. ASSUME NEW i \in Jobs PROVE FileInv(i)'
  <2>1. CASE i # j
    BY <1>c, <1>e, <2>1 DEF KInv, FileInv, Readable, Dirs
  <2>2. CASE i = j
    BY <1>a, <1>c, <1>d, <1>e, <2>2 DEF FileInv, Readable, Dirs
  <2> QED BY <2>1, <2>2
<1>3. RecordInv' /\ OrderInv'
    BY <1>b DEF Calm, RecordInv, OrderInv, LeaseTaking
<1>4. HomeInv' /\ ClosedInv' /\ ClosedOnce'
  <2>1. ~Moving /\ ~Burying /\ ~At("write")
    BY <1>b DEF Moving, Burying, At
  <2>2. \A g \in closed \cup completed : g[1] # j /\ g[1] \in Jobs
    BY <1>f DEF IInv, TypeOK
  <2>3. HomeInv'
    BY <1>a, <1>b, <1>c, <1>d, <2>1 DEF KInv, HomeInv, Present
  <2>4. ClosedInv'
    BY <1>b, <1>c, <2>1, <2>2 DEF KInv, ClosedInv, Present, Dirs
  <2> QED BY <1>b, <2>3, <2>4 DEF KInv, ClosedOnce
<1> QED BY <1>1, <1>2, <1>3, <1>4 DEF KInv

LEMMA LeaseRenameKeeps ==
    ASSUME NEW p \in Procs, NEW prios, IInv, KInv, LeaseRename(p, prios)
    PROVE  KInv'
<1> USE ValuesAssumption
<1>a. PICK j \in Jobs :
        /\ j = Least(Candidates(prios)) /\ dir["pending"][j] # NoFile /\ PriorityOf[j] \in prios
        /\ dir' = [dir EXCEPT !["processing"][j] = dir["pending"][j],
                              !["pending"][j] = NoFile]
        /\ op' = [op EXCEPT !.job = j]
    BY LeastIsMember DEF LeaseRename, Candidates, Present
<1>b. \A i \in Candidates(prios) : j <= i
    BY <1>a, LeastIsLeast DEF LeaseRename, Candidates, Present
<1>c. /\ lock = NoProc /\ At("renamed")' /\ LeaseTaking' /\ ~Moving' /\ ~At("write")'
      /\ ~At("leased")' /\ op'.job = j
      /\ UNCHANGED <<granted, enqueued, closed, completed, aborts>>
    BY <1>a DEF LeaseRename, Acquire, Goto, At, LeaseTaking, Moving, IInv, TypeOK, Op, history
<1>d. ASSUME NEW i \in Jobs, NEW d \in Dirs
      PROVE  dir'[d][i] = IF i # j THEN dir[d][i]
                          ELSE IF d = "processing" THEN dir["pending"][j]
                          ELSE IF d = "pending" THEN NoFile
                          ELSE dir[d][i]
    BY <1>a DEF IInv, TypeOK, Dirs
<1>e. ASSUME NEW i
      PROVE  Grants(i)' = Grants(i) /\ Handed(i)' = Handed(i)
    BY <1>c, HandedSame
<1>f. j \in enqueued
    BY <1>a DEF KInv, UnknownInv, Dirs
<1>1. UnknownInv' /\ IsFiniteSet(granted)'
    BY <1>c, <1>d, <1>e, <1>f DEF KInv, UnknownInv
<1>2. CopyInv'
    BY <1>a, <1>c, <1>d DEF CopyInv, Present, Dirs
<1>3. ASSUME NEW i \in Jobs PROVE FileInv(i)'
  <2>1. CASE i # j
    BY <1>d, <1>e, <2>1 DEF KInv, FileInv, Readable, Dirs
  <2>2. CASE i = j
    <3>1. FileInv(j) /\ \A d \in Dirs : dir[d][j] \in File
        BY DEF KInv, IInv, TypeOK
    <3>2. /\ dir'["pending"][j] = NoFile /\ dir'["processing"][j] = dir["pending"][j]
          /\ dir'["dead"][j] = dir["dead"][j] /\ dir'["archive"][j] = dir["archive"][j]
        BY <1>d DEF Dirs
    <3>3. Readable("pending", j) =>
            /\ dir["pending"][j].tries \in Nat /\ dir["pending"][j].max \in Nat
        BY <3>1 DEF Readable, File, Job, Dirs
    <3> QED BY <1>e, <2>2, <3>1, <3>2, <3>3 DEF FileInv, Readable, Dirs
  <2> QED BY <2>1, <2>2
<1>4. RecordInv'
  <2>1. dir'["processing"][j] = dir["pending"][j]
    BY <1>d DEF Dirs
  <2> QED BY <1>c, <2>1 DEF KInv, FileInv, RecordInv, Readable
<1>5. OrderInv'
    BY <1>b, <1>c, <1>d, <1>a DEF OrderInv, Candidates, Present, Readable, Dirs
<1>6. HomeInv' /\ ClosedInv' /\ ClosedOnce'
  <2>1. ~Moving /\ ~Burying /\ ~At("write")
    BY <1>c DEF Moving, Burying, At
  <2>2. aborts = 0 => \A g \in closed : g[1] # j
    BY <1>a DEF KInv, ClosedInv, Present
  <2>3. closed \subseteq Jobs \X (1..issued) /\ completed \subseteq closed
    BY DEF IInv, TypeOK
  <2>4. HomeInv'
    <3> SUFFICES ASSUME aborts = 0, NEW i \in Jobs, NEW d \in Dirs, NEW e \in Dirs
                 PROVE  /\ dir'[d][i] # Torn
                        /\ i \in Present(d)' /\ i \in Present(e)' => d = e
        BY <1>c DEF HomeInv
    <3>1. \A x, y \in Dirs : dir[x][i] # Torn /\ (i \in Present(x) /\ i \in Present(y) => x = y)
        BY <2>1 DEF KInv, HomeInv
    <3>2. i = j => \A x \in Dirs : x # "pending" => dir[x][i] = NoFile
        BY <1>a, <3>1 DEF Present, Dirs
    <3> QED BY <1>d, <3>1, <3>2 DEF Present, Dirs
  <2>5. ClosedInv'
    BY <1>c, <1>d, <2>1, <2>2, <2>3 DEF KInv, ClosedInv, Present, Dirs
  <2> QED BY <1>c, <2>4, <2>5 DEF KInv, ClosedOnce
<1> QED BY <1>1, <1>2, <1>3, <1>4, <1>5, <1>6 DEF KInv

LEMMA LeaseReadKeeps ==
    ASSUME NEW p \in Procs, IInv, KInv, LeaseRead(p)
    PROVE  KInv'
<1> USE ValuesAssumption
<1>a. PICK j \in Jobs, f \in Job, rec \in Job :
        /\ j = op.job /\ f = dir["processing"][j]
        /\ rec.tries = f.tries + 1 /\ rec.max = f.max
        /\ dir' = [dir EXCEPT !["processing"][j] = Torn]
        /\ op'.job = j /\ op'.rec = rec /\ op'.target = "processing" /\ op'.after = "leased"
  <2>1. op.job \in Jobs /\ dir["processing"][op.job] \in Job
    BY DEF LeaseRead, IInv, TypeOK, StageInv, LeaseStageInv, At, Readable, File, Dirs
  <2>2. PICK f \in Job : f = dir["processing"][op.job]
    BY <2>1
  <2>3. PICK l \in Nat, t \in Nat, m \in Nat : l = issued + 1 /\ t = f.tries + 1 /\ m = f.max
    <3>1. issued \in Nat
        BY DEF IInv, TypeOK
    <3>2. f.tries \in Nat /\ f.max \in Nat
        BY DEF Job
    <3> QED BY <3>1, <3>2, SMTT(30)
  <2> DEFINE rec == [lease |-> l, tries |-> t, max |-> m]
  <2>4. rec \in Job /\ rec.tries = t /\ rec.max = m
    BY DEF Job
  <2>5. Truncate(p, "processing", op.job, rec, "leased")
    BY <2>2, <2>3 DEF LeaseRead
  <2> HIDE DEF rec
  <2>6. /\ op'.job = op.job /\ op'.rec = rec /\ op'.target = "processing"
        /\ op'.after = "leased"
    BY <2>5 DEF Truncate, IInv, TypeOK, Op
  <2>7. dir' = [dir EXCEPT !["processing"][op.job] = Torn]
    BY <2>5 DEF Truncate, Put
  <2> QED BY <2>1, <2>2, <2>3, <2>4, <2>6, <2>7
<1>b. /\ At("renamed") /\ At("write")' /\ ~At("renamed")' /\ ~At("leased")'
      /\ ~At("fail_unlink")' /\ ~At("scan_unlink")' /\ lock # NoProc
      /\ UNCHANGED <<granted, enqueued, closed, completed, aborts>>
    BY DEF LeaseRead, Goto, At, IInv, TypeOK, history
<1>c. LeaseTaking /\ LeaseTaking' /\ ~Moving /\ ~Moving' /\ ~Burying /\ ~At("write")
    BY <1>a, <1>b DEF LeaseTaking, Moving, Burying, At
<1>d. ASSUME NEW i \in Jobs, NEW d \in Dirs
      PROVE  dir'[d][i] = IF i = j /\ d = "processing" THEN Torn ELSE dir[d][i]
    BY <1>a DEF IInv, TypeOK, Dirs
<1>e. ASSUME NEW i
      PROVE  Grants(i)' = Grants(i) /\ Handed(i)' = Handed(i)
    BY <1>b, HandedSame
<1>f. /\ dir["pending"][j] = NoFile /\ j \in enqueued
      /\ f.tries < f.max /\ Handed(j) <= f.tries /\ f.tries \in Nat /\ f.max \in Nat
      /\ Handed(j) \in Nat
      /\ \A d \in Dirs : Readable(d, j) => dir[d][j].max = f.max
  <2>1. "processing" \in Dirs /\ Readable("processing", j)
    BY <1>a DEF Readable, Dirs
  <2>2. j \in enqueued
    BY <1>a, <2>1 DEF KInv, UnknownInv
  <2>3. Handed(j) \in Nat
    BY HandedIsNat DEF KInv
  <2> QED BY <1>a, <1>b, <1>c, <2>1, <2>2, <2>3 DEF KInv, CopyInv, RecordInv, FileInv, Job
<1>1. UnknownInv' /\ IsFiniteSet(granted)'
    BY <1>b, <1>d, <1>e, <1>f DEF KInv, UnknownInv
<1>2. CopyInv'
    BY <1>a, <1>b, <1>c, <1>d, <1>f DEF CopyInv, Dirs
<1>3. ASSUME NEW i \in Jobs PROVE FileInv(i)'
    BY <1>d, <1>e DEF KInv, FileInv, Readable, Dirs
<1>4. RecordInv'
  <2>1. \A d \in Dirs : Readable(d, j)' => Readable(d, j) /\ dir'[d][j] = dir[d][j]
    BY <1>d DEF Readable
  <2> QED BY <1>a, <1>b, <1>e, <1>f, <2>1 DEF RecordInv
<1>5. OrderInv'
    BY <1>a, <1>c, <1>d DEF KInv, OrderInv, Readable, Dirs
<1>6. HomeInv' /\ ClosedInv' /\ ClosedOnce'
  <2>1. \A i \in Jobs, d \in Dirs : i \in Present(d)' <=> i \in Present(d)
    BY <1>a, <1>d DEF Present
  <2>2. HomeInv'
    BY <1>a, <1>b, <1>c, <1>d, <2>1 DEF KInv, HomeInv
  <2>3. closed \subseteq Jobs \X (1..issued) /\ completed \subseteq closed
    BY DEF IInv, TypeOK
  <2>4. ClosedInv'
    BY <1>b, <1>c, <2>1, <2>3 DEF KInv, ClosedInv, Dirs
  <2> QED BY <1>b, <2>2, <2>4 DEF KInv, ClosedOnce
<1> QED BY <1>1, <1>2, <1>3, <1>4, <1>5, <1>6 DEF KInv

LEMMA WriteBackKeeps ==
    ASSUME NEW p \in Procs, IInv, KInv, WriteBack(p)
    PROVE  KInv'
<1> USE ValuesAssumption
<1>a. PICK j \in Jobs, t \in Dirs, rec \in Job :
        /\ j = op.job /\ t = op.target /\ rec = op.rec
        /\ dir' = [dir EXCEPT ![t][j] = rec] /\ dir[t][j] = Torn
        /\ op' = op
    BY DEF WriteBack, Put, IInv, TypeOK, Op, StageInv, WriteInv, KInv, CopyInv, At
<1>b. /\ At("write") /\ ~At("write")' /\ ~At("renamed")'
      /\ ~At("renamed") /\ ~At("fail_unlink") /\ ~At("scan_unlink")
      /\ At("leased")' <=> op.after = "leased"
      /\ At("fail_unlink")' <=> op.after = "fail_unlink"
      /\ At("scan_unlink")' <=> op.after = "scan_unlink"
      /\ UNCHANGED <<granted, enqueued, closed, completed, aborts>>
    BY DEF WriteBack, Goto, At, IInv, TypeOK, history, StageInv, WriteInv
<1>c. /\ Moving' <=> Moving
      /\ Burying' <=> Burying
      /\ t = "processing" <=> At("leased")'
      /\ ~LeaseTaking'
      /\ t # "processing" => Moving /\ t \in {"pending", "dead"}
      /\ t = "processing" => LeaseTaking
    BY <1>a, <1>b DEF LeaseTaking, Moving, Burying, IInv, StageInv, WriteInv
<1>d. ASSUME NEW i \in Jobs, NEW d \in Dirs
      PROVE  dir'[d][i] = IF i = j /\ d = t THEN rec ELSE dir[d][i]
    BY <1>a DEF IInv, TypeOK, Dirs
<1>e. ASSUME NEW i
      PROVE  Grants(i)' = Grants(i) /\ Handed(i)' = Handed(i)
    BY <1>b, HandedSame
<1>f. rec \notin {NoFile, Torn} /\ rec.tries \in Nat /\ rec.max \in Nat /\ j \in enqueued
      /\ Handed(j) \in Nat
    BY <1>a, HandedIsNat DEF Job, KInv, UnknownInv
<1>1. UnknownInv' /\ IsFiniteSet(granted)'
    BY <1>b, <1>d, <1>e, <1>f DEF KInv, UnknownInv
<1>2. CopyInv'
    BY <1>a, <1>b, <1>c, <1>d, <1>f DEF KInv, CopyInv, Readable, Dirs
<1>3. ASSUME NEW i \in Jobs PROVE FileInv(i)'
  <2>1. CASE i # j
    BY <1>d, <1>e, <2>1 DEF KInv, FileInv, Readable, Dirs
  <2>2. CASE i = j
    <3>1. /\ \A d \in Dirs : Readable(d, j) => dir[d][j].max = rec.max
          /\ Handed(j) <= rec.max
          /\ t = "processing" => Handed(j) < rec.tries /\ rec.tries <= rec.max
          /\ t = "pending" => rec.tries < rec.max
        BY <1>a, <1>b DEF KInv, RecordInv
    <3>2. t = "pending" => Handed(j) <= rec.tries
        BY <1>a, <1>b, <1>c, <1>f DEF KInv, CopyInv, FileInv
    <3>3. \A d \in Dirs : Readable(d, j)' => d = t \/ Readable(d, j)
        BY <1>d DEF Readable
    <3>4. FileInv(j)
        BY DEF KInv
    <3> QED BY <1>d, <1>e, <1>f, <2>2, <3>1, <3>2, <3>3, <3>4 DEF FileInv, Dirs
  <2> QED BY <2>1, <2>2
<1>4. RecordInv'
    BY <1>a, <1>b, <1>c, <1>e DEF KInv, RecordInv
<1>5. OrderInv'
    BY <1>c DEF OrderInv
<1>6. HomeInv' /\ ClosedInv' /\ ClosedOnce'
  <2>1. \A i \in Jobs, d \in Dirs : i \in Present(d)' <=> i \in Present(d)
    BY <1>a, <1>d, <1>f DEF Present
  <2>2. HomeInv'
    BY <1>a, <1>b, <1>c, <1>d, <1>f, <2>1 DEF KInv, HomeInv
  <2>3. closed \subseteq Jobs \X (1..issued) /\ completed \subseteq closed
    BY DEF IInv, TypeOK
  <2>4. ClosedInv'
    BY <1>a, <1>b, <1>c, <2>1, <2>3 DEF KInv, ClosedInv, Dirs
  <2> QED BY <1>b, <2>2, <2>4 DEF KInv, ClosedOnce
<1> QED BY <1>1, <1>2, <1>3, <1>4, <1>5, <1>6 DEF KInv

\* A move begins: the file of j, under processing, is to be written to t as rec.
Starting(j, t, rec) ==
    /\ Calm /\ At("write")' /\ ~At("renamed")' /\ ~At("leased")'
    /\ ~At("fail_unlink")' /\ ~At("scan_unlink")'
    /\ Readable("processing", j)
    /\ rec.tries = dir["processing"][j].tries /\ rec.max = dir["processing"][j].max
    /\ t = "pending" => rec.tries < rec.max
    /\ dir' = [dir EXCEPT ![t][j] = Torn]
    /\ op'.job = j /\ op'.target = t /\ op'.rec = rec
    /\ \/ op'.after = "scan_unlink" /\ closed' = closed
       \/ /\ op'.after = "fail_unlink" /\ t = "dead"
          /\ \E l : closed' = closed \cup {<<j, l>>}
    /\ UNCHANGED <<granted, enqueued, completed, aborts>>

LEMMA StartingKeeps ==
    ASSUME NEW j \in Jobs, NEW t \in {"pending", "dead"}, NEW rec \in Job, IInv, KInv,
           Starting(j, t, rec)
    PROVE  KInv'
<1> USE ValuesAssumption
<1>a. /\ dir' = [dir EXCEPT ![t][j] = Torn] /\ op'.job = j /\ op'.target = t /\ op'.rec = rec
      /\ Readable("processing", j)
      /\ UNCHANGED <<granted, enqueued, completed, aborts>>
    BY DEF Starting
<1>b. /\ At("write")' /\ Moving' /\ ~LeaseTaking' /\ ~At("renamed")' /\ ~At("leased")'
      /\ ~At("fail_unlink")' /\ ~At("scan_unlink")'
      /\ ~Moving /\ ~Burying /\ ~At("write")
    BY <1>a DEF Starting, Calm, Moving, LeaseTaking, Burying
<1>c. ASSUME NEW i \in Jobs, NEW d \in Dirs
      PROVE  dir'[d][i] = IF i = j /\ d = t THEN Torn ELSE dir[d][i]
    BY <1>a DEF IInv, TypeOK, Dirs
<1>d. ASSUME NEW i
      PROVE  Grants(i)' = Grants(i) /\ Handed(i)' = Handed(i)
    BY <1>a, HandedSame
<1>e. j \in enqueued /\ "processing" \in Dirs /\ t \in Dirs \ {"processing"}
    BY <1>a DEF KInv, UnknownInv, Readable, Dirs
<1>1. UnknownInv' /\ IsFiniteSet(granted)'
    BY <1>a, <1>c, <1>d, <1>e DEF KInv, UnknownInv
<1>2. CopyInv'
    BY <1>a, <1>b, <1>c, <1>e DEF Starting, CopyInv, Readable
<1>3. ASSUME NEW i \in Jobs PROVE FileInv(i)'
    BY <1>c, <1>d DEF KInv, FileInv, Readable, Dirs
<1>4. RecordInv'
  <2>1. \A d \in Dirs : Readable(d, j)' => Readable(d, j) /\ dir'[d][j] = dir[d][j]
    BY <1>c DEF Readable
  <2>2. /\ \A d \in Dirs : Readable(d, j) => dir[d][j].max = rec.max
        /\ Handed(j) <= rec.max
    BY <1>a, <1>e DEF Starting, KInv, FileInv
  <2> QED BY <1>a, <1>b, <1>d, <1>e, <2>1, <2>2 DEF Starting, RecordInv
<1>5. OrderInv'
    BY <1>b DEF OrderInv
<1>6. HomeInv'
  <2> SUFFICES ASSUME aborts = 0, NEW i \in Jobs, NEW d \in Dirs, NEW e \in Dirs
               PROVE  /\ dir'[d][i] = Torn => i = j /\ d = t
                      /\ i \in Present(d)' /\ i \in Present(e)' =>
                            d = e \/ (i = j /\ {d, e} = {"processing", t})
    BY <1>a, <1>b DEF HomeInv
  <2>1. \A x, y \in Dirs : dir[x][i] # Torn /\ (i \in Present(x) /\ i \in Present(y) => x = y)
    BY <1>b DEF KInv, HomeInv
  <2>2. i = j => \A x \in Dirs : i \in Present(x) => x = "processing"
    BY <1>a, <1>e, <2>1 DEF Present, Readable
  <2> QED BY <1>c, <2>1, <2>2 DEF Present
<1>7. ClosedInv' /\ ClosedOnce'
  <2>1. closed \subseteq Jobs \X (1..issued) /\ completed \subseteq closed
    BY DEF IInv, TypeOK
  <2>2. aborts = 0 => \A g \in closed : g[1] # j
    BY <1>a, <1>b, <1>e DEF KInv, ClosedInv, Present, Readable
  <2>3. aborts = 0 => j \notin Present("pending")
    BY <1>a, <1>b, <1>e DEF KInv, HomeInv, Present, Readable, Dirs
  <2>4. \A i \in Jobs, d \in Dirs : i # j \/ d # t => (i \in Present(d)' <=> i \in Present(d))
    BY <1>c DEF Present
  <2>5. CASE closed' = closed
    <3>1. ClosedInv'
        BY <1>a, <1>b, <2>1, <2>2, <2>4, <2>5 DEF KInv, ClosedInv, Dirs
    <3> QED BY <1>a, <2>5, <3>1 DEF KInv, ClosedOnce
  <2>6. ASSUME NEW l, closed' = closed \cup {<<j, l>>}, t = "dead", op'.after = "fail_unlink"
        PROVE  ClosedInv' /\ ClosedOnce'
    <3>1. Burying'
        BY <1>b, <2>6 DEF Burying
    <3>2. ClosedInv'
        BY <1>a, <1>b, <2>1, <2>2, <2>3, <2>4, <2>6, <3>1 DEF KInv, ClosedInv, Dirs
    <3>3. ClosedOnce'
        BY <1>a, <2>1, <2>2, <2>6 DEF KInv, ClosedOnce
    <3> QED BY <3>2, <3>3
  <2> QED BY <2>5, <2>6 DEF Starting
<1> QED BY <1>1, <1>2, <1>3, <1>4, <1>5, <1>6, <1>7 DEF KInv

LEMMA FailStarts ==
    ASSUME NEW p \in Procs, NEW g \in granted, IInv, Fail(p, g[1], g[2])
    PROVE  \E j \in Jobs, t \in {"pending", "dead"}, rec \in Job : Starting(j, t, rec)
<1> USE ValuesAssumption
<1>1. /\ g[1] \in Jobs /\ Readable("processing", g[1]) /\ dir["processing"][g[1]] \in Job
    BY DEF Fail, HoldsLease, IInv, TypeOK, Readable, File, Dirs
<1>2. /\ lock = NoProc /\ lock' = p /\ pc'[p] = "write"
      /\ UNCHANGED <<granted, enqueued, completed, aborts>>
      /\ closed' = closed \cup {<<g[1], g[2]>>}
      /\ op' = [op EXCEPT !.job = g[1], !.rec = dir["processing"][g[1]], !.target = "dead",
                          !.after = "fail_unlink"]
      /\ dir' = [dir EXCEPT !["dead"][g[1]] = Torn]
    BY DEF Fail, Acquire, Goto, Truncate, Put, IInv, TypeOK
<1>3. /\ op'.job = g[1] /\ op'.rec = dir["processing"][g[1]] /\ op'.target = "dead"
      /\ op'.after = "fail_unlink"
    BY <1>2 DEF IInv, TypeOK, Op
<1>4. Starting(g[1], "dead", dir["processing"][g[1]])
    BY <1>1, <1>2, <1>3 DEF Starting, Calm, At
<1> QED BY <1>1, <1>4

LEMMA ScanExpiredStarts ==
    ASSUME NEW p \in Procs, IInv, ScanExpired(p)
    PROVE  \E j \in Jobs, t \in {"pending", "dead"}, rec \in Job : Starting(j, t, rec)
<1> USE ValuesAssumption
<1>a. PICK j \in Jobs, job \in Job :
        /\ job = dir["processing"][j] /\ Readable("processing", j)
        /\ \/ Exhausted(job) /\ Truncate(p, "dead", j, job, "scan_unlink")
           \/ /\ ~Exhausted(job)
              /\ Truncate(p, "pending", j, [job EXCEPT !.lease = NoLease], "scan_unlink")
  <2>1. PICK j \in Jobs : j = Least(op.todo)
    BY LeastIsMember DEF ScanExpired, Scanning, IInv, TypeOK, Op
  <2>2. Readable("processing", j)
    BY <2>1 DEF ScanExpired, Expired
  <2>3. PICK job \in Job : job = dir["processing"][j]
    BY <2>2 DEF Readable, IInv, TypeOK, File, Dirs
  <2> QED BY <2>1, <2>2, <2>3, Zenon DEF ScanExpired
<1>b. /\ lock = p /\ pc[p] = "scan" /\ lock' = p /\ pc'[p] = "write"
      /\ UNCHANGED <<granted, enqueued, closed, completed, aborts>>
    BY DEF ScanExpired, Scanning, Goto, IInv, TypeOK, history
<1>c. Calm /\ At("write")' /\ ~At("renamed")' /\ ~At("leased")'
      /\ ~At("fail_unlink")' /\ ~At("scan_unlink")'
    BY <1>b DEF Calm, At
<1>1. CASE Exhausted(job)
  <2>1. Truncate(p, "dead", j, job, "scan_unlink")
    BY <1>a, <1>1
  <2>2. /\ op'.job = j /\ op'.rec = job /\ op'.target = "dead" /\ op'.after = "scan_unlink"
        /\ dir' = [dir EXCEPT !["dead"][j] = Torn]
    BY <2>1 DEF Truncate, Put, IInv, TypeOK, Op
  <2>3. Starting(j, "dead", job)
    BY <1>a, <1>b, <1>c, <2>2 DEF Starting
  <2> QED BY <2>3
<1>2. CASE ~Exhausted(job)
  <2>1. PICK free \in Job :
            /\ free = [job EXCEPT !.lease = NoLease]
            /\ free.tries = job.tries /\ free.max = job.max
    <3> DEFINE free == [job EXCEPT !.lease = NoLease]
    <3>1. free \in Job /\ free.tries = job.tries /\ free.max = job.max
        BY DEF Job, NoLease
    <3> HIDE DEF free
    <3> QED BY <3>1 DEF free
  <2>2. Truncate(p, "pending", j, free, "scan_unlink")
    BY <1>a, <1>2, <2>1
  <2>3. /\ op'.job = j /\ op'.rec = free /\ op'.target = "pending" /\ op'.after = "scan_unlink"
        /\ dir' = [dir EXCEPT !["pending"][j] = Torn]
    BY <2>2 DEF Truncate, Put, IInv, TypeOK, Op
  <2>4. free.tries < free.max
    BY <1>2, <2>1 DEF Exhausted, Job
  <2>5. Starting(j, "pending", free)
    BY <1>a, <1>b, <1>c, <2>1, <2>3, <2>4 DEF Starting
  <2> QED BY <2>5
<1> QED BY <1>1, <1>2

LEMMA UnlinkKeeps ==
    ASSUME NEW p \in Procs, IInv, KInv, FailUnlink(p) \/ ScanUnlink(p)
    PROVE  KInv'
<1> USE ValuesAssumption
<1>a. PICK j \in Jobs :
        /\ j = op.job /\ dir' = [dir EXCEPT !["processing"][j] = NoFile]
        /\ Calm' /\ Moving /\ ~At("write") /\ op.target \in Dirs \ {"processing"}
        /\ UNCHANGED <<granted, enqueued, closed, completed, aborts>>
    BY DEF FailUnlink, ScanUnlink, Put, Goto, Calm, Moving, At, IInv, TypeOK, StageInv, UnlinkInv,
       history, Dirs
<1>b. ASSUME NEW i \in Jobs, NEW d \in Dirs
      PROVE  dir'[d][i] = IF i = j /\ d = "processing" THEN NoFile ELSE dir[d][i]
    BY <1>a DEF IInv, TypeOK, Dirs
<1>c. ASSUME NEW i
      PROVE  Grants(i)' = Grants(i) /\ Handed(i)' = Handed(i)
    BY <1>a, HandedSame
<1>1. UnknownInv' /\ IsFiniteSet(granted)' /\ CopyInv'
  <2>1. UnknownInv'
    BY <1>a, <1>b, <1>c DEF KInv, UnknownInv
  <2> QED BY <1>a, <2>1 DEF KInv, CopyInv, Calm, Moving, LeaseTaking
<1>2. ASSUME NEW i \in Jobs PROVE FileInv(i)'
    BY <1>b, <1>c DEF KInv, FileInv, Readable, Dirs
<1>3. RecordInv' /\ OrderInv'
    BY <1>a DEF Calm, RecordInv, OrderInv, LeaseTaking
<1>4. \A i \in Jobs, d \in Dirs :
        i \in Present(d)' <=> i \in Present(d) /\ ~(i = j /\ d = "processing")
    BY <1>b DEF Present
<1>5. HomeInv'
  <2> SUFFICES ASSUME aborts = 0, NEW i \in Jobs, NEW d \in Dirs, NEW e \in Dirs
               PROVE  /\ dir'[d][i] # Torn
                      /\ i \in Present(d)' /\ i \in Present(e)' => d = e
    BY <1>a DEF HomeInv
  <2>1. /\ dir[d][i] # Torn
        /\ i \in Present(d) /\ i \in Present(e) =>
             d = e \/ (j = i /\ {d, e} = {"processing", op.target})
    BY <1>a DEF KInv, HomeInv
  <2> QED BY <1>b, <1>4, <2>1
<1>6. ClosedInv' /\ ClosedOnce'
  <2>1. closed \subseteq Jobs \X (1..issued) /\ completed \subseteq closed
    BY DEF IInv, TypeOK
  <2>2. ClosedInv'
    BY <1>a, <1>4, <2>1 DEF KInv, ClosedInv, Dirs
  <2> QED BY <1>a, <2>2 DEF KInv, ClosedOnce
<1> QED BY <1>1, <1>2, <1>3, <1>5, <1>6 DEF KInv

LEMMA CompleteKeeps ==
    ASSUME NEW p \in Procs, NEW h \in granted, IInv, KInv, Complete(p, h[1], h[2])
    PROVE  KInv'
<1> USE ValuesAssumption
<1>a. PICK j, l :
        /\ j \in Jobs
        /\ dir' = [dir EXCEPT !["processing"][j] = NoFile] /\ dir["processing"][j] # NoFile
        /\ closed' = closed \cup {<<j, l>>} /\ completed' = completed \cup {<<j, l>>}
        /\ Calm' /\ lock = NoProc
        /\ UNCHANGED <<granted, enqueued, aborts>>
    BY DEF Complete, HoldsLease, Readable, Acquire, Put, Goto, Calm, At, IInv, TypeOK
<1>b. ASSUME NEW i \in Jobs, NEW d \in Dirs
      PROVE  dir'[d][i] = IF i = j /\ d = "processing" THEN NoFile ELSE dir[d][i]
    BY <1>a DEF IInv, TypeOK, Dirs
<1>c. ASSUME NEW i
      PROVE  Grants(i)' = Grants(i) /\ Handed(i)' = Handed(i)
    BY <1>a, HandedSame
<1>d. ~Moving /\ ~Burying /\ ~At("write")
    BY <1>a DEF Moving, Burying, At
<1>1. UnknownInv' /\ IsFiniteSet(granted)' /\ CopyInv'
  <2>1. UnknownInv'
    BY <1>a, <1>b, <1>c DEF KInv, UnknownInv
  <2> QED BY <1>a, <2>1 DEF KInv, CopyInv, Calm, Moving, LeaseTaking
<1>2. ASSUME NEW i \in Jobs PROVE FileInv(i)'
    BY <1>b, <1>c DEF KInv, FileInv, Readable, Dirs
<1>3. RecordInv' /\ OrderInv'
    BY <1>a DEF Calm, RecordInv, OrderInv, LeaseTaking
<1>4. \A i \in Jobs, d \in Dirs :
        i \in Present(d)' <=> i \in Present(d) /\ ~(i = j /\ d = "processing")
    BY <1>b DEF Present
<1>5. HomeInv'
    BY <1>a, <1>b, <1>d, <1>4 DEF KInv, HomeInv
<1>6. ClosedInv' /\ ClosedOnce'
  <2>1. closed \subseteq Jobs \X (1..issued) /\ completed \subseteq closed
    BY DEF IInv, TypeOK
  <2>2. aborts = 0 => \A g \in closed : g[1] # j
    BY <1>a, <1>d DEF KInv, ClosedInv, Present
  <2>3. aborts = 0 => \A d \in Dirs : j \notin Present(d)'
    BY <1>a, <1>d, <1>4 DEF KInv, HomeInv, Present, Dirs
  <2>4. ClosedInv'
    BY <1>a, <1>d, <1>4, <2>1, <2>3 DEF KInv, ClosedInv, Dirs
  <2>5. ClosedOnce'
    BY <1>a, <2>1, <2>2 DEF KInv, ClosedOnce
  <2> QED BY <2>4, <2>5
<1> QED BY <1>1, <1>2, <1>3, <1>5, <1>6 DEF KInv

LEMMA ArchiveMoveKeeps ==
    ASSUME NEW p \in Procs, IInv, KInv, ArchiveMove(p)
    PROVE  KInv'
<1> USE ValuesAssumption
<1>a. PICK j \in Jobs :
        /\ dir' = [dir EXCEPT !["archive"][j] = dir["dead"][j], !["dead"][j] = NoFile]
        /\ dir["dead"][j] # NoFile
        /\ Calm' /\ Calm
        /\ UNCHANGED <<granted, enqueued, closed, completed, aborts>>
    BY LeastIsMember
    DEF ArchiveMove, Archiving, Readable, Calm, At, IInv, TypeOK, Op, history
<1>b. ASSUME NEW i \in Jobs, NEW d \in Dirs
      PROVE  dir'[d][i] = IF i # j THEN dir[d][i]
                          ELSE IF d = "archive" THEN dir["dead"][j]
                          ELSE IF d = "dead" THEN NoFile
                          ELSE dir[d][i]
    BY <1>a DEF IInv, TypeOK, Dirs
<1>c. ASSUME NEW i
      PROVE  Grants(i)' = Grants(i) /\ Handed(i)' = Handed(i)
    BY <1>a, HandedSame
<1>d. ~Moving /\ ~Burying /\ ~At("write")
    BY <1>a DEF Calm, Moving, Burying
<1>e. j \in enqueued
    BY <1>a DEF KInv, UnknownInv, Dirs
<1>1. UnknownInv' /\ IsFiniteSet(granted)' /\ CopyInv'
  <2>1. UnknownInv'
    BY <1>a, <1>b, <1>c, <1>e DEF KInv, UnknownInv
  <2> QED BY <1>a, <2>1 DEF KInv, CopyInv, Calm, Moving, LeaseTaking
<1>2. ASSUME NEW i \in Jobs PROVE FileInv(i)'
    BY <1>b, <1>c, SMTT(30) DEF KInv, FileInv, Readable, Dirs
<1>3. RecordInv' /\ OrderInv'
    BY <1>a DEF Calm, RecordInv, OrderInv, LeaseTaking
<1>4. HomeInv'
  <2> SUFFICES ASSUME aborts = 0, NEW i \in Jobs, NEW d \in Dirs, NEW e \in Dirs
               PROVE  /\ dir'[d][i] # Torn
                      /\ i \in Present(d)' /\ i \in Present(e)' => d = e
    BY <1>a DEF HomeInv
  <2>1. \A x, y \in Dirs : dir[x][i] # Torn /\ (i \in Present(x) /\ i \in Present(y) => x = y)
    BY <1>d DEF KInv, HomeInv
  <2>2. i = j => \A x \in Dirs : x # "dead" => dir[x][i] = NoFile
    BY <1>a, <2>1 DEF Present, Dirs
  <2> QED BY <1>b, <2>1, <2>2 DEF Present, Dirs
<1>5. ClosedInv' /\ ClosedOnce'
  <2>1. closed \subseteq Jobs \X (1..issued) /\ completed \subseteq closed
    BY DEF IInv, TypeOK
  <2>2. aborts = 0 => \A g \in completed : g[1] # j
    BY <1>a DEF KInv, ClosedInv, Present, Dirs
  <2>3. ClosedInv'
    <3>1. \A i \in Jobs : /\ i \in Present("pending")' <=> i \in Present("pending")
                          /\ i \in Present("processing")' <=> i \in Present("processing")
                          /\ i # j => \A d \in Dirs : i \in Present(d)' <=> i \in Present(d)
        BY <1>b DEF Present, Dirs
    <3> QED BY <1>a, <1>d, <2>1, <2>2, <3>1 DEF KInv, ClosedInv
  <2> QED BY <1>a, <2>3 DEF KInv, ClosedOnce
<1> QED BY <1>1, <1>2, <1>3, <1>4, <1>5 DEF KInv

LEMMA BystandersKeep ==
    ASSUME NEW p \in Procs, IInv, KInv,
           \/ LeaseCall(p) \/ (\E prios : LeaseNone(p, prios))
           \/ SweepComesDue \/ (\E l : LeaseExpires(l))
    PROVE  KInv'
<1>1. UNCHANGED <<dir, lock, op, granted, enqueued, closed, completed, aborts>>
    BY DEF LeaseCall, LeaseNone, SweepComesDue, LeaseExpires, history
<1>2. ASSUME lock # NoProc PROVE pc'[lock] = pc[lock]
    BY <1>2 DEF LeaseCall, LeaseNone, SweepComesDue, LeaseExpires, Goto, IInv, TypeOK, LockInv,
       Inside
<1> QED BY <1>1, <1>2, BystanderKeeps

LEMMA CalmStepsKeep ==
    ASSUME NEW p \in Procs, IInv, KInv,
           \/ Reply(p) \/ LeaseReadFails(p) \/ RecoverBegin(p) \/ ScanKeep(p) \/ ScanFails(p)
           \/ ScanDone(p) \/ ArchiveBegin(p) \/ ArchiveKeep(p) \/ ArchiveEnd(p) \/ Abort(p)
    PROVE  KInv'
<1> USE ValuesAssumption
<1>1. aborts \in Nat
    BY DEF IInv, TypeOK
<1>2. CASE \/ Reply(p) \/ LeaseReadFails(p) \/ ScanFails(p) \/ ScanDone(p) \/ ArchiveEnd(p)
           \/ Abort(p)
  <2>1. Calm'
    BY <1>2 DEF Reply, LeaseReadFails, ScanFails, ScanDone, ArchiveEnd, Abort, Release, Calm, At
  <2>2. (aborts' = aborts /\ ~At("write") /\ ~Moving) \/ aborts' = aborts + 1
    BY <1>2 DEF Reply, LeaseReadFails, ScanFails, Scanning, ScanDone, ArchiveEnd, Abort, history,
       Moving, At
  <2>3. UNCHANGED <<dir, granted, enqueued, closed, completed>>
    BY <1>2 DEF Reply, LeaseReadFails, ScanFails, ScanDone, ArchiveEnd, Abort, history
  <2> QED BY <1>1, <2>1, <2>2, <2>3, CalmKeeps
<1>3. CASE RecoverBegin(p) \/ ScanKeep(p) \/ ArchiveBegin(p) \/ ArchiveKeep(p)
  <2>1. Calm' /\ ~At("write") /\ ~Moving /\ aborts' = aborts
    BY <1>3 DEF RecoverBegin, ScanKeep, Scanning, ArchiveBegin, ArchiveKeep, Archiving, Acquire,
       Goto, history, Calm, Moving, At, IInv, TypeOK
  <2>2. UNCHANGED <<dir, granted, enqueued, closed, completed>>
    BY <1>3 DEF RecoverBegin, ScanKeep, ArchiveBegin, ArchiveKeep, history
  <2> QED BY <1>1, <2>1, <2>2, CalmKeeps
<1> QED BY <1>2, <1>3

LEMMA InitGives == Init => KInv
<1> SUFFICES ASSUME Init PROVE KInv
    OBVIOUS
<1>1. IsFiniteSet(granted)
    BY FS_EmptySet DEF Init
<1>2. UnknownInv /\ CopyInv /\ RecordInv /\ OrderInv /\ HomeInv /\ ClosedInv /\ ClosedOnce
    BY ValuesAssumption
    DEF Init, UnknownInv, Grants, CopyInv, RecordInv, OrderInv, HomeInv, ClosedInv, ClosedOnce,
        LeaseTaking, Moving, At, Present
<1>3. \A j \in Jobs : FileInv(j)
    BY DEF Init, FileInv, Readable, Dirs
<1> QED BY <1>1, <1>2, <1>3 DEF KInv

LEMMA NextKeeps == IInv /\ KInv /\ [Next]_vars => KInv'
<1> SUFFICES ASSUME IInv, KInv, [Next]_vars PROVE KInv'
    OBVIOUS
<1>1. ASSUME NEW p \in Procs, Step(p) PROVE KInv'
    BY <1>1, CalmStepsKeep, LeaseReadKeeps, WriteBackKeeps, LeaseReplyKeeps, UnlinkKeeps,
       ScanExpiredStarts, StartingKeeps, ArchiveMoveKeeps, Zenon DEF Step
<1>2. ASSUME NEW p \in Procs, NEW prios, LeaseTake(p, prios) PROVE KInv'
    BY <1>2, BystandersKeep, LeaseRenameKeeps DEF LeaseTake
<1>3. ASSUME NEW p \in Procs, NEW g \in granted, Complete(p, g[1], g[2]) \/ Fail(p, g[1], g[2])
      PROVE  KInv'
    BY <1>3, CompleteKeeps, FailStarts, StartingKeeps
<1>4. ASSUME NEW p \in Procs, NEW j \in Jobs, NEW m \in 1..MaxAttemptsLimit, Enqueue(p, j, m)
      PROVE  KInv'
    BY <1>4, EnqueueKeeps
<1>5. ASSUME NEW p \in Procs,
             LeaseCall(p) \/ RecoverBegin(p) \/ ArchiveBegin(p) \/ Abort(p)
      PROVE  KInv'
    BY <1>5, BystandersKeep, CalmStepsKeep
<1>6. CASE SweepComesDue \/ \E l \in 1..issued : LeaseExpires(l)
  <2>1. lock # NoProc => pc'[lock] = pc[lock]
    BY <1>6 DEF SweepComesDue, LeaseExpires
  <2>2. UNCHANGED <<dir, lock, op, granted, enqueued, closed, completed, aborts>>
    BY <1>6 DEF SweepComesDue, LeaseExpires, history
  <2> QED BY <2>1, <2>2, BystanderKeeps
<1>7. CASE UNCHANGED vars
  <2>1. lock # NoProc => pc'[lock] = pc[lock]
    BY <1>7 DEF vars
  <2>2. UNCHANGED <<dir, lock, op, granted, enqueued, closed, completed, aborts>>
    BY <1>7 DEF vars
  <2> QED BY <2>1, <2>2, BystanderKeeps
<1> QED BY <1>1, <1>2, <1>3, <1>4, <1>5, <1>6, <1>7 DEF Next

LEMMA Keeping == Spec => []KInv
    BY InitGives, NextKeeps, Invariance, PTL DEF Spec

-----------------------------------------------------------------------------
(* The theorems *)

\* A job is handed out at most max_attempts times, also when recoveries and takers die
\* half way and leave second copies of it behind.
THEOREM AttemptsBounded == Spec => []BoundedAttempts
<1>1. KInv => BoundedAttempts
    BY DEF KInv, FileInv, Handed, Grants, BoundedAttempts
<1> QED BY <1>1, Keeping, PTL

\* While nobody died under queue_lock a job has one file whenever the lock is free, and
\* none once it was completed.
THEOREM OneFile == Spec => []OneHome
<1>1. ASSUME IInv, KInv, NeverLost PROVE OneHome
  <2> SUFFICES ASSUME aborts = 0, lock = NoProc, NEW j \in enqueued
               PROVE  Cardinality({d \in Dirs : j \in Present(d)})
                        = IF \E g \in completed : g[1] = j THEN 0 ELSE 1
    BY DEF OneHome
  <2>0. j \in Jobs
    BY <1>1 DEF IInv, TypeOK
  <2>1. CASE \E g \in completed : g[1] = j
    <3>1. {d \in Dirs : j \in Present(d)} = {}
        BY <1>1, <2>1 DEF KInv, ClosedInv
    <3> QED BY <2>1, <3>1, FS_EmptySet
  <2>2. CASE ~ \E g \in completed : g[1] = j
    <3>1. PICK d \in Dirs : j \in Present(d)
        BY <1>1, <2>2 DEF NeverLost
    <3>2. \A e \in Dirs : j \in Present(e) => e = d
        BY <1>1, <2>0, <3>1 DEF KInv, HomeInv, Moving, At
    <3>3. {e \in Dirs : j \in Present(e)} = {d}
        BY <3>1, <3>2
    <3> QED BY <2>2, <3>3, FS_Singleton
  <2> QED BY <2>1, <2>2
<1> QED BY <1>1, Invariance, Keeping, NoJobLost, PTL

\* While nobody died under queue_lock, a job is completed or failed under one lease only.
THEOREM ClosedByOne == Spec => []ClosedOnce
<1>1. KInv => ClosedOnce
    BY DEF KInv
<1> QED BY <1>1, Keeping, PTL

-----------------------------------------------------------------------------
(* Refinement *)

\* What JobQueue calls job, and drawn.
JobOf == [j \in Jobs |-> AbsJob(j)]
Drawn == IF At("write") /\ op.target = "processing" THEN issued - 1 ELSE issued

LEMMA TakingIs ==
    /\ \A j : Taking(j) <=> LeaseTaking /\ op.job = j
    /\ \A j : Taking(j)' <=> LeaseTaking' /\ op'.job = j
BY DEF Taking, LeaseTaking, At

LEMMA DrawnIs ==
    ASSUME IInv, IInv'
    PROVE  /\ Drawn = IF \E j \in Jobs : Taking(j) /\ pc[lock] = "write" THEN issued - 1 ELSE issued
           /\ Drawn' = IF \E j \in Jobs : Taking(j)' /\ pc'[lock'] = "write"
                       THEN issued' - 1 ELSE issued'
<1>1. /\ At("write") => op.job \in Jobs
      /\ At("write")' => op'.job \in Jobs
    BY DEF IInv, StageInv, WriteInv
<1>2. (\E j \in Jobs : Taking(j) /\ pc[lock] = "write") <=> At("write") /\ op.target = "processing"
    BY <1>1 DEF Taking, At
<1>3. (\E j \in Jobs : Taking(j)' /\ pc'[lock'] = "write")
        <=> At("write")' /\ op'.target = "processing"
    BY <1>1 DEF Taking, At
<1> QED BY <1>2, <1>3 DEF Drawn

LEMMA Unseen ==
    ASSUME IInv, IInv', \A j \in Jobs : AbsJob(j)' = AbsJob(j), Drawn' = Drawn
    PROVE  UNCHANGED Abs!vars
BY DrawnIs DEF Abs!vars

LEMMA NotSeen ==
    ASSUME NEW j, j \in enqueued' <=> j \in enqueued, ~Taking(j), ~Taking(j)',
           \A d \in Dirs : dir'[d][j] = dir[d][j]
    PROVE  AbsJob(j)' = AbsJob(j)
<1>1. /\ Readable("pending", j)' <=> Readable("pending", j)
      /\ Readable("dead", j)' <=> Readable("dead", j)
      /\ Readable("archive", j)' <=> Readable("archive", j)
      /\ j \in Present("processing")' <=> j \in Present("processing")
      /\ dir'["pending"][j] = dir["pending"][j] /\ dir'["processing"][j] = dir["processing"][j]
    BY DEF Dirs, Readable, Present
<1> QED BY <1>1 DEF AbsJob, PendingFile, NoOp

\* Neither before nor after the step does lease_next hold a job.
LEMMA FreeUnseen ==
    ASSUME IInv, IInv', ~LeaseTaking, ~LeaseTaking', issued' = issued,
           \A j \in Jobs : AbsJob(j)' = AbsJob(j)
    PROVE  UNCHANGED Abs!vars
<1>1. Drawn' = Drawn
    BY DEF Drawn, LeaseTaking
<1> QED BY <1>1, Unseen

LEMMA BystandersUnseen ==
    ASSUME NEW p \in Procs, IInv, IInv',
           \/ LeaseCall(p) \/ (\E prios : LeaseNone(p, prios))
           \/ SweepComesDue \/ (\E l : LeaseExpires(l)) \/ UNCHANGED vars
    PROVE  UNCHANGED Abs!vars
<1>1. UNCHANGED <<dir, lock, op, enqueued, issued>>
    BY DEF LeaseCall, LeaseNone, SweepComesDue, LeaseExpires, history, vars
<1>2. ASSUME lock # NoProc PROVE pc'[lock] = pc[lock]
    BY <1>2 DEF LeaseCall, LeaseNone, SweepComesDue, LeaseExpires, Goto, IInv, TypeOK, LockInv,
       Inside, vars
<1>3. Drawn' = Drawn
    BY <1>1, <1>2 DEF Drawn, At
<1>4. ASSUME NEW j \in Jobs PROVE AbsJob(j)' = AbsJob(j)
    BY <1>1, <1>2 DEF AbsJob, Taking, PendingFile, Readable, Present, NoOp
<1> QED BY <1>3, <1>4, Unseen

LEMMA CalmStepsUnseen ==
    ASSUME NEW p \in Procs, IInv, IInv', KInv, aborts = 0,
           \/ Reply(p) \/ LeaseReadFails(p) \/ LeaseReply(p) \/ RecoverBegin(p) \/ ScanKeep(p)
           \/ ScanFails(p) \/ ScanDone(p) \/ ArchiveBegin(p) \/ ArchiveKeep(p) \/ ArchiveEnd(p)
    PROVE  UNCHANGED Abs!vars
<1> USE ValuesAssumption
<1>1. UNCHANGED <<dir, enqueued, issued>>
    BY DEF Reply, LeaseReadFails, LeaseReply, RecoverBegin, ScanKeep, ScanFails, ScanDone,
       ArchiveBegin, ArchiveKeep, ArchiveEnd, history
<1>2. CASE LeaseReadFails(p)
    BY <1>2 DEF LeaseReadFails, IInv, StageInv, LeaseStageInv, KInv, HomeInv, At, Dirs
<1>3. CASE Reply(p) \/ LeaseReply(p) \/ ScanFails(p) \/ ScanDone(p) \/ ArchiveEnd(p)
  <2>1. ~LeaseTaking /\ ~LeaseTaking'
    BY <1>3 DEF Reply, LeaseReply, ScanFails, Scanning, ScanDone, ArchiveEnd, Release,
       LeaseTaking, At
  <2>2. ASSUME NEW j \in Jobs PROVE AbsJob(j)' = AbsJob(j)
    BY <1>1, <2>1, TakingIs, NotSeen
  <2> QED BY <1>1, <2>1, <2>2, FreeUnseen
<1>4. CASE RecoverBegin(p) \/ ScanKeep(p) \/ ArchiveBegin(p) \/ ArchiveKeep(p)
  <2>1. ~LeaseTaking /\ ~LeaseTaking'
    BY <1>4 DEF RecoverBegin, ScanKeep, Scanning, ArchiveBegin, ArchiveKeep, Archiving, Acquire,
       Goto, LeaseTaking, At, IInv, TypeOK
  <2>2. ASSUME NEW j \in Jobs PROVE AbsJob(j)' = AbsJob(j)
    BY <1>1, <2>1, TakingIs, NotSeen
  <2> QED BY <1>1, <2>1, <2>2, FreeUnseen
<1> QED BY <1>2, <1>3, <1>4

LEMMA LeaseRenameUnseen ==
    ASSUME NEW p \in Procs, NEW prios, IInv, IInv', KInv, aborts = 0, LeaseRename(p, prios)
    PROVE  UNCHANGED Abs!vars
<1> USE ValuesAssumption
<1>a. PICK j \in Jobs :
        /\ dir["pending"][j] # NoFile
        /\ dir' = [dir EXCEPT !["processing"][j] = dir["pending"][j],
                              !["pending"][j] = NoFile]
        /\ op' = [op EXCEPT !.job = j]
    BY LeastIsMember DEF LeaseRename, Candidates, Present
<1>b. /\ lock = NoProc /\ lock' = p /\ pc'[p] = "renamed" /\ op'.job = j
      /\ UNCHANGED <<enqueued, issued>>
    BY <1>a DEF LeaseRename, Acquire, Goto, IInv, TypeOK, Op, history
<1>1. ASSUME NEW i \in Jobs, i # j
      PROVE  AbsJob(i)' = AbsJob(i)
  <2>1. ~Taking(i) /\ ~Taking(i)'
    BY <1>b, <1>1 DEF Taking
  <2>2. \A d \in Dirs : dir'[d][i] = dir[d][i]
    BY <1>a, <1>1 DEF IInv, TypeOK, Dirs
  <2> QED BY <1>b, <2>1, <2>2, NotSeen
<1>2. AbsJob(j)' = AbsJob(j)
  <2>1. Readable("pending", j) /\ j \in enqueued
    BY <1>a, <1>b DEF KInv, HomeInv, UnknownInv, At, Readable, Dirs
  <2>2. dir'["processing"][j] = dir["pending"][j]
    BY <1>a DEF IInv, TypeOK, Dirs
  <2>3. ~Taking(j) /\ Taking(j)'
    BY <1>b DEF Taking
  <2> QED BY <1>b, <2>1, <2>2, <2>3 DEF AbsJob, PendingFile
<1>3. Drawn' = Drawn
    BY <1>b DEF Drawn, At
<1> QED BY <1>1, <1>2, <1>3, Unseen

LEMMA LeaseReadUnseen ==
    ASSUME NEW p \in Procs, IInv, IInv', KInv, LeaseRead(p)
    PROVE  UNCHANGED Abs!vars
<1> USE ValuesAssumption
<1>a. PICK j \in Jobs, f \in Job :
        /\ j = op.job /\ f = dir["processing"][j] /\ j \in enqueued
        /\ dir' = [dir EXCEPT !["processing"][j] = Torn]
        /\ op' = [op EXCEPT !.job = j,
                            !.rec = [lease |-> issued + 1, tries |-> f.tries + 1, max |-> f.max],
                            !.target = "processing", !.after = "leased"]
    BY ZenonT(30)
    DEF LeaseRead, Truncate, Put, IInv, TypeOK, StageInv, LeaseStageInv, KInv, UnknownInv, At,
       Readable, File, Dirs
<1>b. /\ lock = p /\ lock' = p /\ pc[p] = "renamed" /\ pc'[p] = "write"
      /\ op'.job = j /\ op'.target = "processing"
      /\ op'.rec = [lease |-> issued + 1, tries |-> f.tries + 1, max |-> f.max]
      /\ enqueued' = enqueued /\ issued' = issued + 1 /\ issued \in Nat
    BY <1>a DEF LeaseRead, Goto, IInv, TypeOK, Op, history
<1>1. ASSUME NEW i \in Jobs, i # j
      PROVE  AbsJob(i)' = AbsJob(i)
  <2>1. ~Taking(i) /\ ~Taking(i)'
    BY <1>a, <1>b, <1>1 DEF Taking
  <2>2. \A d \in Dirs : dir'[d][i] = dir[d][i]
    BY <1>a, <1>1 DEF IInv, TypeOK, Dirs
  <2> QED BY <1>b, <2>1, <2>2, NotSeen
<1>2. AbsJob(j)' = AbsJob(j)
  <2>1. Taking(j) /\ Taking(j)'
    BY <1>a, <1>b DEF Taking
  <2>2. PendingFile(j) = f
    BY <1>a, <1>b, <2>1 DEF PendingFile
  <2>3. PendingFile(j)'.tries = f.tries /\ PendingFile(j)'.max = f.max
    <3>1. f.tries \in Nat
        BY DEF Job
    <3>2. PendingFile(j)' = [op'.rec EXCEPT !.tries = @ - 1]
        BY <1>b, <2>1 DEF PendingFile
    <3> QED BY <1>b, <3>1, <3>2
  <2> QED BY <1>a, <1>b, <2>1, <2>2, <2>3 DEF AbsJob
<1>3. Drawn' = Drawn
    BY <1>b DEF Drawn, At
<1> QED BY <1>1, <1>2, <1>3, Unseen

\* A move that begins leaves the job where it was.
LEMMA StartingUnseen ==
    ASSUME NEW j \in Jobs, NEW t \in {"pending", "dead"}, NEW rec, IInv, IInv', KInv, aborts = 0,
           Starting(j, t, rec), issued' = issued
    PROVE  UNCHANGED Abs!vars
<1> USE ValuesAssumption
<1>1. ~LeaseTaking /\ ~LeaseTaking' /\ enqueued' = enqueued
    BY DEF Starting, Calm, LeaseTaking
<1>2. ASSUME NEW i \in Jobs, NEW d \in Dirs
      PROVE  dir'[d][i] = IF i = j /\ d = t THEN Torn ELSE dir[d][i]
    BY DEF Starting, IInv, TypeOK, Dirs
<1>3. ASSUME NEW i \in Jobs, i # j
      PROVE  AbsJob(i)' = AbsJob(i)
    BY <1>1, <1>2, <1>3, TakingIs, NotSeen
<1>4. AbsJob(j)' = AbsJob(j)
  <2>1. Readable("processing", j) /\ ~Moving /\ ~At("write")
    BY DEF Starting, Calm, Moving
  <2>2. \A d \in Dirs : d # "processing" => dir[d][j] = NoFile
    BY <2>1 DEF KInv, HomeInv, Present, Readable, Dirs
  <2>3. /\ ~Readable("pending", j) /\ ~Readable("dead", j) /\ ~Readable("archive", j)
        /\ ~Readable("pending", j)' /\ ~Readable("dead", j)' /\ ~Readable("archive", j)'
        /\ dir'["processing"][j] = dir["processing"][j]
    BY <1>2, <2>2 DEF Readable, Dirs
  <2>4. ~Taking(j) /\ ~Taking(j)'
    BY <1>1, TakingIs
  <2> QED BY <1>1, <2>3, <2>4 DEF AbsJob, Present, NoOp
<1> QED BY <1>1, <1>3, <1>4, FreeUnseen

\* The source goes when the target has been seen already.
LEMMA UnlinkUnseen ==
    ASSUME NEW p \in Procs, IInv, IInv', KInv, aborts = 0, FailUnlink(p) \/ ScanUnlink(p)
    PROVE  UNCHANGED Abs!vars
<1> USE ValuesAssumption
<1>a. PICK j \in Jobs, t \in {"pending", "dead"} :
        /\ j = op.job /\ dir' = [dir EXCEPT !["processing"][j] = NoFile]
        /\ t = op.target /\ dir[t][j] # NoFile
        /\ ~At("write") /\ ~LeaseTaking /\ ~LeaseTaking'
        /\ enqueued' = enqueued /\ issued' = issued
    BY DEF FailUnlink, ScanUnlink, Put, Goto, LeaseTaking, At, IInv, TypeOK, StageInv, UnlinkInv,
       history
<1>b. ASSUME NEW i \in Jobs, NEW d \in Dirs
      PROVE  dir'[d][i] = IF i = j /\ d = "processing" THEN NoFile ELSE dir[d][i]
    BY <1>a DEF IInv, TypeOK, Dirs
<1>1. ASSUME NEW i \in Jobs, i # j
      PROVE  AbsJob(i)' = AbsJob(i)
    BY <1>a, <1>b, <1>1, TakingIs, NotSeen
<1>2. AbsJob(j)' = AbsJob(j)
  <2>1. /\ Readable("pending", j)' <=> Readable("pending", j)
        /\ Readable("dead", j)' <=> Readable("dead", j)
        /\ Readable("archive", j)' <=> Readable("archive", j)
        /\ dir'["pending"][j] = dir["pending"][j]
    BY <1>b DEF Readable, Dirs
  <2>2. Readable(t, j)
    BY <1>a DEF KInv, HomeInv, Readable, Dirs
  <2>3. ~Taking(j) /\ ~Taking(j)'
    BY <1>a, TakingIs
  <2> QED BY <1>a, <2>1, <2>2, <2>3 DEF AbsJob, PendingFile, NoOp
<1> QED BY <1>a, <1>1, <1>2, FreeUnseen

LEMMA ArchiveMoveUnseen ==
    ASSUME NEW p \in Procs, IInv, IInv', ArchiveMove(p)
    PROVE  UNCHANGED Abs!vars
<1> USE ValuesAssumption
<1>a. PICK j \in Jobs :
        /\ dir' = [dir EXCEPT !["archive"][j] = dir["dead"][j], !["dead"][j] = NoFile]
        /\ Readable("dead", j)
        /\ ~LeaseTaking /\ ~LeaseTaking'
        /\ enqueued' = enqueued /\ issued' = issued
    BY LeastIsMember
    DEF ArchiveMove, Archiving, LeaseTaking, At, IInv, TypeOK, Op, history
<1>b. ASSUME NEW i \in Jobs, NEW d \in Dirs
      PROVE  dir'[d][i] = IF i # j THEN dir[d][i]
                          ELSE IF d = "archive" THEN dir["dead"][j]
                          ELSE IF d = "dead" THEN NoFile
                          ELSE dir[d][i]
    BY <1>a DEF IInv, TypeOK, Dirs
<1>1. ASSUME NEW i \in Jobs, i # j
      PROVE  AbsJob(i)' = AbsJob(i)
    BY <1>a, <1>b, <1>1, TakingIs, NotSeen
<1>2. AbsJob(j)' = AbsJob(j)
  <2>1. /\ Readable("pending", j)' <=> Readable("pending", j)
        /\ Readable("archive", j)'
        /\ dir'["pending"][j] = dir["pending"][j]
    BY <1>a, <1>b DEF Readable, Dirs
  <2>2. ~Taking(j) /\ ~Taking(j)'
    BY <1>a, TakingIs
  <2> QED BY <1>a, <2>1, <2>2 DEF AbsJob, PendingFile, NoOp
<1> QED BY <1>a, <1>1, <1>2, FreeUnseen

\* What JobQueue sees when one job changes.
LEMMA SeenAt ==
    ASSUME NEW j \in Jobs, NEW v, AbsJob(j)' = v,
           \A i \in Jobs : i # j => AbsJob(i)' = AbsJob(i)
    PROVE  JobOf' = [JobOf EXCEPT ![j] = v]
<1>1. JobOf' = [i \in Jobs |-> IF i = j THEN v ELSE AbsJob(i)]
    BY DEF JobOf
<1>2. [JobOf EXCEPT ![j] = v] = [i \in Jobs |-> IF i = j THEN v ELSE AbsJob(i)]
    BY DEF JobOf
<1> QED BY <1>1, <1>2

LEMMA EnqueueSubmits ==
    ASSUME NEW p \in Procs, NEW j \in Jobs, NEW m \in 1..MaxAttemptsLimit, IInv, IInv', KInv,
           Enqueue(p, j, m)
    PROVE  Abs!Submit(j, m)
<1> USE ValuesAssumption
<1> DEFINE new == [lease |-> NoLease, tries |-> 0, max |-> m]
<1>a. new \in Job /\ new.tries = 0 /\ new.max = m
    BY BoundsAssumption DEF Job, NoLease
<1>b. /\ j \notin enqueued /\ enqueued' = enqueued \cup {j} /\ lock = NoProc
      /\ dir' = [dir EXCEPT !["pending"][j] = new]
      /\ ~LeaseTaking /\ ~LeaseTaking' /\ issued' = issued
    BY DEF Enqueue, Acquire, Goto, Put, LeaseTaking, At, IInv, TypeOK
<1> HIDE DEF new
<1>1. ASSUME NEW i \in Jobs, i # j PROVE AbsJob(i)' = AbsJob(i)
  <2>1. \A d \in Dirs : dir'[d][i] = dir[d][i]
    BY <1>b, <1>1 DEF IInv, TypeOK, Dirs
  <2> QED BY <1>b, <1>1, <2>1, TakingIs, NotSeen
<1>2. AbsJob(j) = Abs!Settled("new")
    BY <1>b DEF AbsJob, NoOp, Abs!Settled, Abs!Standing
<1>3. AbsJob(j)' = Abs!Standing("pending", 0, m, 0)
  <2>1. dir'["pending"][j] = new
    BY <1>b DEF IInv, TypeOK, Dirs
  <2>2. Readable("pending", j)' /\ j \in enqueued'
    BY <1>a, <1>b, <2>1 DEF Readable
  <2>3. ~Taking(j)'
    BY <1>b, TakingIs
  <2> QED BY <1>a, <2>1, <2>2, <2>3 DEF AbsJob, PendingFile, Abs!Standing
<1>4. JobOf' = [JobOf EXCEPT ![j] = Abs!Standing("pending", 0, m, 0)]
    BY <1>1, <1>3, SeenAt
<1>5. Drawn' = Drawn
    BY <1>b DEF Drawn, LeaseTaking
<1>6. JobOf[j].state = "new"
    BY <1>2 DEF JobOf, Abs!Settled, Abs!Standing
<1> QED BY <1>4, <1>5, <1>6, DrawnIs DEF Abs!Submit, Abs!InState, JobOf

LEMMA CompleteFinishes ==
    ASSUME NEW p \in Procs, NEW g \in granted, IInv, IInv', KInv, aborts = 0,
           Complete(p, g[1], g[2])
    PROVE  \E j \in Jobs : Abs!Finish(j)
<1> USE ValuesAssumption
<1>a. PICK j \in Jobs :
        /\ Readable("processing", j)
        /\ dir' = [dir EXCEPT !["processing"][j] = NoFile]
        /\ lock = NoProc /\ ~LeaseTaking /\ ~LeaseTaking'
        /\ enqueued' = enqueued /\ issued' = issued
    BY DEF Complete, HoldsLease, Acquire, Put, Goto, LeaseTaking, At, IInv, TypeOK
<1>b. ASSUME NEW i \in Jobs, NEW d \in Dirs
      PROVE  dir'[d][i] = IF i = j /\ d = "processing" THEN NoFile ELSE dir[d][i]
    BY <1>a DEF IInv, TypeOK, Dirs
<1>c. /\ j \in enqueued
      /\ \A d \in Dirs : d # "processing" => dir[d][j] = NoFile
    BY <1>a DEF KInv, UnknownInv, HomeInv, Moving, At, Present, Readable, Dirs
<1>1. ASSUME NEW i \in Jobs, i # j PROVE AbsJob(i)' = AbsJob(i)
    BY <1>a, <1>b, <1>1, TakingIs, NotSeen
<1>2. AbsJob(j).state = "leased"
    BY <1>a, <1>c, TakingIs DEF AbsJob, Readable, Present, Dirs
<1>3. AbsJob(j)' = Abs!Settled("done")
  <2>1. /\ ~Readable("pending", j)' /\ ~Readable("dead", j)' /\ ~Readable("archive", j)'
        /\ j \notin Present("processing")'
    BY <1>b, <1>c DEF Readable, Present, Dirs
  <2>2. ~Taking(j)'
    BY <1>a, TakingIs
  <2> QED BY <1>a, <1>c, <2>1, <2>2 DEF AbsJob, NoOp, Abs!Settled, Abs!Standing
<1>4. JobOf' = [JobOf EXCEPT ![j] = Abs!Settled("done")]
    BY <1>1, <1>3, SeenAt
<1>5. Drawn' = Drawn
    BY <1>a DEF Drawn, LeaseTaking
<1>6. JobOf[j].state = "leased"
    BY <1>2 DEF JobOf
<1> QED BY <1>4, <1>5, <1>6, DrawnIs DEF Abs!Finish, Abs!InState, JobOf

\* The three writes that JobQueue sees: the end of lease_next's, and of the moves'.
LEMMA WriteBackSeen ==
    ASSUME NEW p \in Procs, IInv, IInv', KInv, aborts = 0, WriteBack(p)
    PROVE  \E j \in Jobs : Abs!Lease(j) \/ Abs!Bury(j) \/ Abs!TakeBack(j)
<1> USE ValuesAssumption
<1>a. PICK j \in Jobs, t \in Dirs, rec \in Job :
        /\ j = op.job /\ t = op.target /\ rec = op.rec
        /\ dir' = [dir EXCEPT ![t][j] = rec] /\ dir[t][j] = Torn
        /\ op' = op /\ At("write") /\ ~At("write")' /\ ~At("renamed")'
        /\ enqueued' = enqueued /\ issued' = issued
    BY DEF WriteBack, Put, Goto, IInv, TypeOK, Op, StageInv, WriteInv, KInv, CopyInv, At, history
<1>b. ASSUME NEW i \in Jobs, NEW d \in Dirs
      PROVE  dir'[d][i] = IF i = j /\ d = t THEN rec ELSE dir[d][i]
    BY <1>a DEF IInv, TypeOK, Dirs
<1>c. ~LeaseTaking' /\ j \in enqueued /\ rec.tries \in Nat /\ rec.max \in Nat /\ issued \in Nat
      /\ Readable(t, j)'
    BY <1>a, <1>b DEF LeaseTaking, KInv, UnknownInv, Job, IInv, TypeOK, Readable
<1>1. ASSUME NEW i \in Jobs, i # j PROVE AbsJob(i)' = AbsJob(i)
  <2>1. ~Taking(i) /\ ~Taking(i)'
    BY <1>a, <1>c, <1>1, TakingIs
  <2> QED BY <1>a, <1>b, <1>1, <2>1, NotSeen
<1>2. CASE t = "processing"
  <2>1. LeaseTaking /\ rec.lease = issued /\ dir["pending"][j] = NoFile
    BY <1>a, <1>2 DEF LeaseTaking, IInv, StageInv, WriteInv, FreshLease, KInv, CopyInv
  <2>2. \A d \in Dirs : d # "processing" => dir[d][j] = NoFile
    BY <1>a, <1>2 DEF KInv, HomeInv, Moving, At, Present, Dirs
  <2>3. Taking(j) /\ PendingFile(j).tries = rec.tries - 1 /\ PendingFile(j).max = rec.max
    BY <1>a, <1>c, <2>1, TakingIs DEF PendingFile, At, Job
  <2>4. /\ JobOf[j].state = "pending" /\ JobOf[j].tries = rec.tries - 1 /\ JobOf[j].max = rec.max
    BY <1>c, <2>3 DEF JobOf, AbsJob
  <2>5. AbsJob(j)' = Abs!Standing("leased", rec.tries, rec.max, issued)
    <3>1. /\ ~Readable("pending", j)' /\ ~Readable("dead", j)' /\ ~Readable("archive", j)'
          /\ j \in Present("processing")' /\ dir'["processing"][j] = rec
        BY <1>a, <1>b, <1>2, <2>2 DEF Readable, Present, Dirs
    <3>2. ~Taking(j)'
        BY <1>c, TakingIs
    <3> QED BY <1>a, <1>c, <2>1, <3>1, <3>2 DEF AbsJob, Abs!Standing
  <2>6. JobOf' = [JobOf EXCEPT ![j] = Abs!Standing("leased", rec.tries, rec.max, issued)]
    BY <1>1, <2>5, SeenAt
  <2>7. rec.tries = JobOf[j].tries + 1 /\ JobOf[j].tries < JobOf[j].max
    BY <1>a, <1>2, <1>c, <2>4 DEF KInv, RecordInv
  <2>8. Drawn = issued - 1 /\ Drawn' = Drawn + 1 /\ issued = Drawn + 1
    BY <1>a, <1>2, <1>c DEF Drawn
  <2>9. \A i \in Jobs : JobOf[i].state = "pending" /\ PriorityOf[i] = PriorityOf[j] => j <= i
    <3> SUFFICES ASSUME NEW i \in Jobs, JobOf[i].state = "pending", PriorityOf[i] = PriorityOf[j]
                 PROVE  j <= i
        OBVIOUS
    <3>1. i = j \/ Readable("pending", i)
        BY <1>a, TakingIs DEF JobOf, AbsJob
    <3> QED BY <1>a, <2>1, <3>1, JobsAssumption DEF KInv, OrderInv
  <2>10. Abs!Lease(j)
    BY <2>4, <2>6, <2>7, <2>8, <2>9, DrawnIs DEF Abs!Lease, Abs!InState, JobOf
  <2> QED BY <2>10
<1>3. CASE t # "processing"
  <2>1. /\ t \in {"pending", "dead"} /\ Moving /\ ~LeaseTaking
        /\ t = "pending" => op.rec.lease = NoLease
    BY <1>a, <1>3 DEF IInv, StageInv, WriteInv, Moving, LeaseTaking, At
  <2>2. /\ Readable("processing", j) /\ rec.tries = dir["processing"][j].tries
        /\ rec.max = dir["processing"][j].max
        /\ t = "pending" => rec.tries < rec.max
    BY <1>a, <2>1 DEF KInv, CopyInv, RecordInv
  <2>3. /\ ~Readable("pending", j) /\ ~Readable("dead", j) /\ ~Readable("archive", j)
        /\ ~Taking(j) /\ ~Taking(j)'
    BY <1>a, <1>c, <2>1, <2>2, TakingIs DEF KInv, HomeInv, Present, Readable, Dirs
  <2>4. JobOf[j].state = "leased" /\ JobOf[j].tries = rec.tries /\ JobOf[j].max = rec.max
    BY <1>c, <2>2, <2>3 DEF JobOf, AbsJob, Present, Readable
  <2>5. Drawn' = Drawn
    BY <1>a, <1>3 DEF Drawn
  <2>6. CASE t = "dead"
    <3>1. ~Readable("pending", j)' /\ Readable("dead", j)'
        BY <1>b, <1>c, <2>3, <2>6 DEF Readable, Dirs
    <3>2. AbsJob(j)' = Abs!Settled("dead")
        BY <1>a, <1>c, <2>3, <3>1 DEF AbsJob, NoOp, Abs!Settled, Abs!Standing
    <3>3. JobOf' = [JobOf EXCEPT ![j] = Abs!Settled("dead")]
        BY <1>1, <3>2, SeenAt
    <3>4. Abs!Bury(j)
        BY <2>4, <2>5, <3>3, DrawnIs DEF Abs!Bury, Abs!InState, JobOf
    <3> QED BY <3>4
  <2>7. CASE t = "pending"
    <3>1. Readable("pending", j)' /\ dir'["pending"][j] = rec
        BY <1>b, <1>c, <2>7 DEF Dirs
    <3>2. AbsJob(j)' = Abs!Standing("pending", rec.tries, rec.max, 0)
        BY <1>a, <1>c, <2>3, <3>1 DEF AbsJob, PendingFile, Abs!Standing
    <3>3. JobOf' = [JobOf EXCEPT ![j] = Abs!Standing("pending", rec.tries, rec.max, 0)]
        BY <1>1, <3>2, SeenAt
    <3>4. Abs!TakeBack(j)
        BY <2>2, <2>4, <2>5, <2>7, <3>3, DrawnIs DEF Abs!TakeBack, Abs!InState, JobOf
    <3> QED BY <3>4
  <2> QED BY <2>1, <2>6, <2>7
<1> QED BY <1>2, <1>3

LEMMA StepUnseenOrSeen ==
    ASSUME IInv, IInv', KInv, [Next]_vars, aborts' = 0
    PROVE  [Abs!Next]_(Abs!vars)
<1>0. aborts = 0 /\ \A p \in Procs : ~Abort(p)
  <2>1. aborts \in Nat /\ aborts' \in {aborts, aborts + 1}
    BY ZenonT(30) DEF IInv, TypeOK, Next, Step, LeaseTake, vars, history, Enqueue, LeaseCall, LeaseNone,
       LeaseRename, RecoverBegin, ArchiveBegin, Abort, Reply, LeaseRead, LeaseReadFails,
       WriteBack, LeaseReply, FailUnlink, ScanKeep, ScanFails, ScanExpired, ScanUnlink,
       ScanDone, ArchiveKeep, ArchiveMove, ArchiveEnd, SweepComesDue, LeaseExpires,
       Complete, Fail
  <2> QED BY <2>1 DEF Abort
<1>1. ASSUME NEW p \in Procs, Step(p) PROVE [Abs!Next]_(Abs!vars)
  <2>1. CASE ScanExpired(p)
    <3>1. issued' = issued
        BY <2>1 DEF ScanExpired
    <3> QED BY <1>0, <2>1, <3>1, ScanExpiredStarts, StartingUnseen
  <2>2. CASE WriteBack(p)
    BY <1>0, <2>2, WriteBackSeen DEF Abs!Next
  <2>3. CASE LeaseRead(p) \/ FailUnlink(p) \/ ScanUnlink(p) \/ ArchiveMove(p)
    BY <1>0, <2>3, LeaseReadUnseen, UnlinkUnseen, ArchiveMoveUnseen
  <2> QED BY <1>0, <1>1, <2>1, <2>2, <2>3, CalmStepsUnseen, Zenon DEF Step
<1>2. ASSUME NEW p \in Procs, NEW prios, LeaseTake(p, prios) PROVE [Abs!Next]_(Abs!vars)
    BY <1>0, <1>2, BystandersUnseen, LeaseRenameUnseen DEF LeaseTake
<1>3. ASSUME NEW p \in Procs, NEW g \in granted, Complete(p, g[1], g[2])
      PROVE  [Abs!Next]_(Abs!vars)
    BY <1>0, <1>3, CompleteFinishes DEF Abs!Next
<1>4. ASSUME NEW p \in Procs, NEW g \in granted, Fail(p, g[1], g[2])
      PROVE  [Abs!Next]_(Abs!vars)
  <2>1. issued' = issued
    BY <1>4 DEF Fail
  <2> QED BY <1>0, <1>4, <2>1, FailStarts, StartingUnseen
<1>5. ASSUME NEW p \in Procs, NEW j \in Jobs, NEW m \in 1..MaxAttemptsLimit, Enqueue(p, j, m)
      PROVE  [Abs!Next]_(Abs!vars)
    BY <1>5, EnqueueSubmits DEF Abs!Next
<1>6. ASSUME NEW p \in Procs, LeaseCall(p) \/ RecoverBegin(p) \/ ArchiveBegin(p)
      PROVE  [Abs!Next]_(Abs!vars)
    BY <1>0, <1>6, BystandersUnseen, CalmStepsUnseen
<1>7. CASE SweepComesDue \/ (\E l \in 1..issued : LeaseExpires(l)) \/ UNCHANGED vars
  <2>1. UNCHANGED <<dir, lock, op, pc, enqueued, issued>>
    BY <1>7 DEF SweepComesDue, LeaseExpires, history, vars
  <2>2. Drawn' = Drawn
    BY <2>1 DEF Drawn, At
  <2>3. ASSUME NEW j \in Jobs PROVE AbsJob(j)' = AbsJob(j)
    BY <2>1 DEF AbsJob, Taking, PendingFile, Readable, Present, NoOp
  <2> QED BY <2>2, <2>3, Unseen
<1> QED BY <1>0, <1>1, <1>2, <1>3, <1>4, <1>5, <1>6, <1>7 DEF Next

\* Until the first process dies under queue_lock, the files and the locks of scheduler.py
\* implement JobQueue: every step of a call is one step of JobQueue or none.
THEOREM FilesImplementJobQueue == Spec => ImplementsJobQueue
<1>1. Init => Abs!Init
  <2> SUFFICES ASSUME Init PROVE Abs!Init
    OBVIOUS
  <2>1. \A j \in Jobs : AbsJob(j) = Abs!Settled("new")
    BY DEF Init, AbsJob, NoOp, Abs!Settled, Abs!Standing
  <2>2. \A j \in Jobs : ~Taking(j)
    BY DEF Init, Taking
  <2> QED BY <2>1, <2>2 DEF Init, Abs!Init
<1>2. IInv /\ IInv' /\ KInv /\ [Next]_vars => (aborts' = 0 => [Abs!Next]_(Abs!vars))
    BY StepUnseenOrSeen
<1> QED BY <1>1, <1>2, Invariance, Keeping, PTL DEF Spec, ImplementsJobQueue
=============================================================================
