----------------------------- MODULE LoopRequests -----------------------------
(***************************************************************************)
(* The loop request queue of loop_engineering.py.                          *)
(*                                                                         *)
(* A request is a JSON file that moves inbox -> processing -> done | dead  *)
(* under queue_lock.  Unlike the job queue it is written atomically        *)
(* (_write_json: a temporary file and os.replace), it carries the verdict  *)
(* of a reviewer and the result of acceptance commands, both of which gate *)
(* its completion, and a transient failure puts it back into the inbox.    *)
(* One action is one file operation, so a process may die between any two. *)
(***************************************************************************)
EXTENDS Naturals, FiniteSets

CONSTANTS
    Requests,           \* request ids, numbered in the order their names sort
    ReviewRequired,     \* the requests submitted with reviewer_required
    AcceptanceRequired, \* the requests submitted with acceptance_required
    Procs,              \* orchestrators, reviewers, workers, loopd
    MaxAttempts,        \* MAX_ATTEMPTS
    MaxAborts,          \* bound: processes killed, or raising, under the lock
    NoFile, NoProc

NoLease == 0            \* no lease_id and no lease_expires_at in the request

Results == {"none", "pass", "fail"}     \* the verdict blocked gates like fail

Request == [lease : Nat, tries : Nat, verdict : Results, acceptance : Results]

ASSUME RequestsAssumption ==
    /\ Requests \subseteq Nat
    /\ ReviewRequired \subseteq Requests /\ AcceptanceRequired \subseteq Requests

ASSUME LimitsAssumption == MaxAttempts \in Nat \ {0} /\ MaxAborts \in Nat

ASSUME MarkersAssumption == NoFile \notin Request /\ NoProc \notin Procs

Dirs == {"inbox", "processing", "done", "dead"}

\* The stages of Inside hold the lock; in "running" record_acceptance runs the
\* commands, before it asks for the lock.
Inside == {"scan", "scan_unlink", "claim", "renamed", "reply", "finish_unlink"}
Stages == {"idle", "running"} \cup Inside

VARIABLES
    dir,        \* dir[d][r]: the file of request r in directory d
    lock,       \* the holder of queue_lock
    pc,         \* pc[p]: the stage p has reached
    op,         \* the local variables of the call that holds the lock
    run,        \* run[p]: the acceptance run of p that has no result on file yet
    issued,     \* issued[r]: lease ids drawn for r so far, 1 .. issued[r]
    expired,    \* the <<request, lease>> whose lease_expires_at has passed
    granted,    \* the <<request, lease>> that claim returned
    submitted,  \* history: the requests whose file was ever created
    revoked,    \* history: the <<request, lease>> taken back or given up
    said,       \* history: said[r]: the last verdict and acceptance recorded for r
    aborts

vars == <<dir, lock, pc, op, run, issued, expired, granted, submitted, revoked,
          said, aborts>>

Op == [req : Requests \cup {0}, rec : Request,
       want : SUBSET Requests, todo : SUBSET Requests]

Blank == [lease |-> NoLease, tries |-> 0, verdict |-> "none", acceptance |-> "none"]
NoOp == [req |-> 0, rec |-> Blank, want |-> {}, todo |-> {}]
NoRun == [req |-> 0, lease |-> NoLease, result |-> "none"]
Silence == [verdict |-> "none", acceptance |-> "none"]

Present(d) == {r \in Requests : dir[d][r] # NoFile}

Least(S) == CHOOSE r \in S : \A s \in S : r <= s

Put(d, r, f) == dir' = [dir EXCEPT ![d][r] = f]

Goto(p, stage) == pc' = [pc EXCEPT ![p] = stage]

Acquire(p, stage) == lock = NoProc /\ lock' = p /\ Goto(p, stage)

Release(p) == lock' = NoProc /\ op' = NoOp /\ Goto(p, "idle")

Init ==
    /\ dir = [d \in Dirs |-> [r \in Requests |-> NoFile]]
    /\ lock = NoProc
    /\ pc = [p \in Procs |-> "idle"]
    /\ op = NoOp
    /\ run = [p \in Procs |-> NoRun]
    /\ issued = [r \in Requests |-> 0]
    /\ expired = {} /\ granted = {} /\ submitted = {} /\ revoked = {}
    /\ said = [r \in Requests |-> Silence]
    /\ aborts = 0

-----------------------------------------------------------------------------
(* submit: the file appears in the inbox with its last operation. *)

Submit(p, r) ==
    /\ pc[p] = "idle" /\ lock = NoProc /\ r \notin submitted
    /\ Put("inbox", r, Blank)
    /\ submitted' = submitted \cup {r}
    /\ UNCHANGED <<lock, pc, op, run, issued, expired, granted, revoked, said, aborts>>

-----------------------------------------------------------------------------
(* claim and recover_expired: the recovery of expired leases, and then, in  *)
(* a claim, the first inbox file the caller accepts: any, those of one      *)
(* priority, or a single one (want; recover_expired wants nothing).         *)

Bug_ClaimSkipsRecovery(p, want) ==
    /\ pc[p] = "idle"
    /\ Acquire(p, "scan")
    /\ op' = [op EXCEPT !.want = want,
                        !.todo = IF want = {} THEN Present("processing") ELSE {}]
    /\ UNCHANGED <<dir, run, issued, expired, granted, submitted, revoked, said, aborts>>

RecoverBegin(p, want) ==
    /\ pc[p] = "idle"
    /\ Acquire(p, "scan")
    /\ op' = [op EXCEPT !.want = want, !.todo = Present("processing")]
    /\ UNCHANGED <<dir, run, issued, expired, granted, submitted, revoked, said, aborts>>

Scanning(p) == lock = p /\ pc[p] = "scan" /\ op.todo # {}

Expired(r) ==
    r \in Present("processing") /\ <<r, dir["processing"][r].lease>> \in expired

Bug_ExhaustedTooLate(tries) == tries > MaxAttempts

Exhausted(tries) == tries >= MaxAttempts

\* The lease has not expired, or there is none: the request stays.
ScanKeep(p) ==
    /\ Scanning(p)
    /\ ~ Expired(Least(op.todo))
    /\ op' = [op EXCEPT !.todo = @ \ {Least(@)}]
    /\ UNCHANGED <<dir, lock, pc, run, issued, expired, granted, submitted, revoked,
                   said, aborts>>

Bug_UnlinksFirst(p) ==
    /\ Scanning(p)
    /\ Expired(Least(op.todo))
    /\ Put("processing", Least(op.todo), NoFile)
    /\ op' = [op EXCEPT !.req = Least(op.todo), !.rec = dir["processing"][Least(op.todo)]]
    /\ Goto(p, "scan_unlink")
    /\ UNCHANGED <<lock, run, issued, expired, granted, submitted, revoked, said, aborts>>

\* The lease fields are dropped; the verdict and the acceptance result stay.
ScanExpired(p) ==
    /\ Scanning(p)
    /\ LET r == Least(op.todo)
           free == [dir["processing"][r] EXCEPT !.lease = NoLease]
       IN  /\ Expired(r)
           /\ Put(IF Exhausted(free.tries) THEN "dead" ELSE "inbox", r, free)
           /\ op' = [op EXCEPT !.req = r]
    /\ Goto(p, "scan_unlink")
    /\ UNCHANGED <<lock, run, issued, expired, granted, submitted, revoked, said, aborts>>

ScanUnlink(p) ==
    /\ lock = p /\ pc[p] = "scan_unlink"
    /\ Put("processing", op.req, NoFile)
    /\ revoked' = revoked \cup {<<op.req, dir["processing"][op.req].lease>>}
    /\ op' = [op EXCEPT !.todo = @ \ {op.req}]
    /\ Goto(p, "scan")
    /\ UNCHANGED <<lock, run, issued, expired, granted, submitted, said, aborts>>

ScanDone(p) ==
    /\ lock = p /\ pc[p] = "scan" /\ op.todo = {}
    /\ \/ op.want = {} /\ Release(p)
       \/ op.want # {} /\ Goto(p, "claim") /\ UNCHANGED <<lock, op>>
    /\ UNCHANGED <<dir, run, issued, expired, granted, submitted, revoked, said, aborts>>

ClaimNone(p) ==
    /\ lock = p /\ pc[p] = "claim"
    /\ op.want \cap Present("inbox") = {}
    /\ Release(p)
    /\ UNCHANGED <<dir, run, issued, expired, granted, submitted, revoked, said, aborts>>

\* The file is read, then renamed: it replaces a processing file of that name.
ClaimRename(p) ==
    /\ lock = p /\ pc[p] = "claim"
    /\ op.want \cap Present("inbox") # {}
    /\ LET r == Least(op.want \cap Present("inbox")) IN
         /\ dir' = [dir EXCEPT !["processing"][r] = dir["inbox"][r], !["inbox"][r] = NoFile]
         /\ op' = [op EXCEPT !.req = r, !.rec = dir["inbox"][r]]
    /\ Goto(p, "renamed")
    /\ UNCHANGED <<lock, run, issued, expired, granted, submitted, revoked, said, aborts>>

Bug_LeaseIdReused(p) ==
    /\ lock = p /\ pc[p] = "renamed"
    /\ Put("processing", op.req,
           [op.rec EXCEPT !.lease = issued[op.req] + 1, !.tries = @ + 1])
    /\ Goto(p, "reply")
    /\ UNCHANGED <<lock, op, run, issued, expired, granted, submitted, revoked, said, aborts>>

\* A new lease id and expiry, one more attempt, and the file is replaced.
ClaimWrite(p) ==
    /\ lock = p /\ pc[p] = "renamed"
    /\ issued' = [issued EXCEPT ![op.req] = @ + 1]
    /\ Put("processing", op.req,
           [op.rec EXCEPT !.lease = issued[op.req] + 1, !.tries = @ + 1])
    /\ Goto(p, "reply")
    /\ UNCHANGED <<lock, op, run, expired, granted, submitted, revoked, said, aborts>>

\* The handoff and the audit record are written under the lock, then claim
\* returns the lease.
ClaimReply(p) ==
    /\ lock = p /\ pc[p] = "reply"
    /\ granted' = granted \cup {<<op.req, dir["processing"][op.req].lease>>}
    /\ Release(p)
    /\ UNCHANGED <<dir, run, issued, expired, submitted, revoked, said, aborts>>

-----------------------------------------------------------------------------
(* The calls of those who were told a lease, maybe long ago.  A call whose  *)
(* lease is not the one on file raises and changes nothing.                 *)

Bug_LeaseNotCompared(r, l) == r \in Present("processing")

HoldsLease(r, l) == r \in Present("processing") /\ dir["processing"][r].lease = l

\* record_verdict: one critical section, one replaced file.
Verdict(p, r, l, verdict) ==
    /\ pc[p] = "idle" /\ lock = NoProc
    /\ HoldsLease(r, l)
    /\ dir' = [dir EXCEPT !["processing"][r].verdict = verdict]
    /\ said' = [said EXCEPT ![r].verdict = verdict]
    /\ UNCHANGED <<lock, pc, op, run, issued, expired, granted, submitted, revoked, aborts>>

\* record_acceptance runs the commands first, for as long as they take.
AcceptanceRun(p, r, l, result) ==
    /\ pc[p] = "idle"
    /\ run' = [run EXCEPT ![p] = [req |-> r, lease |-> l, result |-> result]]
    /\ Goto(p, "running")
    /\ UNCHANGED <<dir, lock, op, issued, expired, granted, submitted, revoked, said, aborts>>

\* Then it takes the lock and stamps the result, if the lease is still on file.
AcceptanceRecord(p) ==
    /\ pc[p] = "running" /\ lock = NoProc
    /\ LET r == run[p].req IN
         \/ /\ HoldsLease(r, run[p].lease)
            /\ dir' = [dir EXCEPT !["processing"][r].acceptance = run[p].result]
            /\ said' = [said EXCEPT ![r].acceptance = run[p].result]
         \/ /\ ~ HoldsLease(r, run[p].lease)
            /\ UNCHANGED <<dir, said>>
    /\ run' = [run EXCEPT ![p] = NoRun]
    /\ Goto(p, "idle")
    /\ UNCHANGED <<lock, op, issued, expired, granted, submitted, revoked, aborts>>

Bug_GateOpen(r) ==
    r \in AcceptanceRequired => dir["processing"][r].acceptance # "fail"

\* The two gates of _finish: LoopPhaseError otherwise.
Gated(r) ==
    /\ r \in ReviewRequired => dir["processing"][r].verdict = "pass"
    /\ r \in AcceptanceRequired => dir["processing"][r].acceptance = "pass"

\* complete: the file is written to done, then the processing file removed.
Complete(p, r, l) ==
    /\ pc[p] = "idle"
    /\ HoldsLease(r, l) /\ Gated(r)
    /\ Acquire(p, "finish_unlink")
    /\ Put("done", r, dir["processing"][r])
    /\ op' = [op EXCEPT !.req = r]
    /\ UNCHANGED <<run, issued, expired, granted, submitted, revoked, said, aborts>>

\* fail: a transient fault puts the request back into the inbox while its
\* attempts last; otherwise it is dead.
Fail(p, r, l, transient) ==
    /\ pc[p] = "idle"
    /\ HoldsLease(r, l)
    /\ Acquire(p, "finish_unlink")
    /\ LET request == dir["processing"][r] IN
         IF transient /\ ~ Exhausted(request.tries)
         THEN Put("inbox", r, [request EXCEPT !.lease = NoLease])
         ELSE Put("dead", r, request)
    /\ op' = [op EXCEPT !.req = r]
    /\ UNCHANGED <<run, issued, expired, granted, submitted, revoked, said, aborts>>

Bug_UnlinkForgotten(p) ==
    /\ lock = p /\ pc[p] = "finish_unlink"
    /\ Release(p)
    /\ UNCHANGED <<dir, run, issued, expired, granted, submitted, revoked, said, aborts>>

FinishUnlink(p) ==
    /\ lock = p /\ pc[p] = "finish_unlink"
    /\ Put("processing", op.req, NoFile)
    /\ revoked' = revoked \cup {<<op.req, dir["processing"][op.req].lease>>}
    /\ Release(p)
    /\ UNCHANGED <<run, issued, expired, granted, submitted, said, aborts>>

-----------------------------------------------------------------------------
(* Time, and the death of a process under the lock (or an exception there). *)

LeaseExpires(r, l) ==
    /\ l \in 1..issued[r] /\ <<r, l>> \notin expired
    /\ expired' = expired \cup {<<r, l>>}
    /\ UNCHANGED <<dir, lock, pc, op, run, issued, granted, submitted, revoked, said, aborts>>

Abort(p) ==
    /\ lock = p /\ aborts < MaxAborts
    /\ aborts' = aborts + 1
    /\ Release(p)
    /\ UNCHANGED <<dir, run, issued, expired, granted, submitted, revoked, said>>

\* The steps of a call that has begun.
Step(p) ==
    \/ ScanKeep(p) \/ ScanExpired(p) \/ ScanUnlink(p) \/ ScanDone(p)
    \/ ClaimNone(p) \/ ClaimRename(p) \/ ClaimWrite(p) \/ ClaimReply(p)
    \/ AcceptanceRecord(p)
    \/ FinishUnlink(p)

\* What somebody does with the lease a claim returned.
Answer(p, r, l) ==
    \/ \E verdict \in {"pass", "fail"} : Verdict(p, r, l, verdict)
    \/ \E result \in {"pass", "fail"} : AcceptanceRun(p, r, l, result)
    \/ Complete(p, r, l)
    \/ \E transient \in BOOLEAN : Fail(p, r, l, transient)

Next ==
    \/ \E p \in Procs :
         \/ \E r \in Requests : Submit(p, r)
         \/ \E want \in SUBSET Requests : RecoverBegin(p, want)
         \/ \E g \in granted : Answer(p, g[1], g[2])
         \/ Step(p)
         \/ Abort(p)
    \/ \E r \in Requests, l \in 1..MaxAttempts : LeaseExpires(r, l)

Spec == Init /\ [][Next]_vars

\* Somebody polls with a claim for any request, calls that began go on, leases
\* run out.  Nobody has to review, complete or fail anything.
Fairness ==
    /\ \A p \in Procs : SF_vars(RecoverBegin(p, Requests)) /\ SF_vars(Step(p))
    /\ \A r \in Requests, l \in 1..MaxAttempts : WF_vars(LeaseExpires(r, l))

FairSpec == Spec /\ Fairness

-----------------------------------------------------------------------------
(* Properties *)

\* Every variable has its type; in particular a lease is granted, expired or
\* revoked only after its id was drawn for that request.
TypeOK ==
    /\ dir \in [Dirs -> [Requests -> Request \cup {NoFile}]]
    /\ lock \in Procs \cup {NoProc}
    /\ pc \in [Procs -> Stages]
    /\ op \in Op
    /\ run \in [Procs -> [req : Requests \cup {0}, lease : Nat, result : Results]]
    /\ issued \in [Requests -> Nat]
    /\ \A g \in expired \cup granted \cup revoked :
         g[1] \in Requests /\ g[2] \in 0..issued[g[1]]
    /\ submitted \in SUBSET Requests
    /\ said \in [Requests -> [verdict : Results, acceptance : Results]]
    /\ aborts \in Nat

\* A submitted request always has a file, wherever processes die: every move
\* writes the target before it removes the source.
NeverLost == \A r \in submitted : \E d \in Dirs : r \in Present(d)

\* While nobody died under the lock, a submitted request is, outside the
\* critical sections, in exactly one directory: what is done or dead is never
\* handed out again, and what was put back is handed out once.
OneHome ==
    aborts = 0 /\ lock = NoProc =>
        \A r \in submitted : Cardinality({d \in Dirs : r \in Present(d)}) = 1

\* However leases expire, faults requeue the request and processes die, it is
\* handed out at most MAX_ATTEMPTS times (and leases are drawn no more often).
BoundedClaims ==
    \A r \in Requests : Cardinality({g \in granted : g[1] = r}) <= MaxAttempts

\* Nothing is written under a lease that was taken back or given up: neither a
\* verdict, nor the late result of acceptance commands that ran meanwhile, nor
\* a completion, also when the request is out again under another lease.
NoRevokedWrite ==
    [][\A p \in Procs, r \in Requests :
         /\ \A l \in 1..issued[r] :
              (\/ \E v \in Results : Verdict(p, r, l, v)
               \/ Complete(p, r, l)
               \/ \E t \in BOOLEAN : Fail(p, r, l, t)) => <<r, l>> \notin revoked
         /\ AcceptanceRecord(p) /\ run[p].req = r /\ dir' # dir
              => <<r, run[p].lease>> \notin revoked]_vars

\* While nobody died under the lock, a request is done only if the last thing
\* its reviewer said was pass and the last acceptance run on record passed,
\* through any number of leases, requeues and recoveries.
DoneWasApproved ==
    aborts = 0 => \A r \in Present("done") :
        /\ r \in ReviewRequired => said[r].verdict = "pass"
        /\ r \in AcceptanceRequired => said[r].acceptance = "pass"

\* While nobody dies under the lock every request is done or dead in the end,
\* even if those who claim it never answer.
EveryRequestSettles ==
    \A r \in Requests :
        r \in submitted ~> (r \in Present("done") \cup Present("dead") \/ aborts > 0)

\* plan_state.py: the queue gives request-level crash recovery.  A request in
\* processing does not stay there for ever.
ProcessingEnds == \A r \in Requests : r \in Present("processing") ~> r \notin Present("processing")
=============================================================================
