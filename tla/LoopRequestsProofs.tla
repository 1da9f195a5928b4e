-------------------------- MODULE LoopRequestsProofs --------------------------
(***************************************************************************)
(* Proofs about LoopRequests for every value of its constants: nothing is  *)
(* lost, done twice, handed out too often, written under a lease that was  *)
(* given up, or finished without the approval it needs.                    *)
(***************************************************************************)
EXTENDS LoopRequests, FiniteSetTheorems, NaturalsInduction, TLAPS

-----------------------------------------------------------------------------
(* The inductive invariant *)

\* A call is inside its critical section exactly while it holds queue_lock.
LockInv == \A p \in Procs : pc[p] \in Inside <=> lock = p

\* What the holder of the lock relies on when it is at stage s.
At(s) == lock # NoProc /\ pc[lock] = s

\* A move has written its target, and its source is still there.
Unlinking == At("scan_unlink") \/ At("finish_unlink")

\* Leases are drawn before anybody is told them, and before they end.
LeasesInv ==
    \A g \in expired \cup granted \cup revoked :
        g \in Requests \X Nat /\ 1 <= g[2] /\ g[2] <= issued[g[1]]

\* What is handed out next has as many attempts behind it as leases were drawn; the
\* lease on file is the last one drawn, and it was not given up.
InboxInv(r) == r \in Present("inbox") =>
    /\ dir["inbox"][r].lease = NoLease
    /\ dir["inbox"][r].tries = issued[r] /\ issued[r] < MaxAttempts

ProcessingInv(r) == r \in Present("processing") =>
    /\ dir["processing"][r].lease \in {NoLease, issued[r]}
    /\ dir["processing"][r].tries = issued[r]
    /\ <<r, dir["processing"][r].lease>> \notin revoked

DoneInv(r) == r \in Present("done") =>
    /\ r \in ReviewRequired => dir["done"][r].verdict = "pass"
    /\ r \in AcceptanceRequired => dir["done"][r].acceptance = "pass"

NewInv(r) == r \notin submitted =>
    issued[r] = 0 /\ said[r] = Silence /\ \A d \in Dirs : dir[d][r] = NoFile

FileInv == \A r \in Requests :
    issued[r] <= MaxAttempts /\ NewInv(r) /\ InboxInv(r) /\ ProcessingInv(r) /\ DoneInv(r)

StageInv ==
    /\ At("renamed") =>
         /\ op.req \in Requests /\ dir["inbox"][op.req] = NoFile
         /\ dir["processing"][op.req] = op.rec
         /\ op.rec.lease = NoLease /\ issued[op.req] < MaxAttempts
    /\ At("reply") =>
         /\ op.req \in Present("processing")
         /\ dir["processing"][op.req].lease # NoLease
    /\ Unlinking =>
         /\ op.req \in Present("processing")
         /\ dir["processing"][op.req].lease # NoLease
         /\ \E d \in Dirs \ {"processing"} : op.req \in Present(d)

\* While nobody died, a request has two files only during a move, the processing file
\* being one of them.
HomeInv ==
    aborts = 0 => \A r \in submitted : \A d, e \in Dirs :
        r \in Present(d) /\ r \in Present(e) =>
            d = e \/ (Unlinking /\ op.req = r /\ "processing" \in {d, e})

\* While nobody died, every file of a request tells what was said last.
SaidInv ==
    aborts = 0 => \A r \in Requests : \A d \in Dirs : r \in Present(d) =>
        dir[d][r].verdict = said[r].verdict /\ dir[d][r].acceptance = said[r].acceptance

IInv ==
    /\ TypeOK /\ LockInv /\ LeasesInv /\ FileInv /\ StageInv
    /\ NeverLost /\ HomeInv /\ SaidInv

-----------------------------------------------------------------------------
LEMMA StampedRequest ==
    ASSUME NEW f \in Request, NEW v \in Results
    PROVE  /\ [f EXCEPT !.verdict = v] \in Request
           /\ [f EXCEPT !.verdict = v].verdict = v
           /\ [f EXCEPT !.verdict = v].acceptance = f.acceptance
           /\ [f EXCEPT !.verdict = v].lease = f.lease
           /\ [f EXCEPT !.verdict = v].tries = f.tries
           /\ [f EXCEPT !.acceptance = v] \in Request
           /\ [f EXCEPT !.acceptance = v].acceptance = v
           /\ [f EXCEPT !.acceptance = v].verdict = f.verdict
           /\ [f EXCEPT !.acceptance = v].lease = f.lease
           /\ [f EXCEPT !.acceptance = v].tries = f.tries
BY DEF Request

LEMMA StampedSaying ==
    ASSUME NEW s \in [verdict : Results, acceptance : Results], NEW v \in Results
    PROVE  /\ [s EXCEPT !.acceptance = v] \in [verdict : Results, acceptance : Results]
           /\ [s EXCEPT !.acceptance = v].acceptance = v
           /\ [s EXCEPT !.acceptance = v].verdict = s.verdict
           /\ [s EXCEPT !.verdict = v] \in [verdict : Results, acceptance : Results]
           /\ [s EXCEPT !.verdict = v].verdict = v
           /\ [s EXCEPT !.verdict = v].acceptance = s.acceptance
OBVIOUS

LEMMA LeastIsMember ==
    ASSUME NEW S \in SUBSET Requests, S # {}
    PROVE  Least(S) \in S
<1>1. PICK r \in S : \A s \in S : <<s, r>> \notin OpToRel(<, Nat)
    BY WFMin, NatLessThanWellFounded, RequestsAssumption, Zenon
<1>2. \A s \in S : r <= s
    <2> TAKE s \in S
    <2>1. s \in Nat /\ r \in Nat
        BY RequestsAssumption
    <2>2. ~(s < r)
        BY <1>1, <2>1, Zenon DEF OpToRel
    <2> QED BY <2>1, <2>2
<1> QED BY <1>1, <1>2, Zenon DEF Least

LEMMA SubmitPreserves ==
    ASSUME NEW p \in Procs, NEW r \in Requests, IInv, Submit(p, r)
    PROVE  IInv'
<1> USE MarkersAssumption, LimitsAssumption
<1>a. Blank \in Request
    BY DEF Blank, Request, NoLease, Results
<1>1. TypeOK'
    BY <1>a DEF Submit, Put, IInv, TypeOK, Dirs
<1>2. LockInv' /\ LeasesInv'
    BY DEF Submit, IInv, LockInv, LeasesInv
<1>3. FileInv'
    BY <1>a DEF Submit, Put, IInv, TypeOK, FileInv, NewInv, InboxInv, ProcessingInv, DoneInv, Present, Blank, Dirs
<1>4. StageInv'
    BY DEF Submit, Put, IInv, StageInv, At, Unlinking
<1>5. NeverLost'
    BY <1>a DEF Submit, Put, IInv, TypeOK, NeverLost, Present, Dirs
<1>6. HomeInv'
    BY DEF Submit, Put, IInv, TypeOK, FileInv, NewInv, HomeInv, Present, Dirs, Unlinking, At
<1>7. SaidInv'
    BY DEF Submit, Put, IInv, TypeOK, FileInv, NewInv, SaidInv, Present, Dirs, Blank, Silence
<1> QED BY <1>1, <1>2, <1>3, <1>4, <1>5, <1>6, <1>7 DEF IInv

LEMMA ScanExpiredPreserves ==
    ASSUME NEW p \in Procs, IInv, ScanExpired(p)
    PROVE  IInv'
<1> USE MarkersAssumption, LimitsAssumption
<1>a. PICK r \in Requests : r = Least(op.todo)
    BY LeastIsMember DEF ScanExpired, Scanning, IInv, TypeOK, Op
<1>b. PICK free \in Request, d \in {"dead", "inbox"} :
        /\ r \in Present("processing") /\ dir["processing"][r].lease # NoLease
        /\ free = [dir["processing"][r] EXCEPT !.lease = NoLease]
        /\ d = "inbox" => free.tries < MaxAttempts
        /\ dir' = [dir EXCEPT ![d][r] = free]
  <2>1. dir["processing"][r] \in Request /\ r \in Present("processing")
    BY <1>a DEF ScanExpired, Expired, Present, IInv, TypeOK, Dirs
  <2>2. dir["processing"][r].lease # NoLease
    BY <1>a DEF ScanExpired, Expired, IInv, LeasesInv, NoLease
  <2> DEFINE f == [dir["processing"][r] EXCEPT !.lease = NoLease]
  <2>3. f \in Request
    BY <2>1 DEF Request, NoLease
  <2>4. f.tries \in Nat
    BY <2>3 DEF Request
  <2>5. dir' = [dir EXCEPT ![IF f.tries >= MaxAttempts THEN "dead" ELSE "inbox"][r] = f]
    BY <1>a, Zenon DEF ScanExpired, Exhausted, Put
  <2> HIDE DEF f
  <2>6. CASE f.tries >= MaxAttempts
    BY <2>1, <2>2, <2>3, <2>5, <2>6 DEF f
  <2>7. CASE f.tries < MaxAttempts
    BY <2>1, <2>2, <2>3, <2>4, <2>5, <2>7 DEF f
  <2> QED BY <2>4, <2>6, <2>7
<1>c. /\ lock = p /\ pc[p] = "scan" /\ pc' = [pc EXCEPT ![p] = "scan_unlink"]
      /\ op' = [op EXCEPT !.req = r]
      /\ UNCHANGED <<lock, run, issued, expired, granted, submitted, revoked, said, aborts>>
    BY <1>a DEF ScanExpired, Scanning, Goto
<1>1. TypeOK'
    BY <1>b, <1>c DEF IInv, TypeOK, Dirs, Op, Stages, Inside
<1>2. LockInv' /\ LeasesInv'
    BY <1>c DEF IInv, TypeOK, LockInv, LeasesInv, Inside
<1>3. FileInv'
    BY <1>b, <1>c DEF IInv, TypeOK, FileInv, NewInv, InboxInv, ProcessingInv, DoneInv, Present, Dirs, Request
<1>4. StageInv'
    BY <1>b, <1>c DEF IInv, TypeOK, StageInv, At, Unlinking, Present, Dirs, Op
<1>5. NeverLost'
    BY <1>b, <1>c DEF IInv, TypeOK, NeverLost, Present, Dirs
<1>6. HomeInv'
    BY <1>b, <1>c DEF IInv, TypeOK, FileInv, NewInv, HomeInv, Present, Dirs, Unlinking, At, Op
<1>7. SaidInv'
    BY <1>b, <1>c DEF IInv, TypeOK, FileInv, NewInv, SaidInv, Present, Dirs, Request
<1> QED BY <1>1, <1>2, <1>3, <1>4, <1>5, <1>6, <1>7 DEF IInv

LEMMA RecoverBeginPreserves ==
    ASSUME NEW p \in Procs, NEW want \in SUBSET Requests, IInv, RecoverBegin(p, want)
    PROVE  IInv'
<1> USE MarkersAssumption
<1>1. TypeOK' /\ LockInv'
    BY DEF RecoverBegin, Acquire, Goto, Present, IInv, TypeOK, LockInv, Op, Stages, Inside
<1>2. StageInv'
    BY DEF RecoverBegin, Acquire, Goto, IInv, TypeOK, StageInv, At, Unlinking
<1>3. LeasesInv' /\ FileInv' /\ NeverLost' /\ SaidInv'
    BY DEF RecoverBegin, IInv, LeasesInv, FileInv, NewInv, InboxInv, ProcessingInv, DoneInv,
       NeverLost, SaidInv, Present
<1>4. HomeInv'
    BY DEF RecoverBegin, Acquire, IInv, HomeInv, Present, Unlinking, At
<1> QED BY <1>1, <1>2, <1>3, <1>4 DEF IInv

LEMMA ScanKeepPreserves ==
    ASSUME NEW p \in Procs, IInv, ScanKeep(p)
    PROVE  IInv'
<1> USE MarkersAssumption
<1>1. TypeOK' /\ LockInv'
    BY DEF ScanKeep, IInv, TypeOK, LockInv, Op
<1>2. StageInv'
    BY DEF ScanKeep, Scanning, IInv, TypeOK, StageInv, At, Unlinking, Op
<1>3. LeasesInv' /\ FileInv' /\ NeverLost' /\ SaidInv'
    BY DEF ScanKeep, IInv, LeasesInv, FileInv, NewInv, InboxInv, ProcessingInv, DoneInv,
       NeverLost, SaidInv, Present
<1>4. HomeInv'
    BY DEF ScanKeep, Scanning, IInv, HomeInv, Present, Unlinking, At
<1> QED BY <1>1, <1>2, <1>3, <1>4 DEF IInv

\* A call ends, in order or not.
Releasing(p) ==
    /\ lock = p /\ Release(p)
    /\ \/ aborts' = aborts /\ ~Unlinking
       \/ aborts' = aborts + 1
    /\ \/ granted' = granted
       \/ At("reply") /\ granted' = granted \cup {<<op.req, dir["processing"][op.req].lease>>}
    /\ UNCHANGED <<dir, run, issued, expired, submitted, revoked, said>>

LEMMA ReleasingPreserves ==
    ASSUME NEW p \in Procs, IInv, Releasing(p)
    PROVE  IInv'
<1> USE MarkersAssumption DEF Releasing
<1>a. NoOp \in Op
    BY DEF NoOp, Op, Blank, Request, NoLease, Results
<1>1. LeasesInv'
  <2>1. CASE At("reply")
    <3>1. op.req \in Requests /\ op.req \in Present("processing")
        BY <2>1 DEF IInv, StageInv, Present
    <3>2. dir["processing"][op.req].lease = issued[op.req] /\ issued[op.req] # NoLease
        BY <2>1, <3>1 DEF IInv, StageInv, FileInv, ProcessingInv
    <3>3. issued \in [Requests -> Nat]
        BY DEF IInv, TypeOK
    <3> QED BY <3>1, <3>2, <3>3 DEF IInv, LeasesInv, NoLease
  <2> QED BY <2>1 DEF IInv, LeasesInv
<1>2. TypeOK'
    BY <1>a, <1>1 DEF Release, Goto, IInv, TypeOK, Stages, LeasesInv
<1>3. LockInv' /\ StageInv'
    BY DEF Release, Goto, IInv, TypeOK, LockInv, StageInv, At, Unlinking, Inside
<1>4. FileInv' /\ NeverLost'
    BY DEF IInv, FileInv, NewInv, InboxInv, ProcessingInv, DoneInv, NeverLost, Present
<1>5. HomeInv' /\ SaidInv'
  <2>1. aborts' = 0 => aborts = 0 /\ ~Unlinking
    BY DEF IInv, TypeOK
  <2> QED BY <2>1 DEF IInv, HomeInv, SaidInv, Present
<1> QED BY <1>1, <1>2, <1>3, <1>4, <1>5 DEF IInv

LEMMA ScanDonePreserves ==
    ASSUME NEW p \in Procs, IInv, ScanDone(p)
    PROVE  IInv'
<1>1. CASE op.want = {}
  <2>1. Releasing(p)
    BY <1>1 DEF ScanDone, Releasing, Unlinking, At
  <2> QED BY <2>1, ReleasingPreserves
<1>2. CASE op.want # {}
  <2> USE <1>2, MarkersAssumption
  <2>1. TypeOK' /\ LockInv'
    BY DEF ScanDone, Goto, IInv, TypeOK, LockInv, Stages, Inside
  <2>2. StageInv' /\ HomeInv'
    BY DEF ScanDone, Goto, IInv, TypeOK, StageInv, HomeInv, Present, At, Unlinking
  <2>3. LeasesInv' /\ FileInv' /\ NeverLost' /\ SaidInv'
    BY DEF ScanDone, IInv, LeasesInv, FileInv, NewInv, InboxInv, ProcessingInv, DoneInv,
       NeverLost, SaidInv, Present
  <2> QED BY <2>1, <2>2, <2>3 DEF IInv
<1> QED BY <1>1, <1>2

LEMMA ClaimNonePreserves ==
    ASSUME NEW p \in Procs, IInv, ClaimNone(p)
    PROVE  IInv'
<1>1. Releasing(p)
    BY DEF ClaimNone, Releasing, Unlinking, At
<1> QED BY <1>1, ReleasingPreserves

LEMMA ClaimReplyPreserves ==
    ASSUME NEW p \in Procs, IInv, ClaimReply(p)
    PROVE  IInv'
<1>1. Releasing(p)
    BY MarkersAssumption DEF ClaimReply, Releasing, Unlinking, At
<1> QED BY <1>1, ReleasingPreserves

LEMMA AbortPreserves ==
    ASSUME NEW p \in Procs, IInv, Abort(p)
    PROVE  IInv'
<1>1. Releasing(p)
    BY DEF Abort, Releasing
<1> QED BY <1>1, ReleasingPreserves

LEMMA ClaimRenamePreserves ==
    ASSUME NEW p \in Procs, IInv, ClaimRename(p)
    PROVE  IInv'
<1> USE MarkersAssumption
<1>a. PICK r \in Present("inbox") :
        /\ r \in Requests /\ dir["inbox"][r] \in Request
        /\ dir' = [dir EXCEPT !["processing"][r] = dir["inbox"][r], !["inbox"][r] = NoFile]
        /\ op' = [op EXCEPT !.req = r, !.rec = dir["inbox"][r]]
  <2> DEFINE r == Least(op.want \cap Present("inbox"))
  <2>1. r \in op.want \cap Present("inbox")
    BY LeastIsMember DEF ClaimRename, Present
  <2>2. dir["inbox"][r] \in Request
    BY <2>1 DEF Present, IInv, TypeOK, Dirs
  <2> QED BY <2>1, <2>2 DEF ClaimRename, Present
<1>c. /\ lock = p /\ pc[p] = "claim" /\ pc' = [pc EXCEPT ![p] = "renamed"]
      /\ UNCHANGED <<lock, run, issued, expired, granted, submitted, revoked, said, aborts>>
    BY DEF ClaimRename, Goto
<1>1. TypeOK'
    BY <1>a, <1>c DEF IInv, TypeOK, Dirs, Op, Stages, Inside
<1>2. LockInv' /\ LeasesInv'
    BY <1>c DEF IInv, TypeOK, LockInv, LeasesInv, Inside
<1>3. FileInv'
  <2>1. <<r, NoLease>> \notin revoked
    BY DEF IInv, LeasesInv, NoLease
  <2>2. /\ dir["inbox"][r].lease = NoLease /\ dir["inbox"][r].tries = issued[r]
        /\ r \in submitted
    BY <1>a DEF IInv, FileInv, InboxInv, NewInv, Present, Dirs
  <2>3. ASSUME NEW q \in Requests, q # r
        PROVE  \A d \in Dirs : dir'[d][q] = dir[d][q]
    BY <1>a, <2>3 DEF IInv, TypeOK, Dirs
  <2>4. /\ dir'["inbox"][r] = NoFile /\ dir'["processing"][r] = dir["inbox"][r]
        /\ dir'["done"][r] = dir["done"][r]
    BY <1>a DEF IInv, TypeOK, Dirs
  <2>5. ASSUME NEW q \in Requests
        PROVE  NewInv(q)' /\ InboxInv(q)' /\ ProcessingInv(q)' /\ DoneInv(q)'
    <3>1. CASE q = r
        BY <1>c, <2>1, <2>2, <2>4, <3>1
        DEF IInv, FileInv, NewInv, InboxInv, ProcessingInv, DoneInv, Present
    <3>2. CASE q # r
        BY <1>c, <2>3, <3>2
        DEF IInv, FileInv, NewInv, InboxInv, ProcessingInv, DoneInv, Present, Dirs
    <3> QED BY <3>1, <3>2
  <2> QED BY <1>c, <2>5 DEF IInv, FileInv
<1>4. StageInv'
    BY <1>a, <1>c DEF IInv, TypeOK, FileInv, InboxInv, StageInv, At, Unlinking, Present, Dirs, Op
<1>5. NeverLost'
    BY <1>a, <1>c DEF IInv, TypeOK, NeverLost, Present, Dirs
<1>6. HomeInv'
    BY <1>a, <1>c, SMTT(30) DEF IInv, TypeOK, FileInv, NewInv, HomeInv, Present, Dirs, Unlinking, At
<1>7. SaidInv'
    BY <1>a, <1>c DEF IInv, TypeOK, SaidInv, Present, Dirs
<1> QED BY <1>1, <1>2, <1>3, <1>4, <1>5, <1>6, <1>7 DEF IInv

LEMMA ClaimWritePreserves ==
    ASSUME NEW p \in Procs, IInv, ClaimWrite(p)
    PROVE  IInv'
<1> USE MarkersAssumption, LimitsAssumption
<1>a. PICK r \in Requests, f \in Request :
        /\ r = op.req /\ r \in Present("processing") /\ dir["inbox"][r] = NoFile
        /\ issued[r] < MaxAttempts
        /\ f.lease = issued[r] + 1 /\ f.tries = issued[r] + 1
        /\ f.verdict = dir["processing"][r].verdict
        /\ f.acceptance = dir["processing"][r].acceptance
        /\ dir' = [dir EXCEPT !["processing"][r] = f]
        /\ issued' = [issued EXCEPT ![r] = issued[r] + 1]
  <2>1. /\ op.req \in Requests /\ op.rec \in Request /\ op.rec = dir["processing"][op.req]
        /\ dir["inbox"][op.req] = NoFile
        /\ issued[op.req] < MaxAttempts /\ issued[op.req] \in Nat
        /\ op.rec.tries = issued[op.req]
    BY DEF ClaimWrite, IInv, TypeOK, StageInv, FileInv, ProcessingInv, Present, At, Op, Dirs
  <2> DEFINE f == [op.rec EXCEPT !.lease = issued[op.req] + 1, !.tries = @ + 1]
  <2>2. /\ f \in Request /\ f.lease = issued[op.req] + 1 /\ f.tries = issued[op.req] + 1
        /\ f.verdict = op.rec.verdict /\ f.acceptance = op.rec.acceptance
    <3>1. PICK rec \in Request, n \in Nat :
            rec = op.rec /\ n = issued[op.req] + 1 /\ rec.tries + 1 = n
        BY <2>1
    <3>2. f = [rec EXCEPT !.lease = n, !.tries = n]
        BY <3>1
    <3>3. [rec EXCEPT !.lease = n, !.tries = n] \in Request
        BY <3>1 DEF Request
    <3> HIDE DEF f
    <3> QED BY <3>1, <3>2, <3>3 DEF Request
  <2>3. /\ dir' = [dir EXCEPT !["processing"][op.req] = f]
        /\ issued' = [issued EXCEPT ![op.req] = issued[op.req] + 1]
    BY DEF ClaimWrite, Put
  <2> HIDE DEF f
  <2> QED BY <2>1, <2>2, <2>3 DEF Present
<1>c. /\ lock = p /\ pc[p] = "renamed" /\ pc' = [pc EXCEPT ![p] = "reply"]
      /\ UNCHANGED <<lock, op, run, expired, granted, submitted, revoked, said, aborts>>
    BY DEF ClaimWrite, Goto
<1>1. TypeOK'
    BY <1>a, <1>c DEF IInv, TypeOK, Dirs, Stages, Inside
<1>2. LockInv' /\ LeasesInv'
    BY <1>a, <1>c DEF IInv, TypeOK, LockInv, LeasesInv, Inside
<1>3. FileInv'
  <2>1. <<r, issued[r] + 1>> \notin revoked
    BY DEF IInv, TypeOK, LeasesInv
  <2>2. ASSUME NEW q \in Requests, q # r
        PROVE  issued'[q] = issued[q] /\ \A d \in Dirs : dir'[d][q] = dir[d][q]
    BY <1>a, <2>2 DEF IInv, TypeOK, Dirs
  <2>3. /\ dir'["inbox"][r] = NoFile /\ dir'["processing"][r] = f
        /\ dir'["done"][r] = dir["done"][r] /\ issued'[r] = issued[r] + 1
        /\ issued[r] + 1 <= MaxAttempts /\ r \in submitted
        /\ issued[r] \in Nat
    BY <1>a DEF IInv, TypeOK, FileInv, NewInv, Present, Dirs
  <2>4. ASSUME NEW q \in Requests
        PROVE  /\ issued'[q] <= MaxAttempts
               /\ NewInv(q)' /\ InboxInv(q)' /\ ProcessingInv(q)' /\ DoneInv(q)'
    <3>1. CASE q = r
      <4>1. NewInv(r)' /\ InboxInv(r)'
        BY <1>c, <2>3 DEF NewInv, InboxInv, Present
      <4>2. ProcessingInv(r)'
        BY <1>a, <1>c, <2>1, <2>3 DEF ProcessingInv
      <4>3. DoneInv(r)'
        BY <1>c, <2>3 DEF IInv, FileInv, DoneInv, Present
      <4> QED BY <2>3, <3>1, <4>1, <4>2, <4>3
    <3>2. CASE q # r
        BY <1>c, <2>2, <3>2
        DEF IInv, FileInv, NewInv, InboxInv, ProcessingInv, DoneInv, Present, Dirs
    <3> QED BY <3>1, <3>2
  <2> QED BY <2>4 DEF FileInv
<1>4. StageInv'
    BY <1>a, <1>c DEF IInv, TypeOK, StageInv, At, Unlinking, Present, Dirs, NoLease
<1>5. NeverLost'
    BY <1>a, <1>c DEF IInv, TypeOK, NeverLost, Present, Dirs
<1>6. HomeInv'
    BY <1>a, <1>c DEF IInv, TypeOK, HomeInv, Present, Dirs, Unlinking, At
<1>7. SaidInv'
    BY <1>a, <1>c DEF IInv, TypeOK, SaidInv, Present, Dirs
<1> QED BY <1>1, <1>2, <1>3, <1>4, <1>5, <1>6, <1>7 DEF IInv


\* The source of a move goes, and with it the lease on it.
Removing(p) ==
    /\ lock = p /\ Unlinking
    /\ dir' = [dir EXCEPT !["processing"][op.req] = NoFile]
    /\ revoked' = revoked \cup {<<op.req, dir["processing"][op.req].lease>>}
    /\ \/ Release(p)
       \/ /\ lock' = lock /\ op' = [op EXCEPT !.todo = @ \ {op.req}]
          /\ pc' = [pc EXCEPT ![p] = "scan"]
    /\ UNCHANGED <<run, issued, expired, granted, submitted, said, aborts>>

LEMMA RemovingPreserves ==
    ASSUME NEW p \in Procs, IInv, Removing(p)
    PROVE  IInv'
<1> USE MarkersAssumption
<1>a. PICK r \in Requests :
        /\ r = op.req /\ r \in Present("processing")
        /\ dir["processing"][r].lease = issued[r] /\ issued[r] # NoLease /\ issued[r] \in Nat
        /\ \E d \in Dirs \ {"processing"} : r \in Present(d)
    BY DEF Removing, IInv, TypeOK, StageInv, FileInv, ProcessingInv, Present
<1>b. /\ dir' = [dir EXCEPT !["processing"][r] = NoFile]
      /\ revoked' = revoked \cup {<<r, issued[r]>>}
      /\ UNCHANGED <<run, issued, expired, granted, submitted, said, aborts>>
    BY <1>a DEF Removing
<1>c. /\ op' \in Op /\ lock' \in Procs \cup {NoProc} /\ pc' \in [Procs -> Stages]
      /\ LockInv'
      /\ ~Unlinking' /\ ~At("renamed")' /\ ~At("reply")'
  <2>1. NoOp \in Op
    BY DEF NoOp, Op, Blank, Request, NoLease, Results
  <2>2. CASE Release(p)
    BY <2>1, <2>2 DEF Removing, Release, Goto, IInv, TypeOK, Stages, LockInv, Inside, Unlinking, At
  <2>3. CASE ~Release(p)
    <3>1. /\ lock' = lock /\ op' = [op EXCEPT !.todo = op.todo \ {op.req}]
          /\ pc' = [pc EXCEPT ![p] = "scan"] /\ lock = p /\ pc[p] \in Inside
        BY <2>3 DEF Removing, Unlinking, At, Inside
    <3>2. op' \in Op
        BY <3>1 DEF IInv, TypeOK, Op
    <3> QED
        BY <3>1, <3>2 DEF IInv, TypeOK, Stages, LockInv, Inside, Unlinking, At
  <2> QED BY <2>2, <2>3
<1>d. ASSUME NEW q \in Requests
      PROVE  \A d \in Dirs : q # r \/ d # "processing" => dir'[d][q] = dir[d][q]
    BY <1>b DEF IInv, TypeOK, Dirs
<1>e. dir'["processing"][r] = NoFile
    BY <1>b DEF IInv, TypeOK, Dirs
<1>1. TypeOK'
  <2>1. dir' \in [Dirs -> [Requests -> Request \cup {NoFile}]]
    BY <1>b DEF IInv, TypeOK, Dirs
  <2>2. \A g \in (expired \cup granted \cup revoked)' :
            g[1] \in Requests /\ g[2] \in 0..issued'[g[1]]
    BY <1>a, <1>b DEF IInv, TypeOK
  <2> QED BY <1>b, <1>c, <2>1, <2>2 DEF IInv, TypeOK
<1>2. LeasesInv'
    BY <1>a, <1>b DEF IInv, LeasesInv, NoLease
<1>3. FileInv'
  <2>1. ASSUME NEW q \in Requests, q # r
        PROVE  <<q, dir["processing"][q].lease>> \notin revoked
                    => <<q, dir["processing"][q].lease>> \notin revoked'
    BY <1>b, <2>1
  <2>2. ASSUME NEW q \in Requests
        PROVE  NewInv(q)' /\ InboxInv(q)' /\ DoneInv(q)'
    BY <1>a, <1>b, <1>d
    DEF IInv, FileInv, NewInv, InboxInv, DoneInv, Present, Dirs
  <2>3. ASSUME NEW q \in Requests
        PROVE  ProcessingInv(q)'
    <3>1. CASE q = r
        BY <1>e, <3>1 DEF ProcessingInv, Present
    <3>2. CASE q # r
        BY <1>b, <1>d, <2>1, <3>2 DEF IInv, FileInv, ProcessingInv, Present, Dirs
    <3> QED BY <3>1, <3>2
  <2> QED BY <1>b, <2>2, <2>3 DEF IInv, FileInv
<1>4. StageInv'
    BY <1>c DEF StageInv
<1>5. NeverLost'
    BY <1>a, <1>b, <1>d DEF IInv, TypeOK, NeverLost, Present, Dirs
<1>6. HomeInv'
  <2> SUFFICES ASSUME aborts = 0, NEW q \in submitted, NEW d \in Dirs, NEW e \in Dirs,
                      q \in Present(d)', q \in Present(e)'
               PROVE  d = e
    BY <1>b DEF HomeInv
  <2>1. q \in Present(d) /\ q \in Present(e)
    BY <1>d, <1>e DEF Present
  <2>2. q = r => d # "processing" /\ e # "processing"
    BY <1>e DEF Present
  <2> QED BY <1>a, <2>1, <2>2 DEF IInv, HomeInv
<1>7. SaidInv'
  <2>1. \A q \in Requests : \A d \in Dirs :
            q \in Present(d)' => q \in Present(d) /\ dir'[d][q] = dir[d][q]
    BY <1>d, <1>e DEF Present
  <2> QED BY <1>b, <2>1 DEF IInv, SaidInv
<1> QED BY <1>1, <1>c, <1>2, <1>3, <1>4, <1>5, <1>6, <1>7 DEF IInv, TypeOK

LEMMA ScanUnlinkPreserves ==
    ASSUME NEW p \in Procs, IInv, ScanUnlink(p)
    PROVE  IInv'
<1>1. Removing(p)
    BY MarkersAssumption DEF ScanUnlink, Removing, Unlinking, At, Put, Goto
<1> QED BY <1>1, RemovingPreserves

LEMMA FinishUnlinkPreserves ==
    ASSUME NEW p \in Procs, IInv, FinishUnlink(p)
    PROVE  IInv'
<1>1. Removing(p)
    BY MarkersAssumption DEF FinishUnlink, Removing, Unlinking, At, Put, Goto
<1> QED BY <1>1, RemovingPreserves

\* _finish writes the file f of r into the directory d, its target.
Finishing(p, r, d, f) ==
    /\ pc[p] = "idle" /\ lock = NoProc
    /\ r \in Present("processing") /\ dir["processing"][r].lease # NoLease
    /\ dir' = [dir EXCEPT ![d][r] = f]
    /\ f.tries = dir["processing"][r].tries
    /\ f.verdict = dir["processing"][r].verdict
    /\ f.acceptance = dir["processing"][r].acceptance
    /\ d = "inbox" => f.lease = NoLease /\ f.tries < MaxAttempts
    /\ d = "done" => Gated(r)
    /\ lock' = p /\ pc' = [pc EXCEPT ![p] = "finish_unlink"]
    /\ op' = [op EXCEPT !.req = r]
    /\ UNCHANGED <<run, issued, expired, granted, submitted, revoked, said, aborts>>

LEMMA FinishingPreserves ==
    ASSUME NEW p \in Procs, NEW r \in Requests, NEW d \in {"inbox", "done", "dead"},
           NEW f \in Request, IInv, Finishing(p, r, d, f)
    PROVE  IInv'
<1> USE MarkersAssumption
<1>a. /\ r \in Present("processing") /\ dir["processing"][r].lease # NoLease
      /\ dir' = [dir EXCEPT ![d][r] = f]
      /\ UNCHANGED <<run, issued, expired, granted, submitted, revoked, said, aborts>>
    BY DEF Finishing
<1>b. /\ pc[p] = "idle" /\ lock = NoProc /\ lock' = p /\ op' = [op EXCEPT !.req = r]
      /\ pc' = [pc EXCEPT ![p] = "finish_unlink"]
    BY DEF Finishing
<1>c. f.tries = issued[r] /\ r \in submitted
    BY <1>a DEF Finishing, IInv, FileInv, ProcessingInv, NewInv, Present, Dirs
<1>d. ASSUME NEW q \in Requests, NEW e \in Dirs
      PROVE  dir'[e][q] = IF e = d /\ q = r THEN f ELSE dir[e][q]
    BY <1>a DEF IInv, TypeOK, Dirs
<1>e. f # NoFile
    OBVIOUS
<1>f. \A q \in Requests, e \in Dirs :
        q \in Present(e)' <=> q \in Present(e) \/ (e = d /\ q = r)
    BY <1>d, <1>e DEF Present
<1>1. TypeOK'
    BY <1>a, <1>b DEF IInv, TypeOK, Dirs, Op, Stages, Inside
<1>2. LockInv' /\ LeasesInv'
    BY <1>a, <1>b DEF IInv, TypeOK, LockInv, LeasesInv, Inside
<1>3. FileInv'
  <2> SUFFICES ASSUME NEW q \in Requests
               PROVE  NewInv(q)' /\ InboxInv(q)' /\ ProcessingInv(q)' /\ DoneInv(q)'
    BY <1>a DEF IInv, FileInv
  <2>1. NewInv(q)'
    BY <1>a, <1>c, <1>d DEF IInv, FileInv, NewInv, Dirs
  <2>2. InboxInv(q)'
    BY <1>a, <1>c, <1>d, <1>f DEF Finishing, IInv, FileInv, InboxInv, Dirs
  <2>3. ProcessingInv(q)'
    BY <1>a, <1>d, <1>f DEF IInv, FileInv, ProcessingInv, Dirs
  <2>4. DoneInv(q)'
    BY <1>a, <1>d, <1>f DEF Finishing, Gated, IInv, FileInv, DoneInv, Dirs
  <2> QED BY <2>1, <2>2, <2>3, <2>4
<1>4. StageInv'
  <2>1. /\ At("finish_unlink")' /\ ~At("scan_unlink")' /\ ~At("renamed")' /\ ~At("reply")'
        /\ op'.req = r
    BY <1>b DEF At, IInv, TypeOK, Op
  <2>2. dir'["processing"][r] = dir["processing"][r] /\ d \in Dirs \ {"processing"}
    BY <1>d DEF Dirs
  <2>3. r \in Present("processing")' /\ r \in Present(d)'
    BY <1>a, <1>f, <2>2 DEF Dirs
  <2> QED BY <1>a, <2>1, <2>2, <2>3 DEF StageInv
<1>5. NeverLost'
    BY <1>a, <1>f DEF IInv, TypeOK, NeverLost
<1>6. HomeInv'
  <2> SUFFICES ASSUME aborts = 0, NEW q \in submitted, NEW e \in Dirs, NEW g \in Dirs,
                      q \in Present(e)', q \in Present(g)'
               PROVE  e = g \/ (Unlinking' /\ op'.req = q /\ "processing" \in {e, g})
    BY <1>a DEF HomeInv
  <2>1. q \in Requests /\ Unlinking' /\ op'.req = r /\ ~Unlinking
    BY <1>b DEF Unlinking, At, IInv, TypeOK, Op
  <2>2. \A x, y \in Dirs : q \in Present(x) /\ q \in Present(y) => x = y
    BY <2>1 DEF IInv, HomeInv
  <2>3. q = r => \A x \in Dirs : q \in Present(x) => x = "processing"
    BY <1>a, <2>2 DEF Dirs
  <2> QED BY <1>f, <2>1, <2>2, <2>3
<1>7. SaidInv'
    BY <1>a, <1>d, <1>f DEF Finishing, IInv, SaidInv, Dirs
<1> QED BY <1>1, <1>2, <1>3, <1>4, <1>5, <1>6, <1>7 DEF IInv

LEMMA CompletePreserves ==
    ASSUME NEW p \in Procs, NEW g \in granted, IInv, Complete(p, g[1], g[2])
    PROVE  IInv'
<1>1. g[1] \in Requests /\ g[2] # NoLease
    BY DEF IInv, LeasesInv, NoLease
<1>2. dir["processing"][g[1]] \in Request
    BY <1>1 DEF Complete, HoldsLease, Present, IInv, TypeOK, Dirs
<1>3. Finishing(p, g[1], "done", dir["processing"][g[1]])
    BY <1>1 DEF Complete, HoldsLease, Finishing, Acquire, Goto, Put
<1> QED BY <1>1, <1>2, <1>3, FinishingPreserves

LEMMA FailPreserves ==
    ASSUME NEW p \in Procs, NEW g \in granted, NEW transient \in BOOLEAN, IInv,
           Fail(p, g[1], g[2], transient)
    PROVE  IInv'
<1>1. g[1] \in Requests /\ g[2] # NoLease
    BY DEF IInv, LeasesInv, NoLease
<1>2. dir["processing"][g[1]] \in Request
    BY <1>1 DEF Fail, HoldsLease, Present, IInv, TypeOK, Dirs
<1>3. CASE transient /\ ~Exhausted(dir["processing"][g[1]].tries)
  <2>1. PICK request \in Request, f \in Request :
            /\ request = dir["processing"][g[1]] /\ f = [request EXCEPT !.lease = NoLease]
    BY <1>2 DEF Request, NoLease
  <2>2. /\ f.lease = NoLease /\ f.tries = request.tries /\ f.tries \in Nat
        /\ f.verdict = request.verdict /\ f.acceptance = request.acceptance
    BY <2>1 DEF Request
  <2>3. dir' = [dir EXCEPT !["inbox"][g[1]] = f]
    BY <1>3, <2>1 DEF Fail, Put
  <2>4. f.tries < MaxAttempts
    BY <1>3, <2>1, <2>2, LimitsAssumption DEF Exhausted
  <2>5. Finishing(p, g[1], "inbox", f)
    BY <1>1, <2>1, <2>2, <2>3, <2>4 DEF Fail, HoldsLease, Finishing, Acquire, Goto
  <2> QED BY <1>1, <2>5, FinishingPreserves
<1>4. CASE ~(transient /\ ~Exhausted(dir["processing"][g[1]].tries))
  <2>1. Finishing(p, g[1], "dead", dir["processing"][g[1]])
    BY <1>1, <1>4 DEF Fail, HoldsLease, Finishing, Acquire, Goto, Put
  <2> QED BY <1>1, <1>2, <2>1, FinishingPreserves
<1> QED BY <1>3, <1>4

\* The processing file of r is replaced by f, which records s, what was said last.
Recording(r, f, s) ==
    /\ lock = NoProc /\ r \in Present("processing")
    /\ dir' = [dir EXCEPT !["processing"][r] = f]
    /\ said' = [said EXCEPT ![r] = s]
    /\ f.lease = dir["processing"][r].lease /\ f.tries = dir["processing"][r].tries
    /\ aborts = 0 => f.verdict = s.verdict /\ f.acceptance = s.acceptance
    /\ UNCHANGED <<lock, op, issued, expired, granted, submitted, revoked, aborts>>

LEMMA RecordingPreserves ==
    ASSUME NEW r \in Requests, NEW f \in Request,
           NEW s \in [verdict : Results, acceptance : Results], IInv, Recording(r, f, s),
           run' \in [Procs -> [req : Requests \cup {0}, lease : Nat, result : Results]],
           pc' \in [Procs -> Stages], \A q \in Procs : pc'[q] \in Inside <=> pc[q] \in Inside
    PROVE  IInv'
<1> USE MarkersAssumption
<1>a. /\ lock = NoProc /\ r \in Present("processing")
      /\ dir' = [dir EXCEPT !["processing"][r] = f] /\ said' = [said EXCEPT ![r] = s]
      /\ UNCHANGED <<lock, op, issued, expired, granted, submitted, revoked, aborts>>
    BY DEF Recording
<1>b. ASSUME NEW q \in Requests, NEW e \in Dirs
      PROVE  dir'[e][q] = IF e = "processing" /\ q = r THEN f ELSE dir[e][q]
    BY <1>a DEF IInv, TypeOK, Dirs
<1>c. \A q \in Requests, e \in Dirs : q \in Present(e)' <=> q \in Present(e)
    BY <1>a, <1>b DEF Present
<1>d. r \in submitted
    BY <1>a DEF IInv, FileInv, NewInv, Present, Dirs
<1>1. TypeOK'
    BY <1>a DEF IInv, TypeOK, Dirs
<1>2. LockInv' /\ LeasesInv'
    BY <1>a DEF IInv, LockInv, LeasesInv
<1>3. FileInv'
  <2> SUFFICES ASSUME NEW q \in Requests
               PROVE  NewInv(q)' /\ InboxInv(q)' /\ ProcessingInv(q)' /\ DoneInv(q)'
    BY <1>a DEF IInv, FileInv
  <2>1. NewInv(q)'
    BY <1>a, <1>b, <1>d DEF IInv, TypeOK, FileInv, NewInv
  <2>2. InboxInv(q)' /\ DoneInv(q)'
    BY <1>a, <1>b, <1>c DEF IInv, FileInv, InboxInv, DoneInv, Dirs
  <2>3. ProcessingInv(q)'
    BY <1>a, <1>b, <1>c DEF Recording, IInv, FileInv, ProcessingInv, Dirs
  <2> QED BY <2>1, <2>2, <2>3
<1>4. StageInv'
    BY <1>a DEF StageInv, Unlinking, At
<1>5. NeverLost'
    BY <1>a, <1>c DEF IInv, TypeOK, NeverLost
<1>6. HomeInv'
  <2> SUFFICES ASSUME aborts = 0, NEW q \in submitted, NEW d \in Dirs, NEW e \in Dirs,
                      q \in Present(d)', q \in Present(e)'
               PROVE  d = e
    BY <1>a DEF HomeInv
  <2> QED BY <1>a, <1>c DEF IInv, TypeOK, HomeInv, Unlinking, At
<1>7. SaidInv'
  <2> SUFFICES ASSUME aborts = 0, NEW q \in Requests, NEW d \in Dirs, q \in Present(d)'
               PROVE  /\ dir'[d][q].verdict = said'[q].verdict
                      /\ dir'[d][q].acceptance = said'[q].acceptance
    BY <1>a DEF SaidInv
  <2>1. q = r => d = "processing"
    BY <1>a, <1>c, <1>d DEF IInv, HomeInv, Unlinking, At, Dirs
  <2>2. CASE q = r
    BY <1>a, <1>b, <2>1, <2>2 DEF Recording, IInv, TypeOK
  <2>3. CASE q # r
    BY <1>a, <1>b, <1>c, <2>3 DEF IInv, TypeOK, SaidInv
  <2> QED BY <2>2, <2>3
<1> QED BY <1>1, <1>2, <1>3, <1>4, <1>5, <1>6, <1>7 DEF IInv

LEMMA VerdictPreserves ==
    ASSUME NEW p \in Procs, NEW g \in granted, NEW verdict \in {"pass", "fail"}, IInv,
           Verdict(p, g[1], g[2], verdict)
    PROVE  IInv'
<1>1. PICK r \in Requests, v \in Results : r = g[1] /\ v = verdict
    BY DEF IInv, LeasesInv, Results
<1>2. r \in Present("processing") /\ dir["processing"][r] \in Request
    BY <1>1 DEF Verdict, HoldsLease, Present, IInv, TypeOK, Dirs
<1>3. PICK f \in Request :
        /\ f = [dir["processing"][r] EXCEPT !.verdict = v]
        /\ f.verdict = v /\ f.acceptance = dir["processing"][r].acceptance
        /\ f.lease = dir["processing"][r].lease /\ f.tries = dir["processing"][r].tries
    BY <1>2, StampedRequest, ZenonT(30)
<1>4. PICK s \in [verdict : Results, acceptance : Results] :
        /\ s = [said[r] EXCEPT !.verdict = v]
        /\ s.verdict = v /\ s.acceptance = said[r].acceptance
    <2>1. said[r] \in [verdict : Results, acceptance : Results]
      BY DEF IInv, TypeOK
    <2> QED BY <2>1, StampedSaying, ZenonT(30)
<1>5. dir' = [dir EXCEPT !["processing"][r] = f] /\ said' = [said EXCEPT ![r] = s]
    BY <1>1, <1>3, <1>4 DEF Verdict
<1>6. aborts = 0 => dir["processing"][r].acceptance = said[r].acceptance
    BY <1>2 DEF IInv, SaidInv, Dirs
<1>7. Recording(r, f, s)
    BY <1>2, <1>3, <1>4, <1>5, <1>6 DEF Verdict, Recording
<1>8. /\ run' \in [Procs -> [req : Requests \cup {0}, lease : Nat, result : Results]]
      /\ pc' \in [Procs -> Stages] /\ \A q \in Procs : pc'[q] \in Inside <=> pc[q] \in Inside
    BY DEF Verdict, IInv, TypeOK
<1> QED BY <1>7, <1>8, RecordingPreserves

LEMMA AcceptanceRunPreserves ==
    ASSUME NEW p \in Procs, NEW g \in granted, NEW result \in {"pass", "fail"}, IInv,
           AcceptanceRun(p, g[1], g[2], result)
    PROVE  IInv'
<1> USE MarkersAssumption
<1>1. g[1] \in Requests /\ g[2] \in Nat
    BY DEF IInv, LeasesInv
<1>2. TypeOK' /\ LockInv'
    BY <1>1 DEF AcceptanceRun, Goto, IInv, TypeOK, LockInv, Stages, Inside, Results
<1>3. StageInv' /\ HomeInv'
    BY DEF AcceptanceRun, Goto, IInv, TypeOK, LockInv, StageInv, HomeInv, Present, At, Unlinking, Inside
<1>4. LeasesInv' /\ FileInv' /\ NeverLost' /\ SaidInv'
    BY DEF AcceptanceRun, IInv, LeasesInv, FileInv, NewInv, InboxInv, ProcessingInv, DoneInv,
       NeverLost, SaidInv, Present
<1> QED BY <1>2, <1>3, <1>4 DEF IInv

LEMMA AcceptanceRecordPreserves ==
    ASSUME NEW p \in Procs, IInv, AcceptanceRecord(p)
    PROVE  IInv'
<1> USE MarkersAssumption
<1>1. /\ run' \in [Procs -> [req : Requests \cup {0}, lease : Nat, result : Results]]
      /\ pc' \in [Procs -> Stages] /\ \A q \in Procs : pc'[q] \in Inside <=> pc[q] \in Inside
      /\ lock = NoProc /\ lock' = lock
    BY DEF AcceptanceRecord, Goto, NoRun, NoLease, Results, IInv, TypeOK, Stages, Inside
<1>2. CASE HoldsLease(run[p].req, run[p].lease)
  <2>1. PICK r \in Requests, v \in Results : r = run[p].req /\ v = run[p].result
    BY <1>2 DEF HoldsLease, Present, IInv, TypeOK
  <2>2. r \in Present("processing") /\ dir["processing"][r] \in Request
    BY <1>2, <2>1 DEF HoldsLease, Present, IInv, TypeOK, Dirs
  <2>3. PICK f \in Request :
            /\ f = [dir["processing"][r] EXCEPT !.acceptance = v]
            /\ f.acceptance = v /\ f.verdict = dir["processing"][r].verdict
            /\ f.lease = dir["processing"][r].lease /\ f.tries = dir["processing"][r].tries
    BY <2>2, StampedRequest, ZenonT(30)
  <2>4. PICK s \in [verdict : Results, acceptance : Results] :
            /\ s = [said[r] EXCEPT !.acceptance = v]
            /\ s.acceptance = v /\ s.verdict = said[r].verdict
    <3>1. said[r] \in [verdict : Results, acceptance : Results]
      BY DEF IInv, TypeOK
    <3> QED BY <3>1, StampedSaying, ZenonT(30)
  <2>5. /\ dir' = [dir EXCEPT !["processing"][r].acceptance = v]
        /\ said' = [said EXCEPT ![r].acceptance = v]
    BY <1>2, <2>1, Zenon DEF AcceptanceRecord
  <2>6. dir' = [dir EXCEPT !["processing"][r] = f] /\ said' = [said EXCEPT ![r] = s]
    BY <2>3, <2>4, <2>5
  <2>7. aborts = 0 => dir["processing"][r].verdict = said[r].verdict
    BY <2>2 DEF IInv, SaidInv, Dirs
  <2>8. Recording(r, f, s)
    BY <2>2, <2>3, <2>4, <2>6, <2>7 DEF AcceptanceRecord, Recording
  <2> QED BY <1>1, <2>8, RecordingPreserves
<1>3. CASE ~HoldsLease(run[p].req, run[p].lease)
  <2>1. UNCHANGED <<dir, said, lock, op, issued, expired, granted, submitted, revoked, aborts>>
    BY <1>3, Zenon DEF AcceptanceRecord
  <2>2. TypeOK' /\ LockInv'
    BY <1>1, <2>1 DEF IInv, TypeOK, LockInv
  <2>3. StageInv' /\ HomeInv'
    BY <1>1, <2>1 DEF IInv, StageInv, HomeInv, Present, At, Unlinking
  <2>4. LeasesInv' /\ FileInv' /\ NeverLost' /\ SaidInv'
    BY <2>1 DEF IInv, LeasesInv, FileInv, NewInv, InboxInv, ProcessingInv, DoneInv,
       NeverLost, SaidInv, Present
  <2> QED BY <2>2, <2>3, <2>4 DEF IInv
<1> QED BY <1>2, <1>3

LEMMA LeaseExpiresPreserves ==
    ASSUME NEW r \in Requests, NEW l \in 1..MaxAttempts, IInv, LeaseExpires(r, l)
    PROVE  IInv'
<1>1. l \in Nat /\ 1 <= l /\ l <= issued[r]
    BY LimitsAssumption DEF LeaseExpires, IInv, TypeOK
<1>2. TypeOK' /\ LeasesInv'
    BY <1>1 DEF LeaseExpires, IInv, TypeOK, LeasesInv
<1>3. LockInv' /\ StageInv' /\ HomeInv'
    BY DEF LeaseExpires, IInv, LockInv, StageInv, HomeInv, Present, At, Unlinking
<1>4. FileInv' /\ NeverLost' /\ SaidInv'
    BY DEF LeaseExpires, IInv, FileInv, NewInv, InboxInv, ProcessingInv, DoneInv,
       NeverLost, SaidInv, Present
<1> QED BY <1>2, <1>3, <1>4 DEF IInv

LEMMA InitEstablishes == Init => IInv
<1> SUFFICES ASSUME Init PROVE IInv
    OBVIOUS
<1> USE MarkersAssumption, LimitsAssumption DEF Init
<1>1. TypeOK
    BY DEF TypeOK, NoOp, Op, Blank, Request, NoLease, Results, NoRun, Silence, Stages
<1>2. LockInv /\ LeasesInv /\ StageInv /\ NeverLost /\ HomeInv
    BY DEF LockInv, Inside, LeasesInv, StageInv, NeverLost, HomeInv, At, Unlinking
<1>3. FileInv
    BY DEF FileInv, NewInv, InboxInv, ProcessingInv, DoneInv, Present, Dirs, Silence
<1>4. SaidInv
    BY DEF SaidInv, Present, Dirs
<1> QED BY <1>1, <1>2, <1>3, <1>4 DEF IInv

LEMMA NextPreserves == IInv /\ [Next]_vars => IInv'
<1> SUFFICES ASSUME IInv, [Next]_vars PROVE IInv'
    OBVIOUS
<1>1. ASSUME NEW p \in Procs, NEW r \in Requests, Submit(p, r) PROVE IInv'
    BY <1>1, SubmitPreserves
<1>2. ASSUME NEW p \in Procs, NEW want \in SUBSET Requests, RecoverBegin(p, want)
      PROVE  IInv'
    BY <1>2, RecoverBeginPreserves
<1>3. ASSUME NEW p \in Procs, NEW g \in granted, Answer(p, g[1], g[2]) PROVE IInv'
    BY <1>3, VerdictPreserves, AcceptanceRunPreserves, CompletePreserves, FailPreserves
    DEF Answer
<1>4. ASSUME NEW p \in Procs, Step(p) PROVE IInv'
    BY <1>4, ScanKeepPreserves, ScanExpiredPreserves, ScanUnlinkPreserves,
       ScanDonePreserves, ClaimNonePreserves, ClaimRenamePreserves, ClaimWritePreserves,
       ClaimReplyPreserves, AcceptanceRecordPreserves, FinishUnlinkPreserves
    DEF Step
<1>5. ASSUME NEW p \in Procs, Abort(p) PROVE IInv'
    BY <1>5, AbortPreserves
<1>6. ASSUME NEW r \in Requests, NEW l \in 1..MaxAttempts, LeaseExpires(r, l) PROVE IInv'
    BY <1>6, LeaseExpiresPreserves
<1>7. CASE UNCHANGED vars
  <2>1. TypeOK' /\ LockInv' /\ LeasesInv' /\ NeverLost'
    BY <1>7 DEF vars, IInv, TypeOK, LockInv, LeasesInv, NeverLost, Present
  <2>2. StageInv' /\ HomeInv' /\ SaidInv'
    BY <1>7 DEF vars, IInv, StageInv, HomeInv, SaidInv, Present, At, Unlinking
  <2>3. FileInv'
    BY <1>7 DEF vars, IInv, FileInv, NewInv, InboxInv, ProcessingInv, DoneInv, Present
  <2> QED BY <2>1, <2>2, <2>3 DEF IInv
<1> QED BY <1>1, <1>2, <1>3, <1>4, <1>5, <1>6, <1>7 DEF Next

LEMMA Invariance == Spec => []IInv
<1> QED BY InitEstablishes, NextPreserves, PTL DEF Spec

-----------------------------------------------------------------------------
(* The theorems *)

\* Every variable has its type, and no lease is told, expired or revoked before its
\* id was drawn, whatever is polled, answered, killed or late.
THEOREM TypeCorrect == Spec => []TypeOK
<1>1. IInv => TypeOK
    BY DEF IInv
<1> QED BY <1>1, Invariance, PTL

\* Wherever processes die, a submitted request keeps a file in some directory: the
\* moves of _recover_expired, claim and _finish write before they remove.
THEOREM NoRequestLost == Spec => []NeverLost
<1>1. IInv => NeverLost
    BY DEF IInv
<1> QED BY <1>1, Invariance, PTL

\* While nobody died under queue_lock, a request is in exactly one directory whenever
\* the lock is free.
THEOREM OneDirectory == Spec => []OneHome
<1>1. IInv => OneHome
  <2> SUFFICES ASSUME IInv, aborts = 0, lock = NoProc, NEW r \in submitted
               PROVE  Cardinality({d \in Dirs : r \in Present(d)}) = 1
    BY DEF OneHome
  <2>1. PICK d \in Dirs : r \in Present(d)
    BY DEF IInv, NeverLost
  <2>2. \A e \in Dirs : r \in Present(e) => e = d
    BY <2>1 DEF IInv, HomeInv, Unlinking, At
  <2>3. {e \in Dirs : r \in Present(e)} = {d}
    BY <2>1, <2>2
  <2> QED BY <2>3, FS_Singleton
<1> QED BY <1>1, Invariance, PTL

\* However leases expire, faults requeue a request and processes die, claim returns
\* it at most MAX_ATTEMPTS times.
THEOREM ClaimsBounded == Spec => []BoundedClaims
<1>1. IInv => BoundedClaims
  <2> SUFFICES ASSUME IInv, NEW r \in Requests
               PROVE  Cardinality({g \in granted : g[1] = r}) <= MaxAttempts
    BY DEF BoundedClaims
  <2> DEFINE G == {g \in granted : g[1] = r}
  <2> DEFINE lease == [l \in 1..MaxAttempts |-> <<r, l>>]
  <2>1. MaxAttempts \in Nat
    BY LimitsAssumption
  <2>2. /\ IsFiniteSet(1..MaxAttempts)
        /\ Cardinality(1..MaxAttempts) = MaxAttempts
    BY <2>1, FS_Interval
  <2>3. G \subseteq {lease[l] : l \in 1..MaxAttempts}
    <3> SUFFICES ASSUME NEW g \in granted, g[1] = r
                 PROVE  \E l \in 1..MaxAttempts : g = lease[l]
        OBVIOUS
    <3>1. g \in Requests \X Nat /\ 1 <= g[2] /\ g[2] <= issued[r]
        BY DEF IInv, LeasesInv
    <3>2. issued[r] \in Nat /\ issued[r] <= MaxAttempts
        BY DEF IInv, TypeOK, FileInv
    <3>3. g[2] \in 1..MaxAttempts /\ g = <<r, g[2]>>
        BY <2>1, <3>1, <3>2
    <3> QED BY <3>3
  <2>4. /\ IsFiniteSet({lease[l] : l \in 1..MaxAttempts})
        /\ Cardinality({lease[l] : l \in 1..MaxAttempts}) <= MaxAttempts
    <3>1. \E f \in [1..MaxAttempts -> {lease[l] : l \in 1..MaxAttempts}] :
            f \in Surjection(1..MaxAttempts, {lease[l] : l \in 1..MaxAttempts})
        BY DEF Surjection
    <3> QED BY <2>2, <3>1, FS_Surjection
  <2> HIDE DEF lease
  <2>5. Cardinality(G) <= Cardinality({lease[l] : l \in 1..MaxAttempts})
        /\ IsFiniteSet(G)
    BY <2>3, <2>4, FS_Subset
  <2>6. Cardinality(G) \in Nat /\ Cardinality({lease[l] : l \in 1..MaxAttempts}) \in Nat
    BY <2>4, <2>5, FS_CardinalityType
  <2> QED BY <2>1, <2>4, <2>5, <2>6
<1> QED BY <1>1, Invariance, PTL

\* While nobody died under queue_lock, what is done was passed by the last word of its
\* reviewer and of its acceptance commands.
THEOREM DoneApproved == Spec => []DoneWasApproved
<1>1. IInv => DoneWasApproved
  <2> SUFFICES ASSUME IInv, aborts = 0, NEW r \in Present("done")
               PROVE  /\ r \in ReviewRequired => said[r].verdict = "pass"
                      /\ r \in AcceptanceRequired => said[r].acceptance = "pass"
    BY DEF DoneWasApproved
  <2>1. r \in Requests /\ "done" \in Dirs
    BY DEF Present, Dirs
  <2> QED BY <2>1 DEF IInv, FileInv, DoneInv, SaidInv
<1> QED BY <1>1, Invariance, PTL

\* No verdict, completion, failure or late acceptance result is written under a lease
\* that recovery took back or its holder gave up.
THEOREM RevokedNeverWrites == Spec => NoRevokedWrite
<1> DEFINE Lawful(p, r) ==
        /\ \A l \in 1..issued[r] :
             (\/ \E v \in Results : Verdict(p, r, l, v)
              \/ Complete(p, r, l)
              \/ \E t \in BOOLEAN : Fail(p, r, l, t)) => <<r, l>> \notin revoked
        /\ AcceptanceRecord(p) /\ run[p].req = r /\ dir' # dir
             => <<r, run[p].lease>> \notin revoked
<1>1. ASSUME IInv, NEW p \in Procs, NEW r \in Requests
      PROVE  Lawful(p, r)
  <2>1. ASSUME NEW l, HoldsLease(r, l)
        PROVE  <<r, l>> \notin revoked
    BY <1>1, <2>1 DEF HoldsLease, IInv, FileInv, ProcessingInv
  <2>2. \A l, v : Verdict(p, r, l, v) => HoldsLease(r, l)
    BY DEF Verdict
  <2>3. \A l : Complete(p, r, l) => HoldsLease(r, l)
    BY DEF Complete
  <2>4. \A l, t : Fail(p, r, l, t) => HoldsLease(r, l)
    BY DEF Fail
  <2>5. AcceptanceRecord(p) /\ run[p].req = r /\ dir' # dir => HoldsLease(r, run[p].lease)
    BY Zenon DEF AcceptanceRecord
  <2> QED BY <2>1, <2>2, <2>3, <2>4, <2>5
<1>2. IInv => [\A p \in Procs, r \in Requests : Lawful(p, r)]_vars
    BY <1>1
<1> QED BY <1>2, Invariance, PTL DEF NoRevokedWrite
=============================================================================
