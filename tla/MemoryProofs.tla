----------------------------- MODULE MemoryProofs ------------------------------
(***************************************************************************)
(* What holds of memory sync and of the episodic index.                    *)
(*                                                                         *)
(* Memory sync, for any number of processes, cycles, commits and kills:    *)
(* the lock keeps two cycles apart until a process dies in one or stands   *)
(* for two minutes before it wrote its token; cycles that are kept apart   *)
(* never commit amid a stopped rebase and push valid audit lineages only.  *)
(*                                                                         *)
(* The episodic index, for any fanout and number of tiers, any source, any *)
(* number of calls and kills: every event that was ever sealed is covered  *)
(* by a block of its own tier or of one above, the index stays small, and  *)
(* a call killed at any step leaves files from which the next one recovers.*)
(***************************************************************************)
EXTENDS MemorySync, EpisodicIndex, FiniteSetTheorems, SequenceTheorems,
        WellFoundedInduction, TLAPS

-----------------------------------------------------------------------------
(* Memory sync *)

\* No process died in a cycle, and no lock file stood without a token for two minutes.
LockHeld == syncKills = 0 /\ ~agedEmpty

\* Steps of a process that owns the lock file, from its creation on.
Owning == InCycle \cup {"token"}

\* While LockHeld, the lock file is that of the one process that owns it: a call that found
\* another, stale file finds that one gone or changed when it looks again, and nobody
\* steals.  OneCycle alone is not inductive: it says nothing of the lock.
LockInv ==
    /\ syncKills \in Nat /\ inodes \in Nat /\ agedEmpty \in BOOLEAN
    /\ lockFile \in LockFiles \cup {Gone}
    /\ spc = [p \in Syncs |-> spc[p]] /\ saw \in [Syncs -> 0..inodes]
    /\ lockFile # Gone => lockFile.ino \in 1..inodes
    /\ LockHeld =>
         /\ ~overlapped
         /\ lockFile # Gone =>
              ~lockFile.dead /\ (lockFile.owner = Gone => ~lockFile.old)
         /\ \A p \in Syncs : spc[p] # "steal"
         /\ \A p \in Syncs :
              spc[p] = "owner" /\ lockFile # Gone /\ lockFile.ino = saw[p] => lockFile.owner # Gone
         /\ \A p \in Syncs :
              spc[p] = "inode" /\ lockFile # Gone => lockFile.ino # saw[p]
         /\ \A p \in Syncs : spc[p] \in Owning => lockFile # Gone /\ lockFile.ino = saw[p]
         /\ \A p \in Syncs : spc[p] \in InCycle => lockFile.owner = p
         /\ \A p \in Syncs : spc[p] = "token" => lockFile.owner = Gone
         /\ \A p, q \in Syncs : spc[p] \in Owning /\ spc[q] \in Owning => p = q

\* Steps after which the preflight of the cycle still holds.
Vouched == {"upstream", "fetch", "count", "check", "push"}

\* As long as two cycles never overlapped, one process at most is in a cycle, the
\* lineage is what its last check of it said, and nothing else was pushed.
LineageInv ==
    /\ spc = [p \in Syncs |-> spc[p]]
    /\ ~overlapped =>
         /\ \A p, q \in Syncs : spc[p] \in InCycle /\ spc[q] \in InCycle => p = q
         /\ \A p \in Syncs : spc[p] \in Vouched => chainOk
         /\ \A x \in pushed : x.valid

-----------------------------------------------------------------------------

\* The steps of a cycle between its locks, which move no lock.
Working(p) ==
    \/ Preflight(p) \/ CommitMemory(p) \/ CommitFails(p) \/ Upstream(p) \/ Count(p)
    \/ RebaseRefused(p) \/ RebaseConflict(p) \/ RebaseAbort(p)
    \/ Postflight(p) \/ PushCheck(p) \/ Push(p)
    \/ \E b \in BOOLEAN : Fetch(p, b) \/ RebaseDone(p, b)

\* The steps of the others.
Around ==
    \/ UserEdits \/ UserCommits \/ UserPushes \/ UserRepairs \/ HookWrites
    \/ PeerPushes \/ UNCHANGED syncVars

LEMMA WorkingIs ==
    ASSUME NEW p \in Syncs, Working(p)
    PROVE  /\ UNCHANGED <<lockFile, inodes, saw, syncKills, agedEmpty, overlapped>>
           /\ spc[p] \in InCycle
           /\ \E step \in InCycle : spc' = [spc EXCEPT ![p] = step]
<1> USE DEF OnlyStep, lockVars, countVars, syncHistory, InCycle, SyncGoto
<1>1. CASE Preflight(p) \/ CommitFails(p) \/ Upstream(p) \/ Count(p)
  BY <1>1 DEF Preflight, CommitFails, Upstream, Count
<1>2. CASE CommitMemory(p)
  <2>1. /\ UNCHANGED <<lockFile, inodes, saw, syncKills, agedEmpty, overlapped>>
        /\ spc[p] = "commit"
        /\ SyncGoto(p, "upstream") \/ SyncGoto(p, "unlock")
    BY <1>2, Zenon DEF CommitMemory
  <2> QED BY <2>1
<1>5. CASE Push(p)
  BY <1>5 DEF Push
<1>3. CASE RebaseRefused(p) \/ RebaseConflict(p) \/ RebaseAbort(p) \/ Postflight(p) \/ PushCheck(p)
  BY <1>3 DEF RebaseRefused, RebaseConflict, RebaseAbort, Postflight, PushCheck
<1>4. CASE \E b \in BOOLEAN : Fetch(p, b) \/ RebaseDone(p, b)
  BY <1>4 DEF Fetch, RebaseDone
<1> QED BY <1>1, <1>2, <1>3, <1>4, <1>5 DEF Working

LEMMA AroundIs ==
    ASSUME Around
    PROVE  UNCHANGED <<lockFile, inodes, saw, spc, syncKills, agedEmpty, overlapped, stranded>>
BY DEF Around, UserEdits, UserCommits, UserPushes, UserRepairs, HookWrites, PeerPushes,
   syncVars, lockVars, countVars, syncHistory

LEMMA LockInvInit == SyncInit => LockInv
<1> SUFFICES ASSUME SyncInit PROVE LockInv
  OBVIOUS
<1>1. inodes = 0 /\ saw \in [Syncs -> 0..inodes]
  BY DEF SyncInit
<1>2. /\ syncKills = 0 /\ agedEmpty = FALSE /\ lockFile = Gone /\ overlapped = FALSE
      /\ spc = [p \in Syncs |-> "idle"]
  BY DEF SyncInit
<1> QED BY <1>1, <1>2 DEF LockInv, LockHeld, InCycle, Owning

LEMMA LockInvStep == LockInv /\ [SyncNext]_syncVars => LockInv'
<1> SUFFICES ASSUME LockInv, [SyncNext]_syncVars PROVE LockInv'
  OBVIOUS
<1> USE SyncBoundsAssumption DEF LockInv, LockHeld, LockFiles, InCycle, Owning, SyncGoto
<1>1. ASSUME NEW p \in Syncs, LockStat(p) PROVE LockInv'
  BY <1>1 DEF LockStat, countVars, syncHistory
<1>2. ASSUME NEW p \in Syncs, LockOwner(p) PROVE LockInv'
  <2>1. /\ UNCHANGED <<lockFile, inodes, saw, syncKills, agedEmpty, overlapped>>
        /\ spc[p] = "owner"
        /\ spc' = [spc EXCEPT ![p] = IF lockFile # Gone /\ Stealable THEN "inode" ELSE "idle"]
    BY <1>2 DEF LockOwner, OnlyStep, lockVars, countVars, syncHistory
  <2> QED BY <2>1 DEF Stealable
<1>3. ASSUME NEW p \in Syncs, LockInode(p) PROVE LockInv'
  BY <1>3 DEF LockInode, OnlyStep, lockVars, countVars, syncHistory
<1>4. ASSUME NEW p \in Syncs, LockSteal(p) PROVE LockInv'
  BY <1>4 DEF LockSteal, countVars, syncHistory
<1>5. ASSUME NEW p \in Syncs, LockCreate(p) PROVE LockInv'
  <2>1. CASE lockFile = Gone /\ cycles < MaxCycles
    <3>1. /\ lockFile' = [ino |-> inodes + 1, owner |-> Gone, dead |-> FALSE, old |-> FALSE]
          /\ inodes' = inodes + 1 /\ spc' = [spc EXCEPT ![p] = "token"]
          /\ saw' = [saw EXCEPT ![p] = inodes + 1]
          /\ UNCHANGED <<syncKills, agedEmpty, overlapped>>
      BY <1>5, <2>1 DEF LockCreate, syncHistory
    <3>2. /\ lockFile' \in LockFiles /\ ~lockFile'.dead /\ lockFile'.owner = Gone
          /\ lockFile'.ino = inodes + 1 /\ ~lockFile'.old
      BY <3>1
    <3>3. saw' \in [Syncs -> 0..inodes'] /\ \A q \in Syncs : q # p => saw'[q] \in 0..inodes
      BY <3>1
    <3>4. saw'[p] = inodes + 1 /\ spc'[p] = "token"
          /\ \A q \in Syncs : q # p => spc'[q] = spc[q]
      BY <3>1
    <3>5. LockHeld => \A q \in Syncs : spc[q] \notin Owning
      BY <2>1
    <3>6. lockFile' # Gone
      BY <3>2
    <3>7. LockHeld' => LockHeld
      BY <3>1
    <3> QED BY <3>1, <3>2, <3>3, <3>4, <3>5, <3>6, <3>7
  <2>2. CASE ~(lockFile = Gone /\ cycles < MaxCycles)
    BY <1>5, <2>2 DEF LockCreate, syncHistory
  <2> QED BY <2>1, <2>2
<1>6. ASSUME NEW p \in Syncs, LockToken(p) PROVE LockInv'
  <2>1. /\ lockFile' = IF lockFile # Gone /\ lockFile.ino = saw[p]
                       THEN [lockFile EXCEPT !.owner = p, !.old = FALSE] ELSE lockFile
        /\ spc[p] = "token" /\ spc' = [spc EXCEPT ![p] = "preflight"]
        /\ UNCHANGED <<inodes, saw, syncKills, agedEmpty>>
    BY <1>6 DEF LockToken, countVars
  <2>2. overlapped' = (overlapped \/ \E q \in Syncs : spc[q] \in InCycle)
    BY <1>6, Zenon DEF LockToken
  <2>3. LockHeld => ~\E q \in Syncs : spc[q] \in InCycle
    BY <2>1
  <2>4. LockHeld => ~overlapped
    BY Zenon
  <2>5. LockHeld' => LockHeld /\ ~overlapped'
    BY <2>1, <2>2, <2>3, <2>4, Zenon
  <2>6. lockFile' \in LockFiles \cup {Gone} /\ (lockFile' # Gone => lockFile'.ino \in 1..inodes')
    BY <2>1
  <2>7. LockHeld => /\ lockFile' # Gone /\ lockFile'.owner = p /\ ~lockFile'.dead
                    /\ lockFile'.ino = saw[p] /\ lockFile.ino = saw[p]
    BY <2>1
  <2>8. LockHeld => \A q \in Syncs : q # p => spc[q] \notin Owning /\ spc'[q] = spc[q]
    BY <2>1
  <2>9. spc'[p] = "preflight"
    BY <2>1
  <2> QED BY <2>1, <2>5, <2>6, <2>7, <2>8, <2>9
<1>7. ASSUME NEW p \in Syncs, LockTokenFails(p) \/ LockUnlink(p) PROVE LockInv'
  BY <1>7 DEF LockTokenFails, LockUnlink, countVars, syncHistory
<1>8. ASSUME NEW p \in Syncs, LockRelease(p) PROVE LockInv'
  BY <1>8 DEF LockRelease, OnlyStep, lockVars, countVars, syncHistory
<1>9. ASSUME LockAges PROVE LockInv'
  <2>1. /\ UNCHANGED <<inodes, saw, spc, syncKills, overlapped>>
        /\ agedEmpty' = (agedEmpty \/ lockFile.owner = Gone)
        /\ lockFile # Gone /\ lockFile' = [lockFile EXCEPT !.old = TRUE]
    BY <1>9 DEF LockAges, countVars
  <2>2. LockHeld' => LockHeld /\ lockFile.owner # Gone
    BY <2>1, Zenon
  <2>3. /\ lockFile' \in LockFiles /\ lockFile' # Gone
        /\ lockFile'.ino = lockFile.ino /\ lockFile'.owner = lockFile.owner
        /\ lockFile'.dead = lockFile.dead
    BY <2>1
  <2>4. agedEmpty' \in BOOLEAN
    BY <2>1, Zenon
  <2> QED BY <2>1, <2>2, <2>3, <2>4
<1>10. ASSUME NEW p \in Syncs, SyncKilled(p) PROVE LockInv'
  <2>1. /\ syncKills' = syncKills + 1 /\ inodes' = inodes /\ saw' = saw
        /\ spc' = [spc EXCEPT ![p] = "idle"] /\ agedEmpty' = agedEmpty
    BY <1>10 DEF SyncKilled, syncHistory
  <2>2. lockFile' \in LockFiles \cup {Gone} /\ (lockFile' # Gone => lockFile'.ino \in 1..inodes')
    BY <1>10 DEF SyncKilled
  <2> QED BY <2>1, <2>2
<1>11. ASSUME NEW p \in Syncs, Working(p) PROVE LockInv'
  BY <1>11, WorkingIs
<1>12. ASSUME Around PROVE LockInv'
  BY <1>12, AroundIs
<1> QED BY <1>1, <1>2, <1>3, <1>4, <1>5, <1>6, <1>7, <1>8, <1>9, <1>10, <1>11, <1>12
        DEF SyncNext, SyncCycle, Working, Around

-----------------------------------------------------------------------------

\* While LockHeld, a rebase stands half done only until the process that began it aborts it.
RebaseInv == LockHeld => ~stranded /\ (midRebase => \E p \in Syncs : spc[p] = "abort")

LEMMA RebaseInvInit == SyncInit => RebaseInv
BY DEF SyncInit, RebaseInv

LEMMA RebaseInvStep == LockInv /\ RebaseInv /\ [SyncNext]_syncVars => RebaseInv'
<1> SUFFICES ASSUME LockInv, RebaseInv, [SyncNext]_syncVars PROVE RebaseInv'
  OBVIOUS
<1> USE DEF RebaseInv, LockHeld, SyncGoto
<1>0. spc = [p \in Syncs |-> spc[p]]
  BY DEF LockInv
<1>1. ASSUME NEW p \in Syncs,
             \/ LockStat(p) \/ LockOwner(p) \/ LockInode(p) \/ LockSteal(p) \/ LockCreate(p)
             \/ LockToken(p) \/ LockTokenFails(p) \/ LockRelease(p) \/ LockUnlink(p)
      PROVE  RebaseInv'
  <2>1. /\ UNCHANGED <<syncKills, agedEmpty, stranded, midRebase>> /\ spc[p] # "abort"
        /\ \E step : spc' = [spc EXCEPT ![p] = step]
    BY <1>1 DEF LockStat, LockOwner, LockInode, LockSteal, LockCreate, LockToken,
       LockTokenFails, LockRelease, LockUnlink, OnlyStep, treeState, countVars, syncHistory
  <2> QED BY <1>0, <2>1
<1>2. ASSUME LockAges PROVE RebaseInv'
  BY <1>2, Zenon DEF LockAges, treeState, countVars
<1>3. ASSUME NEW p \in Syncs, SyncKilled(p) PROVE RebaseInv'
  <2>1. syncKills' = syncKills + 1 /\ syncKills \in Nat
    BY <1>3 DEF SyncKilled, LockInv
  <2> QED BY <2>1
<1>4. ASSUME NEW p \in Syncs, CommitMemory(p) PROVE RebaseInv'
  <2>1. /\ UNCHANGED <<syncKills, agedEmpty, midRebase>> /\ spc[p] = "commit"
        /\ stranded' = stranded \/ stranded' = (stranded \/ midRebase)
        /\ \E step : spc' = [spc EXCEPT ![p] = step]
    BY <1>4, Zenon DEF CommitMemory, countVars
  <2>2. LockHeld => \A q \in Syncs : spc[q] # "abort"
    BY <2>1 DEF LockInv, Owning, InCycle
  <2>3. LockHeld => ~midRebase /\ ~stranded
    BY <2>2, Zenon
  <2> QED BY <2>1, <2>3, Zenon
<1>5. ASSUME NEW p \in Syncs,
             \/ Preflight(p) \/ CommitFails(p) \/ Upstream(p) \/ Count(p)
             \/ RebaseRefused(p) \/ RebaseAbort(p) \/ RebaseConflict(p)
             \/ Postflight(p) \/ PushCheck(p) \/ Push(p)
             \/ \E b \in BOOLEAN : Fetch(p, b) \/ RebaseDone(p, b)
      PROVE  RebaseInv'
  <2>1. /\ UNCHANGED <<syncKills, agedEmpty, stranded>>
        /\ \/ /\ midRebase' = midRebase /\ spc[p] # "abort"
              /\ \E step : spc' = [spc EXCEPT ![p] = step]
           \/ ~midRebase'
           \/ spc' = [spc EXCEPT ![p] = "abort"]
    BY <1>5 DEF Preflight, CommitFails, Upstream, Count, RebaseRefused, RebaseConflict,
       RebaseAbort, Postflight, PushCheck, Push, Fetch, RebaseDone, OnlyStep, treeState,
       countVars, syncHistory
  <2> QED BY <1>0, <2>1
<1>6. ASSUME Around PROVE RebaseInv'
  <2>1. midRebase' = midRebase \/ ~midRebase'
    BY <1>6 DEF Around, UserEdits, UserCommits, UserPushes, UserRepairs, HookWrites, PeerPushes,
       syncVars, treeState
  <2> QED BY <1>6, <2>1, AroundIs
<1> QED BY <1>1, <1>2, <1>3, <1>4, <1>5, <1>6 DEF SyncNext, SyncCycle, Around

-----------------------------------------------------------------------------

LEMMA LineageInvInit == SyncInit => LineageInv
BY DEF SyncInit, LineageInv, InCycle, Vouched

LEMMA LineageInvStep == LineageInv /\ [SyncNext]_syncVars => LineageInv'
<1> SUFFICES ASSUME LineageInv, [SyncNext]_syncVars PROVE LineageInv'
  OBVIOUS
<1> USE DEF LineageInv, InCycle, Vouched, SyncGoto, syncHistory, treeState
<1>1. ASSUME NEW p \in Syncs,
             \/ LockStat(p) \/ LockOwner(p) \/ LockInode(p) \/ LockSteal(p) \/ LockCreate(p)
             \/ LockTokenFails(p) \/ LockRelease(p) \/ LockUnlink(p)
      PROVE  LineageInv'
  <2>1. /\ UNCHANGED <<chainOk, overlapped, pushed>>
        /\ \E step : /\ spc' = [spc EXCEPT ![p] = step] /\ step \notin Vouched
                     /\ step \in InCycle => spc[p] \in InCycle
    BY <1>1 DEF LockStat, LockOwner, LockInode, LockSteal, LockCreate, LockTokenFails,
       LockRelease, LockUnlink, OnlyStep
  <2> QED BY <2>1
<1>2. ASSUME NEW p \in Syncs, LockToken(p) PROVE LineageInv'
  <2>1. /\ spc' = [spc EXCEPT ![p] = "preflight"]
        /\ chainOk' = chainOk /\ pushed' = pushed
    BY <1>2 DEF LockToken
  <2>2. overlapped' = (overlapped \/ \E q \in Syncs : spc[q] \in InCycle)
    BY <1>2, Zenon DEF LockToken
  <2>3. ~overlapped' => ~overlapped /\ \A q \in Syncs : spc[q] \notin InCycle
    BY <2>2, Zenon
  <2> QED BY <2>1, <2>3
<1>3. ASSUME NEW p \in Syncs, \/ Preflight(p) \/ CommitFails(p) \/ Upstream(p) \/ Count(p)
                             \/ RebaseRefused(p) \/ Postflight(p) \/ PushCheck(p)
      PROVE  LineageInv'
  BY <1>3 DEF Preflight, CommitFails, Upstream, Count, RebaseRefused, Postflight, PushCheck,
     OnlyStep
<1>4. ASSUME NEW p \in Syncs, CommitMemory(p) PROVE LineageInv'
  BY <1>4 DEF CommitMemory
<1>5. ASSUME NEW p \in Syncs, NEW b \in BOOLEAN, Fetch(p, b) PROVE LineageInv'
  BY <1>5 DEF Fetch
<1>6. ASSUME NEW p \in Syncs, NEW b \in BOOLEAN, RebaseDone(p, b) PROVE LineageInv'
  BY <1>6 DEF RebaseDone
<1>7. ASSUME NEW p \in Syncs, RebaseConflict(p) \/ RebaseAbort(p) PROVE LineageInv'
  BY <1>7 DEF RebaseConflict, RebaseAbort
<1>8. ASSUME NEW p \in Syncs, Push(p) PROVE LineageInv'
  BY <1>8 DEF Push
<1>9. ASSUME NEW p \in Syncs, SyncKilled(p) PROVE LineageInv'
  BY <1>9 DEF SyncKilled
<1>10. ASSUME \/ LockAges \/ UserEdits \/ UserCommits \/ UserPushes \/ UserRepairs
              \/ HookWrites \/ PeerPushes \/ UNCHANGED syncVars
       PROVE  LineageInv'
  BY <1>10 DEF LockAges, UserEdits, UserCommits, UserPushes, UserRepairs, HookWrites,
     PeerPushes, syncVars
<1> QED BY <1>1, <1>2, <1>3, <1>4, <1>5, <1>6, <1>7, <1>8, <1>9, <1>10
           DEF SyncNext, SyncCycle

-----------------------------------------------------------------------------

\* Two cycles never run at once unless a process was killed inside one, or stood for two
\* minutes between the creation of the lock file and its token: the lock of
\* _acquire_sync_lock, for any number of daemons and manual calls.
THEOREM CyclesExclude == SyncSpec => []OneCycle
<1>1. LockInv => OneCycle
  BY DEF LockInv, LockHeld, OneCycle
<1> QED BY <1>1, LockInvInit, LockInvStep, PTL DEF SyncSpec

\* What a cycle pushes holds a valid audit lineage unless two cycles overlapped, whatever
\* is killed, rebased, edited or pushed by others in between.
THEOREM LineagesPushedValid == SyncSpec => []PushesValidAudit
<1>1. LineageInv => PushesValidAudit
  BY DEF LineageInv, PushesValidAudit
<1> QED BY <1>1, LineageInvInit, LineageInvStep, PTL DEF SyncSpec

\* No cycle commits memory amid a rebase that stopped half way, its own or another's, under
\* the condition of CyclesExclude: the abort of _sync_once_locked runs before the lock is given up.
THEOREM NeverCommitsHalfMerged == SyncSpec => []NeverHalfMerged
<1>1. LockInv /\ RebaseInv => NeverHalfMerged
  BY DEF LockInv, RebaseInv, LockHeld, NeverHalfMerged
<1> QED BY <1>1, LockInvInit, LockInvStep, RebaseInvInit, RebaseInvStep, PTL DEF SyncSpec

-----------------------------------------------------------------------------
(* Sizes *)

LEMMA SizeIs ==
    /\ Fanout \in Nat /\ Fanout >= 2 /\ Tiers \in Nat /\ Tiers >= 1
    /\ Size(1) = Fanout
    /\ \A k \in 1..Tiers : /\ Size(k) \in Nat /\ Size(k) > 0
                           /\ Size(k + 1) = Fanout * Size(k)
                           /\ Size(k + 1) \in Nat /\ Size(k + 1) > 0
<1>1. Fanout \in Nat /\ Fanout >= 2 /\ Tiers \in Nat /\ Tiers >= 1
    BY FanoutAssumption
<1>2. Size(1) = Fanout
    BY PowersAssumption DEF Size
<1>3. ASSUME NEW k \in 1..Tiers
      PROVE  /\ Size(k) \in Nat /\ Size(k) > 0 /\ Size(k + 1) = Fanout * Size(k)
             /\ Size(k + 1) \in Nat /\ Size(k + 1) > 0
  <2>1. Size(k) \in Nat \ {0} /\ Size(k + 1) = Fanout * Size(k)
    BY PowersAssumption DEF Size
  <2> QED BY <1>1, <2>1
<1> QED BY <1>1, <1>2, <1>3

\* What a multiple says of its factors.
LEMMA Multiples ==
    ASSUME NEW S \in Nat, S > 0, NEW x \in Nat, NEW y \in Nat
    PROVE  /\ x * S \in Nat /\ (x * S) % S = 0
           /\ x < y <=> x * S < y * S
           /\ x <= y <=> x * S <= y * S
           /\ x = y <=> x * S = y * S
           /\ x < y => x * S + S <= y * S
           /\ (x + 1) * S = x * S + S
<1>1. x * S \in Nat /\ y * S \in Nat /\ (x + 1) * S = x * S + S
    OBVIOUS
<1>2. (x * S) % S = 0
    OBVIOUS
<1>3. \A a, b \in Nat : a < b => a * S + S <= b * S
    OBVIOUS
<1>4. x < y => x * S + S <= y * S
    BY <1>3
<1>5. y < x => y * S + S <= x * S
    BY <1>3
<1>6. x < y \/ x = y \/ y < x
    OBVIOUS
<1>7. x < y <=> x * S < y * S
    BY <1>1, <1>4, <1>5, <1>6
<1>8. x <= y <=> x * S <= y * S
    BY <1>1, <1>4, <1>5, <1>6
<1>9. x = y <=> x * S = y * S
    BY <1>1, <1>4, <1>5, <1>6
<1> QED BY <1>1, <1>2, <1>4, <1>7, <1>8, <1>9

LEMMA Divides ==
    ASSUME NEW S \in Nat, S > 0, NEW n \in Nat, n % S = 0
    PROVE  \E x \in Nat : n = x * S
OBVIOUS

\* The events of the whole windows among the first n.
Whole(n) == (n \div Fanout) * Fanout

LEMMA WholeIs ==
    ASSUME NEW n \in Nat
    PROVE  /\ n \div Fanout \in Nat
           /\ Whole(n) \in Nat /\ Whole(n) <= n /\ n < Whole(n) + Fanout
           /\ \E x \in Nat : Whole(n) = x * Fanout
<1>1. Fanout \in Nat /\ Fanout > 0
    BY SizeIs
<1>2. n \div Fanout \in Nat
    BY <1>1
<1>3. (n \div Fanout) * Fanout <= n
    BY <1>1
<1>4. n < (n \div Fanout) * Fanout + Fanout
    BY <1>1
<1>5. Whole(n) \in Nat
    BY <1>1, <1>2 DEF Whole
<1> QED BY <1>2, <1>3, <1>4, <1>5 DEF Whole

-----------------------------------------------------------------------------
(* Rows and runs *)

Blocks == [start : Nat, of : Seq(Nat)]

\* q holds the blocks l, ..., h - 1 of a tier of size S; an empty file begins at 0.
Run(q, S, l, h) ==
    /\ l <= h /\ Len(q) = h - l /\ (h > 0 => l < h)
    /\ \A i \in 1..Len(q) : q[i].start = (l + i - 1) * S

LEMMA RunOrdered ==
    ASSUME NEW q \in Seq(Blocks), NEW S \in Nat, S > 0, NEW l \in Nat, NEW h \in Nat,
           Run(q, S, l, h)
    PROVE  Ordered(q)
<1>1. Len(q) \in Nat
    BY LenProperties
<1> SUFFICES ASSUME NEW i \in 1..(Len(q) - 1) PROVE q[i].start < q[i + 1].start
    BY DEF Ordered
<1>2. q[i].start = (l + i - 1) * S /\ q[i + 1].start = (l + (i + 1) - 1) * S
    BY <1>1 DEF Run
<1>3. l + i - 1 \in Nat /\ l + (i + 1) - 1 \in Nat /\ l + i - 1 < l + (i + 1) - 1
    BY <1>1
<1>4. (l + i - 1) * S < (l + (i + 1) - 1) * S
    BY <1>3, Multiples
<1> QED BY <1>2, <1>4

Has(q, s) == \E i \in DOMAIN q : q[i].start = s

\* A block has a row just when its number is in the run.
LEMMA RunHas ==
    ASSUME NEW q \in Seq(Blocks), NEW S \in Nat, S > 0, NEW l \in Nat, NEW h \in Nat,
           Run(q, S, l, h), NEW x \in Nat
    PROVE  Has(q, x * S) <=> l <= x /\ x < h
<1>1. Len(q) \in Nat /\ DOMAIN q = 1..Len(q)
    BY LenProperties
<1>2. ASSUME NEW i \in DOMAIN q, q[i].start = x * S PROVE l <= x /\ x < h
  <2>1. (l + i - 1) * S = x * S /\ l + i - 1 \in Nat
    BY <1>1, <1>2 DEF Run
  <2>2. l + i - 1 = x
    BY <2>1, Multiples
  <2> QED BY <1>1, <2>2 DEF Run
<1>3. ASSUME l <= x, x < h PROVE \E i \in DOMAIN q : q[i].start = x * S
  <2>1. x - l + 1 \in 1..Len(q) /\ l + (x - l + 1) - 1 = x
    BY <1>1, <1>3 DEF Run
  <2>2. q[x - l + 1].start = (l + (x - l + 1) - 1) * S
    BY <2>1 DEF Run
  <2> QED BY <1>1, <2>1, <2>2
<1> QED BY <1>2, <1>3 DEF Has

LEMMA RunAppend ==
    ASSUME NEW q \in Seq(Blocks), NEW S \in Nat, S > 0, NEW l \in Nat, NEW h \in Nat,
           Run(q, S, l, h), NEW b \in Blocks, b.start = h * S
    PROVE  Run(Append(q, b), S, l, h + 1)
<1>1. PICK t : t = Append(q, b)
    OBVIOUS
<1>2. Len(q) \in Nat /\ Len(t) = Len(q) + 1 /\ t[Len(q) + 1] = b
      /\ \A i \in 1..Len(q) : t[i] = q[i]
    BY <1>1, LenProperties, AppendProperties
<1>3. ASSUME NEW i \in 1..Len(t) PROVE t[i].start = (l + i - 1) * S
  <2>1. CASE i = Len(q) + 1
    <3>1. l + i - 1 = h
      BY <1>2, <2>1 DEF Run
    <3> QED BY <1>2, <2>1, <3>1
  <2>2. CASE i \in 1..Len(q)
    BY <1>2, <2>2 DEF Run
  <2>3. i = Len(q) + 1 \/ i \in 1..Len(q)
    BY <1>2
  <2> QED BY <2>1, <2>2, <2>3
<1>4. l <= h + 1 /\ Len(t) = h + 1 - l /\ l < h + 1
    BY <1>2 DEF Run
<1> QED BY <1>1, <1>3, <1>4 DEF Run

\* Rows out of order stay so, and a row below the last one puts them out of order.
LEMMA AppendOrder ==
    ASSUME NEW q \in Seq(Blocks), NEW b \in Blocks,
           \/ ~ Ordered(q)
           \/ Len(q) > 0 /\ b.start <= q[Len(q)].start
    PROVE  ~ Ordered(Append(q, b)) /\ Append(q, b) # <<>>
<1>1. PICK t : t = Append(q, b)
    OBVIOUS
<1>2. Len(q) \in Nat /\ Len(t) = Len(q) + 1 /\ t[Len(q) + 1] = b
      /\ \A i \in 1..Len(q) : t[i] = q[i]
    BY <1>1, LenProperties, AppendProperties
<1>3. \A i \in 1..Len(q) : q[i].start \in Nat
  <2>1. \A i \in 1..Len(q) : q[i] \in Blocks
    BY ElementOfSeq
  <2> QED BY <2>1 DEF Blocks
<1>4. t # <<>>
    BY <1>2, EmptySeq
<1>5. CASE ~ Ordered(q)
  <2>1. PICK i \in 1..(Len(q) - 1) : ~ (q[i].start < q[i + 1].start)
    BY <1>5 DEF Ordered
  <2>2. i \in 1..(Len(t) - 1) /\ t[i] = q[i] /\ t[i + 1] = q[i + 1]
    BY <1>2, <2>1
  <2> QED BY <1>1, <1>4, <2>1, <2>2 DEF Ordered
<1>6. CASE Len(q) > 0 /\ b.start <= q[Len(q)].start
  <2>1. Len(q) \in 1..(Len(t) - 1) /\ t[Len(q)] = q[Len(q)] /\ t[Len(q) + 1] = b
    BY <1>2, <1>6
  <2>2. q[Len(q)].start \in Nat /\ b.start \in Nat
    BY <1>2, <1>3, <1>6 DEF Blocks
  <2>3. ~ (t[Len(q)].start < t[Len(q) + 1].start)
    BY <1>6, <2>1, <2>2
  <2> QED BY <1>1, <1>4, <2>1, <2>3 DEF Ordered
<1> QED BY <1>5, <1>6

\* Without its first d rows.
LEMMA OnlySuffix ==
    ASSUME NEW T, NEW q \in Seq(T), NEW d \in Nat, d <= Len(q)
    PROVE  /\ Only(q, (d + 1)..Len(q)) \in Seq(T)
           /\ Len(Only(q, (d + 1)..Len(q))) = Len(q) - d
           /\ \A n \in 1..(Len(q) - d) : Only(q, (d + 1)..Len(q))[n] = q[d + n]
<1>1. Len(q) \in Nat /\ DOMAIN q = 1..Len(q) /\ \A i \in 1..Len(q) : q[i] \in T
    BY LenProperties, ElementOfSeq
<1>2. PICK N \in Nat : N = Len(q) - d
  <2>1. Len(q) - d \in Nat
    BY <1>1
  <2> QED BY <2>1
<1>3. PICK S : S = (d + 1)..Len(q)
    OBVIOUS
<1>4. Cardinality(S) = N
  <2>1. d + 1 \in Int /\ Len(q) \in Int
    BY <1>1
  <2>2. Cardinality(S) = IF d + 1 > Len(q) THEN 0 ELSE Len(q) - (d + 1) + 1
    BY <1>3, <2>1, FS_Interval
  <2>3. CASE d + 1 > Len(q)
    <3>1. Cardinality(S) = 0
      BY <2>2, <2>3
    <3>2. PICK m \in Nat : m = Len(q)
      BY <1>1
    <3>4. d <= m /\ d + 1 > m
      BY <2>3, <3>2
    <3>5. d = m
      BY <3>4
    <3>3. N = 0
      BY <1>2, <3>2, <3>5
    <3> QED BY <3>1, <3>3
  <2>4. CASE ~ (d + 1 > Len(q))
    <3>1. Cardinality(S) = Len(q) - (d + 1) + 1
      BY <2>2, <2>4
    <3> QED BY <1>1, <1>2, <3>1
  <2> QED BY <2>3, <2>4
<1>5. \A i \in S : Cardinality({j \in S : j <= i}) = i - d
  <2> TAKE i \in S
  <2>1. i \in Nat /\ d + 1 <= i /\ i <= Len(q)
    BY <1>1, <1>3
  <2>2. {j \in S : j <= i} = (d + 1)..i
    BY <1>1, <1>3, <2>1
  <2>3. Cardinality((d + 1)..i) = IF d + 1 > i THEN 0 ELSE i - (d + 1) + 1
    <3>1. d + 1 \in Int /\ i \in Int
      BY <2>1
    <3> QED BY <3>1, FS_Interval
  <2>4. ~ (d + 1 > i) /\ i - (d + 1) + 1 = i - d
    BY <2>1
  <2> QED BY <2>2, <2>3, <2>4
<1> DEFINE place(n) == CHOOSE i \in S : Cardinality({j \in S : j <= i}) = n
<1>6. ASSUME NEW n \in 1..N PROVE place(n) = d + n
  <2>1. d + n \in S /\ d + n - d = n
    BY <1>1, <1>2, <1>3
  <2>2. Cardinality({j \in S : j <= d + n}) = n
    BY <1>5, <2>1
  <2>3. PICK c : c = CHOOSE i \in S : Cardinality({j \in S : j <= i}) = n
    OBVIOUS
  <2>4. c \in S /\ Cardinality({j \in S : j <= c}) = n
    BY <2>1, <2>2, <2>3
  <2>5. c - d = n
    BY <1>5, <2>4
  <2>6. c \in Nat /\ n \in Nat
    BY <1>1, <1>2, <1>3, <2>4
  <2>7. c = d + n
    BY <2>5, <2>6
  <2> QED BY <2>3, <2>7
<1>7. PICK t : t = Only(q, S)
    OBVIOUS
<1>8. t = [n \in 1..N |-> q[d + n]]
  <2>1. t = [n \in 1..N |-> q[place(n)]]
    BY <1>4, <1>7 DEF Only
  <2> HIDE DEF place
  <2> QED BY <1>6, <2>1
<1>9. \A n \in 1..N : q[d + n] \in T
    BY <1>1, <1>2
<1>10. t \in Seq(T) /\ Len(t) = N
    BY <1>2, <1>8, <1>9
<1> QED BY <1>2, <1>3, <1>7, <1>8, <1>10

-----------------------------------------------------------------------------
(* Blocks and what they cover *)

Files == [1..Tiers -> Seq(Blocks)]

\* Every row is a block of these events.
Genuine(R, E) ==
    \A k \in 1..Tiers : \A i \in DOMAIN R[k] :
        R[k][i].start + Size(k) <= Len(E) /\ R[k][i] = Block(E, k, R[k][i].start)

\* A block of tier k says that the n-th event is v.
Shows(b, k, n, v) ==
    b.start < n /\ n <= b.start + Size(k) /\ b.of[n - b.start] = v

\* Some block of R shows each of the first m events of E.
Covered(R, E, m) ==
    \A n \in 1..m : \E k \in 1..Tiers : \E i \in DOMAIN R[k] : Shows(R[k][i], k, n, E[n])

LEMMA RowIs ==
    ASSUME NEW R \in Files, NEW k \in 1..Tiers
    PROVE  /\ R[k] \in Seq(Blocks) /\ Len(R[k]) \in Nat /\ DOMAIN R[k] = 1..Len(R[k])
           /\ \A i \in DOMAIN R[k] : R[k][i] \in Blocks /\ R[k][i].start \in Nat
<1>1. R[k] \in Seq(Blocks)
    BY DEF Files
<1>2. Len(R[k]) \in Nat /\ DOMAIN R[k] = 1..Len(R[k])
    BY <1>1, LenProperties
<1>3. \A i \in DOMAIN R[k] : R[k][i] \in Blocks
    BY <1>1, <1>2, ElementOfSeq
<1> QED BY <1>1, <1>2, <1>3 DEF Blocks

LEMMA BlockIs ==
    ASSUME NEW k \in 1..Tiers, NEW E \in Seq(Nat), NEW s \in Nat, s + Size(k) <= Len(E)
    PROVE  /\ Block(E, k, s) \in Blocks /\ Block(E, k, s).start = s
           /\ \A n \in Nat : s < n /\ n <= s + Size(k) => Shows(Block(E, k, s), k, n, E[n])
<1>1. Size(k) \in Nat /\ Size(k) > 0 /\ Len(E) \in Nat
    BY SizeIs, LenProperties
<1>2. PICK z \in Nat : z = Size(k) /\ z > 0
    BY <1>1
<1>3. PICK q : q = SubSeq(E, s + 1, s + z)
    OBVIOUS
<1>4. \A i \in 1..Len(E) : E[i] \in Nat
    BY ElementOfSeq
<1>5. \A i \in (s + 1)..(s + z) : E[i] \in Nat
    BY <1>1, <1>2, <1>4
<1>6. s + 1 \in Int /\ s + z \in Int /\ s + z - (s + 1) + 1 = z /\ s + 1 <= s + z
    BY <1>2
<1>9. q \in Seq(Nat) /\ \A i \in 1..z : q[i] = E[s + 1 + i - 1]
  <2>1. \A i \in 1..(s + z - (s + 1) + 1) : q[i] = E[s + 1 + i - 1]
    BY <1>3, <1>5, <1>6, SubSeqProperties
  <2>2. q \in Seq(Nat)
    BY <1>3, <1>5, <1>6, SubSeqProperties
  <2> QED BY <1>6, <2>1, <2>2
<1>10. Block(E, k, s) = [start |-> s, of |-> q]
    BY <1>2, <1>3 DEF Block
<1>11. PICK b : b = Block(E, k, s)
    OBVIOUS
<1>12. b \in Blocks /\ b.start = s /\ b.of = q
    BY <1>9, <1>10, <1>11 DEF Blocks
<1>13. ASSUME NEW n \in Nat, s < n, n <= s + Size(k) PROVE Shows(b, k, n, E[n])
  <2>1. n - s \in 1..z /\ s + 1 + (n - s) - 1 = n
    BY <1>2, <1>13
  <2>2. q[n - s] = E[s + 1 + (n - s) - 1]
    BY <1>9, <2>1
  <2> QED BY <1>12, <1>13, <2>1, <2>2 DEF Shows
<1> QED BY <1>11, <1>12, <1>13

LEMMA GenuineShows ==
    ASSUME NEW R \in Files, NEW E \in Seq(Nat), Genuine(R, E), NEW k \in 1..Tiers,
           NEW i \in DOMAIN R[k], NEW n \in Nat,
           R[k][i].start < n, n <= R[k][i].start + Size(k)
    PROVE  Shows(R[k][i], k, n, E[n])
<1>1. R[k][i].start \in Nat /\ R[k][i].start + Size(k) <= Len(E)
      /\ R[k][i] = Block(E, k, R[k][i].start)
    BY RowIs DEF Genuine
<1>2. PICK s \in Nat : s = R[k][i].start
    BY <1>1
<1>3. Shows(Block(E, k, s), k, n, E[n])
    BY <1>1, <1>2, BlockIs
<1> QED BY <1>1, <1>2, <1>3

LEMMA SealedIs ==
    ASSUME NEW E \in Seq(Nat), NEW mark \in Nat, mark <= Len(E)
    PROVE  /\ Sealed(E, mark) \in Seq(Nat) /\ Len(Sealed(E, mark)) = Whole(mark)
           /\ \A n \in 1..Whole(mark) : Sealed(E, mark)[n] = E[n]
<1>1. Whole(mark) \in Nat /\ Whole(mark) <= Len(E) /\ Len(E) \in Nat
    BY WholeIs, LenProperties, SMTT(30)
<1>2. PICK w \in Nat : w = Whole(mark) /\ w <= Len(E)
    BY <1>1
<1>3. PICK q : q = SubSeq(E, 1, w)
    OBVIOUS
<1>4. Sealed(E, mark) = q
    BY <1>2, <1>3 DEF Sealed, Whole
<1>5. \A i \in 1..Len(E) : E[i] \in Nat
    BY ElementOfSeq
<1>6. \A i \in 1..w : E[i] \in Nat
    BY <1>1, <1>2, <1>5
<1>7. 1 \in Int /\ w \in Int /\ w - 1 + 1 = w /\ \A i \in 1..w : 1 + i - 1 = i
    OBVIOUS
<1>8. /\ q \in Seq(Nat) /\ Len(q) = IF 1 <= w THEN w - 1 + 1 ELSE 0
      /\ \A i \in 1..(w - 1 + 1) : q[i] = E[1 + i - 1]
    BY <1>3, <1>6, <1>7, SubSeqProperties
<1>9. q \in Seq(Nat) /\ Len(q) = w /\ \A i \in 1..w : q[i] = E[i]
  <2>1. Len(q) = w
    <3>1. CASE 1 <= w
      BY <1>8, <3>1
    <3>2. CASE ~ (1 <= w)
      BY <1>8, <3>2
    <3> QED BY <3>1, <3>2
  <2> QED BY <1>7, <1>8, <2>1
<1> QED BY <1>2, <1>4, <1>9

LEMMA CoverSealed ==
    ASSUME NEW R, NEW E \in Seq(Nat), NEW mark \in Nat, mark <= Len(E),
           NEW s, s = Sealed(E, mark)
    PROVE  /\ Len(s) = Whole(mark)
           /\ Covered(R, s, Len(s)) <=> Covered(R, E, Whole(mark))
<1>1. Len(s) = Whole(mark) /\ \A n \in 1..Whole(mark) : s[n] = E[n]
    BY SealedIs
<1> QED BY <1>1 DEF Covered

Appended(Q, R, k, b) ==
    /\ Q \in Files /\ Q[k] = Append(R[k], b)
    /\ \A j \in 1..Tiers : j # k => Q[j] = R[j]
    /\ Len(Q[k]) = Len(R[k]) + 1 /\ Q[k][Len(R[k]) + 1] = b
    /\ \A j \in 1..Tiers : \A i \in DOMAIN R[j] : i \in DOMAIN Q[j] /\ Q[j][i] = R[j][i]

LEMMA AppendIs ==
    ASSUME NEW R \in Files, NEW k \in 1..Tiers, NEW b \in Blocks, NEW Q,
           Q = [R EXCEPT ![k] = Append(@, b)]
    PROVE  Appended(Q, R, k, b)
<1>1. R[k] \in Seq(Blocks) /\ Len(R[k]) \in Nat /\ DOMAIN R[k] = 1..Len(R[k])
    BY RowIs
<1>6. PICK q, t : q = R[k] /\ t = Append(q, b)
    OBVIOUS
<1>7. q \in Seq(Blocks)
    BY <1>1, <1>6
<1>8. /\ t \in Seq(Blocks) /\ Len(t) = Len(q) + 1 /\ t[Len(q) + 1] = b
      /\ \A i \in 1..Len(q) : t[i] = q[i]
    BY <1>6, <1>7, AppendProperties
<1>2. /\ t = Append(R[k], b) /\ Len(t) = Len(R[k]) + 1 /\ t[Len(R[k]) + 1] = b
      /\ t \in Seq(Blocks) /\ \A i \in 1..Len(R[k]) : t[i] = R[k][i]
    BY <1>6, <1>8
<1>3. Q = [R EXCEPT ![k] = t]
    BY <1>2
<1>4. Q \in Files /\ Q[k] = t /\ \A j \in 1..Tiers : j # k => Q[j] = R[j]
    BY <1>3 DEF Files
<1>5. ASSUME NEW j \in 1..Tiers, NEW i \in DOMAIN R[j]
      PROVE  i \in DOMAIN Q[j] /\ Q[j][i] = R[j][i]
  <2>1. CASE j = k
    <3>1. DOMAIN t = 1..Len(t) /\ i \in 1..Len(R[k])
      BY <1>1, <1>2, <2>1, LenProperties
    <3> QED BY <1>1, <1>2, <1>4, <2>1, <3>1
  <2>2. CASE j # k
    BY <1>4, <2>2
  <2> QED BY <2>1, <2>2
<1> QED BY <1>2, <1>4, <1>5 DEF Appended

LEMMA CoverGrows ==
    ASSUME NEW R \in Files, NEW k \in 1..Tiers, NEW b \in Blocks, NEW Q,
           Q = [R EXCEPT ![k] = Append(@, b)], NEW E, NEW m, Covered(R, E, m)
    PROVE  Covered(Q, E, m)
<1>1. \A j \in 1..Tiers : \A i \in DOMAIN R[j] : i \in DOMAIN Q[j] /\ Q[j][i] = R[j][i]
  <2>1. Appended(Q, R, k, b)
    BY AppendIs
  <2> QED BY <2>1 DEF Appended
<1> SUFFICES ASSUME NEW n \in 1..m
             PROVE  \E j \in 1..Tiers : \E i \in DOMAIN Q[j] : Shows(Q[j][i], j, n, E[n])
    BY DEF Covered
<1>7. PICK j \in 1..Tiers : \E i \in DOMAIN R[j] : Shows(R[j][i], j, n, E[n])
    BY DEF Covered
<1>2. PICK i \in DOMAIN R[j] : Shows(R[j][i], j, n, E[n])
    BY <1>7
<1> QED BY <1>1, <1>2

LEMMA GenuineGrows ==
    ASSUME NEW R \in Files, NEW k \in 1..Tiers, NEW E \in Seq(Nat), NEW s \in Nat,
           s + Size(k) <= Len(E), NEW Q, Q = [R EXCEPT ![k] = Append(@, Block(E, k, s))],
           Genuine(R, E)
    PROVE  Genuine(Q, E)
<1>1. PICK b \in Blocks : b = Block(E, k, s) /\ b.start = s
    BY BlockIs
<1>2. /\ Q \in Files /\ Q[k] = Append(R[k], b)
      /\ \A j \in 1..Tiers : j # k => Q[j] = R[j]
      /\ Len(Q[k]) = Len(R[k]) + 1 /\ Q[k][Len(R[k]) + 1] = b
      /\ \A j \in 1..Tiers : \A i \in DOMAIN R[j] : i \in DOMAIN Q[j] /\ Q[j][i] = R[j][i]
  <2>1. Q = [R EXCEPT ![k] = Append(@, b)]
    BY <1>1
  <2>2. Appended(Q, R, k, b)
    BY <2>1, AppendIs
  <2> QED BY <2>2 DEF Appended
<1> SUFFICES ASSUME NEW j \in 1..Tiers, NEW i \in DOMAIN Q[j]
             PROVE  /\ Q[j][i].start + Size(j) <= Len(E)
                    /\ Q[j][i] = Block(E, j, Q[j][i].start)
    BY DEF Genuine
<1>3. CASE j = k /\ i = Len(R[k]) + 1
    BY <1>1, <1>2, <1>3
<1>4. CASE i \in DOMAIN R[j]
    BY <1>2, <1>4 DEF Genuine
<1>5. i \in DOMAIN R[j] \/ (j = k /\ i = Len(R[k]) + 1)
  <2>1. CASE j = k
    <3>1. DOMAIN Q[k] = 1..Len(Q[k]) /\ DOMAIN R[k] = 1..Len(R[k]) /\ Len(R[k]) \in Nat
      BY <1>2, RowIs
    <3> QED BY <1>2, <2>1, <3>1
  <2>2. CASE j # k
    BY <1>2, <2>2
  <2> QED BY <2>1, <2>2
<1> QED BY <1>3, <1>4, <1>5

\* The files with another content of tier k.
With(R, k, t) == [R EXCEPT ![k] = t]

\* A row may go when what it covers is covered by a row that stays.
LEMMA CoverKept ==
    ASSUME NEW R \in Files, NEW k \in 1..Tiers, k + 1 \in 1..Tiers, NEW t \in Seq(Blocks), NEW Q,
           Q = With(R, k, t), NEW E \in Seq(Nat), Genuine(R, E), NEW m \in Nat,
           Covered(R, E, m),
           \A i \in DOMAIN R[k] :
              \/ \E j \in DOMAIN t : t[j] = R[k][i]
              \/ \E j \in DOMAIN R[k + 1] : Within(R[k][i], k, R[k + 1][j])
    PROVE  Covered(Q, E, m)
<1>1. Q[k] = t /\ \A j \in 1..Tiers : j # k => Q[j] = R[j]
    BY DEF Files, With
<1> SUFFICES ASSUME NEW n \in 1..m
             PROVE  \E j \in 1..Tiers : \E i \in DOMAIN Q[j] : Shows(Q[j][i], j, n, E[n])
    BY DEF Covered
<1>7. PICK j \in 1..Tiers : \E i \in DOMAIN R[j] : Shows(R[j][i], j, n, E[n])
    BY DEF Covered
<1>2. PICK i \in DOMAIN R[j] : Shows(R[j][i], j, n, E[n])
    BY <1>7
<1>3. CASE j # k
    BY <1>1, <1>2, <1>3
<1>4. CASE j = k /\ \E l \in DOMAIN t : t[l] = R[k][i]
    BY <1>1, <1>2, <1>4
<1>5. CASE j = k /\ \E l \in DOMAIN R[k + 1] : Within(R[k][i], k, R[k + 1][l])
  <2>1. PICK l \in DOMAIN R[k + 1] : Within(R[k][i], k, R[k + 1][l])
    BY <1>5
  <2>2. R[k][i].start \in Nat /\ R[k + 1][l].start \in Nat /\ n \in Nat
    BY <1>2, <1>5, RowIs
  <2>3. Size(k) \in Nat /\ Size(k + 1) \in Nat
    BY SizeIs
  <2>4. R[k + 1][l].start < n /\ n <= R[k + 1][l].start + Size(k + 1)
    BY <1>2, <1>5, <2>1, <2>2, <2>3, SMTT(30) DEF Within, Shows
  <2>5. Shows(R[k + 1][l], k + 1, n, E[n])
    BY <2>2, <2>4, GenuineShows
  <2>6. k + 1 # k
    OBVIOUS
  <2> QED BY <1>1, <2>5, <2>6
<1> QED BY <1>2, <1>3, <1>4, <1>5

LEMMA GenuineKept ==
    ASSUME NEW R \in Files, NEW k \in 1..Tiers, NEW t \in Seq(Blocks), NEW Q,
           Q = With(R, k, t), NEW E, Genuine(R, E),
           \A j \in DOMAIN t : \E i \in DOMAIN R[k] : t[j] = R[k][i]
    PROVE  Q \in Files /\ Genuine(Q, E)
<1>1. Q[k] = t /\ \A j \in 1..Tiers : j # k => Q[j] = R[j]
    BY DEF Files, With
<1>2. Q \in Files
    BY DEF Files, With
<1> QED BY <1>1, <1>2 DEF Genuine

-----------------------------------------------------------------------------
(* Tiers of a sound index *)

Indices == [1..Tiers -> Nat]

\* The tier below starts at or above the tier above, with the last parent's children or
\* earlier ones, and has all children of its parents' end.
Nested(l, h, l2, h2) ==
    IF h2 = 0 THEN l = 0
    ELSE Fanout * l2 <= l /\ l + Fanout <= Fanout * h2 /\ Fanout * h2 <= h

\* Tier k is compacted: it starts with the children of its last parent.
Settled(l, h2) == h2 > 0 => Fanout * h2 <= l + Fanout

\* Tier k holds exactly the blocks number lo[k] to hi[k] - 1, and the tiers are nested.
Laid(R, lo, hi) ==
    /\ \A k \in 1..Tiers : Run(R[k], Size(k), lo[k], hi[k])
    /\ \A k \in 1..Tiers : k + 1 \in 1..Tiers => Nested(lo[k], hi[k], lo[k + 1], hi[k + 1])
    /\ lo[Tiers] = 0
    /\ \A j, k \in 1..Tiers : j < k /\ hi[j] = 0 => hi[k] = 0

LEMMA LaidOrdered ==
    ASSUME NEW R \in Files, NEW lo \in Indices, NEW hi \in Indices, Laid(R, lo, hi)
    PROVE  \A k \in 1..Tiers : Ordered(R[k])
<1> TAKE k \in 1..Tiers
<1>1. R[k] \in Seq(Blocks) /\ Size(k) \in Nat /\ Size(k) > 0
    BY RowIs, SizeIs
<1>2. lo[k] \in Nat /\ hi[k] \in Nat /\ Run(R[k], Size(k), lo[k], hi[k])
    BY DEF Indices, Laid
<1> QED BY <1>1, <1>2, RunOrdered

LEMMA LaidEmpty ==
    ASSUME NEW R \in Files, \A k \in 1..Tiers : R[k] = <<>>
    PROVE  \E z \in Indices : Laid(R, z, z) /\ \A k \in 1..Tiers : z[k] = 0
<1>1. PICK z : z = [k \in 1..Tiers |-> 0]
    OBVIOUS
<1>2. z \in Indices /\ \A k \in 1..Tiers : z[k] = 0
    BY <1>1 DEF Indices
<1>3. Tiers \in 1..Tiers
    BY SizeIs
<1>4. \A k \in 1..Tiers : Run(R[k], Size(k), 0, 0)
  <2> TAKE k \in 1..Tiers
  <2>1. Len(R[k]) = 0
    BY EmptySeq, RowIs
  <2> QED BY <2>1 DEF Run
<1>5. Nested(0, 0, 0, 0)
    BY DEF Nested
<1> QED BY <1>2, <1>3, <1>4, <1>5 DEF Laid

\* With one more block in tier k.
Further(hi, k) == [hi EXCEPT ![k] = hi[k] + 1]

\* b is the next block of tier k, and all its children have rows.
Follows(b, k, hi) ==
    /\ b.start = hi[k] * Size(k)
    /\ k = 1 \/ (k - 1 \in 1..Tiers /\ Fanout * hi[k] + Fanout <= hi[k - 1])

LEMMA LaidSeals ==
    ASSUME NEW R \in Files, NEW lo \in Indices, NEW hi \in Indices, Laid(R, lo, hi),
           NEW k \in 1..Tiers, NEW b \in Blocks, Follows(b, k, hi),
           NEW Q, Appended(Q, R, k, b)
    PROVE  Further(hi, k) \in Indices /\ Laid(Q, lo, Further(hi, k))
<1>9. PICK h : h = Further(hi, k)
    OBVIOUS
<1>8. /\ b.start = hi[k] * Size(k)
      /\ k = 1 \/ (k - 1 \in 1..Tiers /\ Fanout * hi[k] + Fanout <= hi[k - 1])
    BY DEF Follows
<1>2. Q[k] = Append(R[k], b) /\ \A j \in 1..Tiers : j # k => Q[j] = R[j]
    BY DEF Appended
<1>3. /\ h \in Indices /\ h[k] = hi[k] + 1 /\ \A j \in 1..Tiers : j # k => h[j] = hi[j]
      /\ \A j \in 1..Tiers : lo[j] \in Nat /\ hi[j] \in Nat /\ h[j] \in Nat /\ h[j] >= hi[j]
    BY <1>9 DEF Indices, Further
<1>4. Fanout \in Nat /\ Fanout >= 2 /\ Tiers \in Nat /\ Tiers >= 1
    BY SizeIs
<1>5. ASSUME NEW j \in 1..Tiers PROVE Run(Q[j], Size(j), lo[j], h[j])
  <2>1. CASE j = k
    <3>1. R[k] \in Seq(Blocks) /\ Size(k) \in Nat /\ Size(k) > 0
      BY RowIs, SizeIs
    <3>2. Run(R[k], Size(k), lo[k], hi[k])
      BY DEF Laid
    <3>3. Run(Append(R[k], b), Size(k), lo[k], hi[k] + 1)
      BY <1>3, <1>8, <3>1, <3>2, RunAppend
    <3> QED BY <1>2, <1>3, <2>1, <3>3
  <2>2. CASE j # k
    BY <1>2, <1>3, <2>2 DEF Laid
  <2> QED BY <2>1, <2>2
<1>6. ASSUME NEW j \in 1..Tiers, j + 1 \in 1..Tiers
      PROVE  Nested(lo[j], h[j], lo[j + 1], h[j + 1])
  <2>1. Nested(lo[j], hi[j], lo[j + 1], hi[j + 1])
    BY <1>6 DEF Laid
  <2>2. CASE j + 1 = k
    <3>1. k - 1 = j /\ k # 1 /\ j # k
      BY <2>2
    <3>2. Fanout * hi[k] + Fanout <= hi[j]
      BY <1>8, <3>1
    <3>3. lo[k] <= hi[k]
      BY DEF Laid, Run
    <3>4. h[j] = hi[j] /\ h[j + 1] = hi[k] + 1
      BY <1>3, <2>2, <3>1
    <3>5. PICK a, c, x, y \in Nat : a = lo[j] /\ c = hi[j] /\ x = lo[k] /\ y = hi[k]
      BY <1>3
    <3>6. Nested(a, c, x, y) /\ Fanout * y + Fanout <= c /\ x <= y
      BY <2>1, <2>2, <3>2, <3>3, <3>5
    <3>7. Fanout * (y + 1) = Fanout * y + Fanout /\ Fanout * y \in Nat /\ Fanout * x \in Nat
      BY <1>4
    <3>8. Nested(a, c, x, y + 1)
      <4>1. CASE y = 0
        <5>1. a = 0 /\ x = 0 /\ Fanout * x = 0 /\ Fanout * y = 0
          BY <1>4, <3>6, <4>1 DEF Nested
        <5>2. y + 1 # 0
          OBVIOUS
        <5> QED BY <1>4, <3>6, <3>7, <5>1, <5>2 DEF Nested
      <4>2. CASE y # 0
        <5>1. Fanout * x <= a /\ a + Fanout <= Fanout * y /\ Fanout * y <= c
          BY <3>6, <4>2 DEF Nested
        <5>2. y + 1 # 0
          OBVIOUS
        <5> QED BY <1>4, <3>6, <3>7, <5>1, <5>2 DEF Nested
      <4> QED BY <4>1, <4>2
    <3> QED BY <2>2, <3>4, <3>5, <3>8
  <2>3. CASE j + 1 # k
    <3>1. h[j + 1] = hi[j + 1] /\ h[j] >= hi[j] /\ h[j] \in Nat /\ hi[j] \in Nat
      BY <1>3, <1>6, <2>3
    <3>2. Fanout * hi[j + 1] \in Nat
      BY <1>3, <1>4, <1>6
    <3> QED BY <2>1, <3>1, <3>2 DEF Nested
  <2> QED BY <2>2, <2>3
<1>7. ASSUME NEW i \in 1..Tiers, NEW j \in 1..Tiers, i < j, h[i] = 0 PROVE h[j] = 0
  <2>1. hi[i] = 0 /\ i # k
    BY <1>3, <1>7
  <2>2. hi[j] = 0
    BY <1>7, <2>1 DEF Laid
  <2>3. j # k
    <3>1. SUFFICES ASSUME j = k PROVE FALSE
      OBVIOUS
    <3>2. k # 1 /\ k - 1 \in 1..Tiers
      BY <1>7, <1>8, <3>1
    <3>3. Fanout * hi[k] + Fanout <= hi[k - 1] /\ Fanout * hi[k] \in Nat
      BY <1>3, <1>4, <1>8, <3>2
    <3>4. hi[k - 1] # 0
      BY <1>3, <1>4, <3>2, <3>3
    <3>5. i = k - 1 \/ i < k - 1
      BY <1>7, <3>1
    <3> QED BY <2>1, <3>2, <3>4, <3>5 DEF Laid
  <2> QED BY <1>3, <2>2, <2>3
<1>10. Laid(Q, lo, h)
    BY <1>3, <1>5, <1>6, <1>7 DEF Laid
<1> QED BY <1>3, <1>9, <1>10

LEMMA RunDrops ==
    ASSUME NEW q \in Seq(Blocks), NEW S \in Nat, NEW l \in Nat, NEW h \in Nat, Run(q, S, l, h),
           NEW d \in Nat, d = 0 \/ l + d < h, NEW t \in Seq(Blocks), Len(t) = Len(q) - d,
           \A n \in 1..(Len(q) - d) : t[n] = q[d + n]
    PROVE  Run(t, S, l + d, h)
<1>1. Len(q) = h - l /\ l <= h /\ (h > 0 => l < h)
    BY DEF Run
<1>2. ASSUME NEW i \in 1..Len(t) PROVE t[i].start = (l + d + i - 1) * S
  <2>1. d + i \in 1..Len(q) /\ t[i] = q[d + i]
    BY <1>1, <1>2
  <2>2. q[d + i].start = (l + (d + i) - 1) * S /\ l + (d + i) - 1 = l + d + i - 1
    BY <2>1 DEF Run
  <2> QED BY <2>1, <2>2
<1>3. l + d <= h /\ Len(t) = h - (l + d) /\ (h > 0 => l + d < h)
    BY <1>1
<1> QED BY <1>2, <1>3 DEF Run

\* Tier k keeps its rows from the last parent's children on.
LEMMA LaidDrops ==
    ASSUME NEW R \in Files, NEW lo \in Indices, NEW hi \in Indices, Laid(R, lo, hi),
           NEW k \in 1..Tiers, k + 1 \in 1..Tiers, hi[k + 1] > 0,
           k = 1 \/ (k - 1 \in 1..Tiers /\ Settled(lo[k - 1], hi[k])),
           NEW d \in Nat, lo[k] + d + Fanout = Fanout * hi[k + 1],
           NEW t \in Seq(Blocks), Len(t) = Len(R[k]) - d,
           \A n \in 1..(Len(R[k]) - d) : t[n] = R[k][d + n],
           NEW Q, Q = With(R, k, t), NEW l, l = [lo EXCEPT ![k] = lo[k] + d]
    PROVE  l \in Indices /\ Laid(Q, l, hi) /\ Settled(l[k], hi[k + 1])
<1>1. Q[k] = t /\ \A j \in 1..Tiers : j # k => Q[j] = R[j]
    BY DEF Files, With
<1>2. /\ l \in Indices /\ l[k] = lo[k] + d /\ \A j \in 1..Tiers : j # k => l[j] = lo[j]
      /\ \A j \in 1..Tiers : lo[j] \in Nat /\ hi[j] \in Nat /\ l[j] \in Nat
  <2>1. \A j \in 1..Tiers : lo[j] \in Nat /\ hi[j] \in Nat
    BY DEF Indices
  <2>2. PICK e \in Nat : e = lo[k] + d
    BY <2>1
  <2>3. l = [lo EXCEPT ![k] = e] /\ l \in Indices
    BY <2>2 DEF Indices
  <2>4. l[k] = e /\ \A j \in 1..Tiers : j # k => l[j] = lo[j]
    BY <2>3 DEF Indices
  <2> QED BY <2>1, <2>2, <2>3, <2>4
<1>3. Fanout \in Nat /\ Fanout >= 2 /\ Tiers \in Nat /\ Tiers >= 1
    BY SizeIs
<1>4. Nested(lo[k], hi[k], lo[k + 1], hi[k + 1])
    BY DEF Laid
<1>5. PICK a, c, x, y \in Nat : a = lo[k] /\ c = hi[k] /\ x = lo[k + 1] /\ y = hi[k + 1]
    BY <1>2
<1>6. PICK u, v \in Nat : u = Fanout * x /\ v = Fanout * y
    BY <1>3
<1>7. u <= a /\ a + Fanout <= v /\ v <= c /\ a + d + Fanout = v /\ y > 0
    BY <1>2, <1>4, <1>5, <1>6 DEF Nested
<1>8. a + d < c /\ a + d <= c - Fanout
    BY <1>3, <1>7
<1>9. ASSUME NEW j \in 1..Tiers PROVE Run(Q[j], Size(j), l[j], hi[j])
  <2>1. CASE j = k
    <3>1. R[k] \in Seq(Blocks) /\ Size(k) \in Nat
      BY RowIs, SizeIs
    <3>2. Run(R[k], Size(k), lo[k], hi[k])
      BY DEF Laid
    <3>3. lo[k] + d < hi[k]
      BY <1>5, <1>8
    <3>4. Run(t, Size(k), lo[k] + d, hi[k])
      BY <1>2, <3>1, <3>2, <3>3, RunDrops
    <3> QED BY <1>1, <1>2, <2>1, <3>4
  <2>2. CASE j # k
    BY <1>1, <1>2, <2>2 DEF Laid
  <2> QED BY <2>1, <2>2
<1>10. ASSUME NEW j \in 1..Tiers, j + 1 \in 1..Tiers
       PROVE  Nested(l[j], hi[j], l[j + 1], hi[j + 1])
  <2>1. Nested(lo[j], hi[j], lo[j + 1], hi[j + 1])
    BY <1>10 DEF Laid
  <2>2. CASE j = k
    <3>1. k + 1 # k
      OBVIOUS
    <3>2. l[k] = a + d /\ l[k + 1] = x
      BY <1>2, <1>5, <3>1
    <3>3. u <= a + d /\ a + d + Fanout <= v /\ v <= c
      BY <1>7
    <3>4. Nested(a + d, c, x, y)
      BY <1>6, <1>7, <3>3 DEF Nested
    <3> QED BY <1>5, <2>2, <3>2, <3>4
  <2>3. CASE j + 1 = k
    <3>1. k - 1 = j /\ k # 1 /\ j # k
      BY <2>3
    <3>2. PICK e, f \in Nat : e = lo[j] /\ f = hi[j]
      BY <1>2
    <3>3. Nested(e, f, a, c) /\ Settled(e, c)
      BY <1>5, <2>1, <2>3, <3>1, <3>2
    <3>4. c > 0 /\ c # 0
      BY <1>3, <1>7
    <3>5. e + Fanout <= Fanout * c /\ Fanout * c <= f /\ Fanout * c <= e + Fanout
      BY <3>3, <3>4 DEF Nested, Settled
    <3>6. Fanout * (a + d) <= e
      <4>1. a + d + 1 <= c
        BY <1>8
      <4>2. (a + d + 1) * Fanout <= c * Fanout
        BY <1>3, <4>1, Multiples
      <4>3. (a + d + 1) * Fanout = Fanout * (a + d) + Fanout /\ c * Fanout = Fanout * c
        BY <1>3
      <4>4. PICK g, w \in Nat : g = Fanout * (a + d) /\ w = Fanout * c
        BY <1>3
      <4>5. g + Fanout <= w /\ w <= e + Fanout
        BY <3>5, <4>2, <4>3, <4>4
      <4>6. g <= e
        BY <1>3, <4>5
      <4> QED BY <4>4, <4>6
    <3>7. Nested(e, f, a + d, c)
      BY <3>4, <3>5, <3>6 DEF Nested
    <3>8. l[j] = e /\ hi[j] = f /\ l[j + 1] = a + d /\ hi[j + 1] = c
      BY <1>2, <1>5, <2>3, <3>1, <3>2
    <3> QED BY <3>7, <3>8
  <2>4. CASE j # k /\ j + 1 # k
    BY <1>2, <1>10, <2>1, <2>4
  <2> QED BY <2>2, <2>3, <2>4
<1>11. l[Tiers] = 0
  <2>1. Tiers # k /\ Tiers \in 1..Tiers
    BY <1>3
  <2> QED BY <1>2, <2>1 DEF Laid
<1>12. Settled(l[k], hi[k + 1])
    BY <1>2, <1>3, <1>5, <1>6, <1>7 DEF Settled
<1> QED BY <1>2, <1>9, <1>10, <1>11, <1>12 DEF Laid

-----------------------------------------------------------------------------
(* What a call finds to do *)

LEMMA EarliestIs ==
    ASSUME NEW S \in SUBSET Nat, S # {}
    PROVE  Earliest(S) \in S /\ \A t \in S : Earliest(S) <= t
<1>1. PICK s \in S : \A t \in S : <<t, s>> \notin OpToRel(<, Nat)
    BY WFMin, NatLessThanWellFounded, Zenon
<1>2. \A t \in S : s <= t
  <2> TAKE t \in S
  <2>1. s \in Nat /\ t \in Nat
    OBVIOUS
  <2>2. ~ (t < s)
    BY <1>1, <2>1, Zenon DEF OpToRel
  <2> QED BY <2>1, <2>2
<1> QED BY <1>1, <1>2, Zenon DEF Earliest

\* A block of tier k that fits n events and has no row in q.
Absent(q, k, n, t) ==
    /\ \E x \in Nat : t = x * Size(k)
    /\ t + Size(k) <= n /\ ~ Has(q, t)

LEMMA MissingIs ==
    ASSUME NEW p, NEW E \in Seq(Nat), E = job[p].events, NEW k \in 1..Tiers, NEW t
    PROVE  t \in Missing(p, k) <=> Absent(rows[k], k, Len(E), t)
<1>1. PICK m \in Nat : m = Len(E)
    BY LenProperties
<1>2. PICK z \in Nat : z = Size(k) /\ z > 0
    BY SizeIs
<1>3. ASSUME t \in Missing(p, k) PROVE Absent(rows[k], k, m, t)
  <2>1. t \in Nat /\ t % z = 0 /\ t + z <= m /\ ~ Has(rows[k], t)
    BY <1>1, <1>2, <1>3 DEF Missing, Has
  <2>2. \E x \in Nat : t = x * z
    BY <1>2, <2>1, Divides
  <2> QED BY <1>2, <2>1, <2>2 DEF Absent
<1>4. ASSUME Absent(rows[k], k, m, t) PROVE t \in Missing(p, k)
  <2>1. PICK x \in Nat : t = x * z /\ t + z <= m
    BY <1>2, <1>4 DEF Absent
  <2>2. x * z \in Nat /\ (x * z) % z = 0
    BY <1>2, Multiples
  <2>3. t \in 0..m /\ t % z = 0
    BY <1>2, <2>1, <2>2
  <2>4. \A i \in DOMAIN rows[k] : rows[k][i].start # t
    BY <1>4 DEF Absent, Has
  <2> QED BY <1>1, <1>2, <2>1, <2>3, <2>4 DEF Missing
<1> QED BY <1>1, <1>3, <1>4

\* The place a window goes to: the end of its tier, or below rows that were compacted.
LEMMA WindowPlace ==
    ASSUME NEW p, NEW E \in Seq(Nat), E = job[p].events, rows \in Files, Genuine(rows, E),
           job[p].mark \in Nat, MissingWindows(p) # {},
           NEW s, s = Earliest(MissingWindows(p))
    PROVE  /\ s \in Nat /\ s + Size(1) <= Len(E)
           /\ \A lo, hi \in Indices :
                Laid(rows, lo, hi) /\ Whole(job[p].mark) <= Fanout * hi[1] =>
                  \/ s = hi[1] * Size(1)
                  \/ /\ Size(2) <= Len(E) /\ lo[1] > 0
                     /\ Len(rows[1]) > 0 /\ s <= rows[1][Len(rows[1])].start
<1>1. Fanout \in Nat /\ Fanout >= 2 /\ Tiers \in Nat /\ 1 \in 1..Tiers /\ Size(1) = Fanout
    BY SizeIs
<1>2. PICK w \in Nat : w = Whole(job[p].mark)
    BY WholeIs
<1>3. PICK m \in Nat : m = Len(E)
    BY LenProperties
<1>4. \A t : t \in MissingWindows(p) <=> t >= w /\ Absent(rows[1], 1, m, t)
  <2> TAKE t
  <2>1. t \in Missing(p, 1) <=> Absent(rows[1], 1, m, t)
    BY <1>1, <1>3, MissingIs
  <2>2. t \in MissingWindows(p) <=> t \in Missing(p, 1) /\ t >= w
    BY <1>2 DEF MissingWindows, Whole
  <2> QED BY <2>1, <2>2
<1>5. MissingWindows(p) \in SUBSET Nat
  <2>1. \A x \in Nat : x * Fanout \in Nat
    BY <1>1
  <2> QED BY <1>1, <1>4, <2>1 DEF Absent
<1>6. s \in MissingWindows(p) /\ \A t \in MissingWindows(p) : s <= t
    BY <1>5, EarliestIs
<1>7. PICK x \in Nat : /\ s = x * Fanout /\ s + Fanout <= m /\ s >= w /\ s \in Nat
                       /\ ~ Has(rows[1], s)
    BY <1>1, <1>4, <1>5, <1>6 DEF Absent
<1>8. ASSUME NEW lo \in Indices, NEW hi \in Indices, Laid(rows, lo, hi), w <= Fanout * hi[1]
      PROVE  \/ s = hi[1] * Fanout
             \/ /\ Size(2) <= m /\ lo[1] > 0
                /\ Len(rows[1]) > 0 /\ s <= rows[1][Len(rows[1])].start
  <2>1. PICK l, h \in Nat : l = lo[1] /\ h = hi[1]
    BY <1>1 DEF Indices
  <2>2. rows[1] \in Seq(Blocks) /\ Run(rows[1], Fanout, l, h)
    BY <1>1, <1>8, <2>1, RowIs DEF Laid
  <2>3. \A y \in Nat : Has(rows[1], y * Fanout) <=> l <= y /\ y < h
    <3>1. Fanout > 0
      BY <1>1
    <3> TAKE y \in Nat
    <3> QED BY <1>1, <2>1, <2>2, <3>1, RunHas
  <2>4. ~ (l <= x /\ x < h)
    BY <1>7, <2>3
  <2>5. CASE h <= x
    <3>1. h * Fanout \in Nat /\ h * Fanout <= s
      BY <1>1, <1>7, <2>5, Multiples
    <3>2. h * Fanout + Fanout <= m /\ h * Fanout >= w
      BY <1>1, <1>7, <1>8, <2>1, <3>1
    <3>3. ~ Has(rows[1], h * Fanout)
      BY <2>3
    <3>4. h * Fanout \in MissingWindows(p)
      BY <1>1, <1>4, <3>2, <3>3 DEF Absent
    <3>5. s <= h * Fanout
      BY <1>6, <3>4
    <3> QED BY <1>7, <2>1, <3>1, <3>5
  <2>6. CASE x < l
    <3>1. l > 0 /\ l < h /\ Len(rows[1]) = h - l /\ Len(rows[1]) \in Nat
      BY <2>2, <2>6 DEF Run
    <3>2. Len(rows[1]) \in 1..Len(rows[1]) /\ l + Len(rows[1]) - 1 = h - 1 /\ h - 1 \in Nat
      BY <3>1
    <3>3. rows[1][Len(rows[1])].start = (h - 1) * Fanout
      BY <2>2, <3>2 DEF Run
    <3>4. x * Fanout <= (h - 1) * Fanout
      BY <1>1, <2>6, <3>1, <3>2, Multiples
    <3>5. 2 \in 1..Tiers /\ 1 + 1 = 2
      <4>1. Tiers # 1
        BY <1>8, <2>1, <3>1 DEF Laid
      <4> QED BY <1>1, <4>1
    <3>6. Nested(l, h, lo[2], hi[2])
      BY <1>1, <1>8, <2>1, <3>5 DEF Laid
    <3>7. PICK a, c \in Nat : a = lo[2] /\ c = hi[2]
      BY <3>5 DEF Indices
    <3>8. c > 0
      BY <3>1, <3>6, <3>7 DEF Nested
    <3>9. rows[2] \in Seq(Blocks) /\ Run(rows[2], Size(2), a, c) /\ Len(rows[2]) \in Nat
      BY <1>8, <3>5, <3>7, RowIs DEF Laid
    <3>10. 1 \in DOMAIN rows[2]
      <4>1. Len(rows[2]) = c - a /\ a < c
        BY <3>8, <3>9 DEF Run
      <4> QED BY <3>5, <3>9, <4>1, RowIs
    <3>11. rows[2][1].start \in Nat /\ rows[2][1].start + Size(2) <= m
      BY <1>3, <3>5, <3>10, RowIs DEF Genuine
    <3>12. Size(2) <= m
      <4>1. Size(2) \in Nat
        BY <3>5, SizeIs
      <4> QED BY <3>11, <4>1
    <3> QED BY <1>7, <2>1, <3>1, <3>3, <3>4, <3>12
  <2> QED BY <2>4, <2>5, <2>6
<1> QED BY <1>1, <1>2, <1>3, <1>7, <1>8

\* No window is missing: what the whole windows hold is covered, as far as the rows go.
LEMMA WindowsDone ==
    ASSUME NEW p, NEW E \in Seq(Nat), E = job[p].events, rows \in Files, Genuine(rows, E),
           job[p].mark \in Nat, MissingWindows(p) = {}, Covered(rows, E, Whole(job[p].mark))
    PROVE  /\ Covered(rows, E, Whole(Len(E)))
           /\ \A lo, hi \in Indices :
                Laid(rows, lo, hi) /\ Whole(job[p].mark) <= Fanout * hi[1] =>
                  Whole(Len(E)) <= Fanout * hi[1]
<1>1. Fanout \in Nat /\ Fanout >= 2 /\ Tiers \in Nat /\ 1 \in 1..Tiers /\ Size(1) = Fanout
    BY SizeIs
<1>2. PICK w \in Nat, v \in Nat : w = Whole(job[p].mark) /\ v = job[p].mark \div Fanout
                                  /\ w = v * Fanout
    BY WholeIs DEF Whole
<1>3. PICK m \in Nat : m = Len(E)
    BY LenProperties
<1>4. PICK u \in Nat, z \in Nat : u = Whole(m) /\ u <= m /\ u = z * Fanout
    BY WholeIs
<1>5. ASSUME NEW x \in Nat, v <= x, x < z
      PROVE  \E i \in DOMAIN rows[1] : rows[1][i].start = x * Fanout
  <2>1. x * Fanout \in Nat /\ x * Fanout >= w /\ x * Fanout + Fanout <= m
    <3>1. v * Fanout <= x * Fanout /\ x * Fanout \in Nat
      BY <1>1, <1>5, Multiples
    <3>2. x * Fanout + Fanout <= z * Fanout
      BY <1>1, <1>5, Multiples
    <3>3. PICK a \in Nat, b \in Nat, c \in Nat :
              a = x * Fanout /\ b = v * Fanout /\ c = z * Fanout
      BY <1>1, <1>2, <1>4, <1>5, <3>1
    <3>4. b <= a /\ a + Fanout <= c /\ w = b /\ c <= m
      BY <1>2, <1>4, <3>1, <3>2, <3>3
    <3>5. a >= w
      BY <3>3, <3>4
    <3>6. a + Fanout <= m
      BY <1>1, <1>3, <3>3, <3>4, SMTT(30)
    <3>7. a \in Nat
      BY <3>3
    <3> QED BY <3>3, <3>5, <3>6, <3>7
  <2>2. x * Fanout \notin Missing(p, 1)
    BY <1>2, <2>1 DEF MissingWindows, Whole
  <2>3. ~ Absent(rows[1], 1, m, x * Fanout)
    BY <1>1, <1>3, <2>2, MissingIs
  <2> QED BY <1>1, <2>1, <2>3 DEF Absent, Has
<1>6. Covered(rows, E, u)
  <2> SUFFICES ASSUME NEW n \in 1..u
               PROVE  \E k \in 1..Tiers : \E i \in DOMAIN rows[k] : Shows(rows[k][i], k, n, E[n])
    BY DEF Covered
  <2>1. CASE n <= w
    <3>1. n \in 1..w
      BY <1>4, <2>1
    <3> QED BY <1>2, <3>1 DEF Covered
  <2>2. CASE n > w
    <3>1. n - 1 \in Nat
      BY <1>4
    <3>2. PICK x \in Nat : x * Fanout <= n - 1 /\ n - 1 < x * Fanout + Fanout
      <4>1. PICK c \in Nat, x \in Nat : c = Whole(n - 1) /\ c = x * Fanout
                                        /\ c <= n - 1 /\ n - 1 < c + Fanout
        BY <3>1, WholeIs
      <4> QED BY <4>1
    <3>3. x * Fanout < z * Fanout /\ x * Fanout \in Nat
      <4>1. x * Fanout \in Nat
        BY <1>1
      <4>2. n - 1 < n /\ n <= u
        OBVIOUS
      <4> QED BY <1>4, <3>1, <3>2, <4>1, <4>2
    <3>4. x < z
      BY <1>1, <3>3, Multiples
    <3>5. v <= x
      <4>1. CASE x < v
        <5>1. x * Fanout + Fanout <= v * Fanout
          BY <1>1, <4>1, Multiples
        <5> QED BY <1>1, <1>2, <1>4, <2>2, <3>1, <3>2, <3>3, <5>1
      <4> QED BY <4>1
    <3>6. PICK i \in DOMAIN rows[1] : rows[1][i].start = x * Fanout
      BY <1>5, <3>4, <3>5
    <3>7. n \in Nat /\ rows[1][i].start < n /\ n <= rows[1][i].start + Size(1)
      BY <1>1, <1>4, <3>1, <3>2, <3>3, <3>6
    <3>8. Shows(rows[1][i], 1, n, E[n])
      BY <1>1, <3>7, GenuineShows
    <3> QED BY <1>1, <3>8
  <2> QED BY <1>2, <1>4, <2>1, <2>2
<1>7. ASSUME NEW lo \in Indices, NEW hi \in Indices, Laid(rows, lo, hi), w <= Fanout * hi[1]
      PROVE  u <= Fanout * hi[1]
  <2>1. PICK l, h \in Nat : l = lo[1] /\ h = hi[1]
    BY <1>1 DEF Indices
  <2>2. rows[1] \in Seq(Blocks) /\ Run(rows[1], Fanout, l, h)
    BY <1>1, <1>7, <2>1, RowIs DEF Laid
  <2>3. \A y \in Nat : Has(rows[1], y * Fanout) <=> l <= y /\ y < h
    <3>1. Fanout > 0
      BY <1>1
    <3> TAKE y \in Nat
    <3> QED BY <1>1, <2>1, <2>2, <3>1, RunHas
  <2>4. CASE z <= v
    <3>1. z * Fanout <= v * Fanout
      <4>1. Fanout \in Nat /\ Fanout > 0 /\ z \in Nat /\ v \in Nat
        BY <1>1, <1>2, <1>4
      <4> QED BY <2>4, <4>1, Multiples
    <3>2. Fanout * h \in Nat
      BY <1>1
    <3> QED BY <1>2, <1>4, <1>7, <2>1, <3>1, <3>2
  <2>5. CASE v < z
    <3>1. z - 1 \in Nat /\ v <= z - 1 /\ z - 1 < z
      BY <2>5
    <3>2. z - 1 < h
      <4>1. Has(rows[1], (z - 1) * Fanout)
        BY <1>5, <3>1 DEF Has
      <4> QED BY <2>3, <3>1, <4>1
    <3>3. z <= h
      BY <3>1, <3>2
    <3>4. z * Fanout <= h * Fanout
      BY <1>1, <3>3, Multiples
    <3>5. h * Fanout = Fanout * h
      BY <1>1
    <3> QED BY <1>4, <2>1, <3>4, <3>5
  <2> QED BY <2>4, <2>5
<1> QED BY <1>2, <1>3, <1>4, <1>6, <1>7

LEMMA InBounds ==
    ASSUME NEW R \in Files, NEW E \in Seq(Nat), NEW lo \in Indices, NEW hi \in Indices,
           Laid(R, lo, hi), Genuine(R, E), NEW k \in 1..Tiers
    PROVE  hi[k] * Size(k) <= Len(E)
<1>1. PICK l, h, S, m \in Nat : l = lo[k] /\ h = hi[k] /\ S = Size(k) /\ m = Len(E) /\ S > 0
    BY SizeIs, LenProperties DEF Indices
<1>2. R[k] \in Seq(Blocks) /\ Run(R[k], S, l, h)
    BY <1>1, RowIs DEF Laid
<1>3. CASE h = 0
    BY <1>1, <1>3
<1>4. CASE h > 0
  <2>1. l < h /\ Len(R[k]) = h - l
    BY <1>2, <1>4 DEF Run
  <2>2. h - l \in 1..Len(R[k]) /\ l + (h - l) - 1 = h - 1 /\ h - 1 \in Nat
    BY <2>1
  <2>3. R[k][h - l].start = (h - 1) * S
    BY <1>2, <2>2 DEF Run
  <2>4. R[k][h - l].start + S <= m
    BY <1>1, <2>2, RowIs DEF Genuine
  <2>6. PICK g \in Nat : g = h - 1 /\ h = g + 1
    BY <2>2
  <2>5. (h - 1 + 1) * S = (h - 1) * S + S /\ h - 1 + 1 = h
    <3>1. (g + 1) * S = g * S + S
      BY <1>1, Multiples
    <3> QED BY <2>6, <3>1
  <2> QED BY <1>1, <2>3, <2>4, <2>5
<1> QED BY <1>3, <1>4

\* The blocks of tier k that are missing and have all their children, by their numbers.
LEMMA CompleteIs ==
    ASSUME NEW p, NEW E \in Seq(Nat), E = job[p].events, rows \in Files,
           NEW lo \in Indices, NEW hi \in Indices, Laid(rows, lo, hi),
           NEW k \in 1..Tiers, k - 1 \in 1..Tiers
    PROVE  /\ \A t \in Complete(p, k) : \E x \in Nat : t = x * Size(k)
           /\ \A x \in Nat :
                x * Size(k) \in Complete(p, k) <=>
                   /\ x * Size(k) + Size(k) <= Len(E) /\ ~ (lo[k] <= x /\ x < hi[k])
                   /\ lo[k - 1] <= Fanout * x /\ Fanout * x + Fanout <= hi[k - 1]
<1>1. Fanout \in Nat /\ Fanout >= 2
    BY SizeIs
<1>2. PICK S \in Nat, z \in Nat : S = Size(k - 1) /\ z = Size(k) /\ S > 0 /\ z > 0 /\ z = Fanout * S
  <2>1. k - 1 + 1 = k
    OBVIOUS
  <2> QED BY <2>1, SizeIs
<1>3. PICK l, h, a, b \in Nat : l = lo[k] /\ h = hi[k] /\ a = lo[k - 1] /\ b = hi[k - 1]
    BY DEF Indices
<1>4. rows[k] \in Seq(Blocks) /\ Run(rows[k], z, l, h)
    BY <1>2, <1>3, RowIs DEF Laid
<1>5. rows[k - 1] \in Seq(Blocks) /\ Run(rows[k - 1], S, a, b)
    BY <1>2, <1>3, RowIs DEF Laid
<1>6. \A t : t \in Complete(p, k) <=>
          /\ Absent(rows[k], k, Len(E), t)
          /\ \A c \in 0..(Fanout - 1) : Has(rows[k - 1], t + c * S)
  <2> TAKE t
  <2>1. t \in Missing(p, k) <=> Absent(rows[k], k, Len(E), t)
    BY MissingIs
  <2> QED BY <1>2, <2>1 DEF Complete, Has
<1>7. ASSUME NEW x \in Nat
      PROVE  (\A c \in 0..(Fanout - 1) : Has(rows[k - 1], x * z + c * S))
               <=> a <= Fanout * x /\ Fanout * x + Fanout <= b
  <2>1. \A c \in 0..(Fanout - 1) : x * z + c * S = (Fanout * x + c) * S /\ Fanout * x + c \in Nat
    <3>1. PICK g \in Nat : g = Fanout * x /\ x * z = g * S
      BY <1>1, <1>2
    <3>2. \A c \in 0..(Fanout - 1) : g * S + c * S = (g + c) * S /\ g + c \in Nat
      BY <1>1, <1>2
    <3> QED BY <3>1, <3>2
  <2>2. \A y \in Nat : Has(rows[k - 1], y * S) <=> a <= y /\ y < b
    BY <1>2, <1>5, RunHas
  <2>3. \A c \in 0..(Fanout - 1) :
           Has(rows[k - 1], x * z + c * S) <=> a <= Fanout * x + c /\ Fanout * x + c < b
    BY <2>1, <2>2
  <2>4. PICK y \in Nat : y = Fanout * x
    BY <1>1
  <2>5. (\A c \in 0..(Fanout - 1) : a <= y + c /\ y + c < b) <=> a <= y /\ y + Fanout <= b
    <3>1. 0 \in 0..(Fanout - 1) /\ Fanout - 1 \in 0..(Fanout - 1)
      BY <1>1
    <3>2. ASSUME \A c \in 0..(Fanout - 1) : a <= y + c /\ y + c < b
          PROVE  a <= y /\ y + Fanout <= b
      <4>1. a <= y + 0 /\ y + (Fanout - 1) < b
        BY <3>1, <3>2
      <4> QED BY <1>1, <4>1
    <3>3. ASSUME a <= y, y + Fanout <= b, NEW c \in 0..(Fanout - 1)
          PROVE  a <= y + c /\ y + c < b
      BY <1>1, <3>3
    <3> QED BY <3>2, <3>3
  <2> QED BY <2>3, <2>4, <2>5
<1>8. ASSUME NEW x \in Nat
      PROVE  Absent(rows[k], k, Len(E), x * z) <=> x * z + z <= Len(E) /\ ~ (l <= x /\ x < h)
  <2>1. Has(rows[k], x * z) <=> l <= x /\ x < h
    BY <1>2, <1>4, RunHas
  <2> QED BY <1>2, <2>1 DEF Absent
<1>9. \A t \in Complete(p, k) : \E x \in Nat : t = x * z
    BY <1>2, <1>6 DEF Absent
<1>10. ASSUME NEW x \in Nat
       PROVE  x * z \in Complete(p, k) <=>
                 /\ x * z + z <= Len(E) /\ ~ (l <= x /\ x < h)
                 /\ a <= Fanout * x /\ Fanout * x + Fanout <= b
    BY <1>6, <1>7, <1>8
<1> QED BY <1>2, <1>3, <1>9, <1>10

LEMMA HigherPlace ==
    ASSUME NEW p, NEW E \in Seq(Nat), E = job[p].events, rows \in Files,
           NEW lo \in Indices, NEW hi \in Indices, Laid(rows, lo, hi),
           NEW k \in 1..Tiers, k - 1 \in 1..Tiers, Complete(p, k) # {},
           NEW s, s = Earliest(Complete(p, k))
    PROVE  /\ s \in Nat /\ s = hi[k] * Size(k) /\ s + Size(k) <= Len(E)
           /\ Fanout * hi[k] + Fanout <= hi[k - 1]
<1>1. Fanout \in Nat /\ Fanout >= 2
    BY SizeIs
<1>2. PICK z \in Nat, n \in Nat : z = Size(k) /\ n = Len(E) /\ z > 0
    BY SizeIs, LenProperties
<1>3. PICK l, h, a, b \in Nat : l = lo[k] /\ h = hi[k] /\ a = lo[k - 1] /\ b = hi[k - 1]
    BY DEF Indices
<1>4. /\ \A t \in Complete(p, k) : \E x \in Nat : t = x * z
      /\ \A x \in Nat : x * z \in Complete(p, k) <=>
                 /\ x * z + z <= n /\ ~ (l <= x /\ x < h)
                 /\ a <= Fanout * x /\ Fanout * x + Fanout <= b
  <2>1. /\ \A t \in Complete(p, k) : \E x \in Nat : t = x * Size(k)
        /\ \A x \in Nat : x * Size(k) \in Complete(p, k) <=>
                   /\ x * Size(k) + Size(k) <= Len(E) /\ ~ (lo[k] <= x /\ x < hi[k])
                   /\ lo[k - 1] <= Fanout * x /\ Fanout * x + Fanout <= hi[k - 1]
    BY CompleteIs
  <2> QED BY <1>2, <1>3, <2>1
<1>5. Complete(p, k) \in SUBSET Nat
  <2>1. \A x \in Nat : x * z \in Nat
    BY <1>2
  <2> QED BY <1>4, <2>1
<1>6. s \in Complete(p, k) /\ \A t \in Complete(p, k) : s <= t
    BY <1>5, EarliestIs
<1>7. PICK x \in Nat : s = x * z
    BY <1>4, <1>6
<1>8. /\ x * z + z <= n /\ ~ (l <= x /\ x < h) /\ s \in Nat
      /\ a <= Fanout * x /\ Fanout * x + Fanout <= b
    BY <1>4, <1>5, <1>6, <1>7
<1>9. Nested(a, b, l, h) /\ (h > 0 => l < h) /\ l <= h
  <2>1. k - 1 + 1 = k
    OBVIOUS
  <2> QED BY <1>3, <2>1 DEF Laid, Run
<1>10. h <= x
  <2> SUFFICES ASSUME x < l PROVE FALSE
    BY <1>8
  <2>1. h > 0 /\ Fanout * l <= a
    BY <1>9 DEF Nested
  <2>2. x * Fanout + Fanout <= l * Fanout
    BY <1>1, Multiples
  <2>3. PICK u, v \in Nat : u = Fanout * x /\ v = Fanout * l /\ x * Fanout = u /\ l * Fanout = v
    BY <1>1
  <2> QED BY <1>1, <1>8, <2>1, <2>2, <2>3
<1>11. PICK u, v \in Nat : u = Fanout * x /\ v = Fanout * h /\ v <= u
  <2>1. h * Fanout <= x * Fanout
    BY <1>1, <1>10, Multiples
  <2> QED BY <1>1, <2>1
<1>12. h * z \in Nat /\ h * z <= x * z
    BY <1>2, <1>10, Multiples
<1>13. h * z \in Complete(p, k)
  <2>4. PICK e, f \in Nat : e = h * z /\ f = x * z
    BY <1>7, <1>8, <1>12
  <2>5. e <= f /\ f + z <= n
    BY <1>8, <1>12, <2>4
  <2>1. h * z + z <= n
    <3>1. e + z <= n
      BY <1>2, <2>5
    <3> QED BY <2>4, <3>1
  <2>2. v + Fanout <= b
    BY <1>1, <1>8, <1>11
  <2>3. a <= v
    BY <1>1, <1>9, <1>11 DEF Nested
  <2> QED BY <1>4, <1>11, <2>1, <2>2, <2>3
<1>14. s = h * z
  <2>1. PICK e, f \in Nat : e = h * z /\ f = x * z
    BY <1>7, <1>8, <1>12
  <2>2. e <= f /\ f <= e
    BY <1>6, <1>7, <1>12, <1>13, <2>1
  <2> QED BY <1>7, <2>1, <2>2
<1>15. h = x
    BY <1>2, <1>7, <1>14, Multiples, SMTT(30)
<1> QED BY <1>2, <1>3, <1>7, <1>8, <1>15

\* No parent is missing: fewer than Fanout blocks follow the last parent's children.
LEMMA TierDone ==
    ASSUME NEW p, NEW E \in Seq(Nat), E = job[p].events, rows \in Files, Genuine(rows, E),
           NEW lo \in Indices, NEW hi \in Indices, Laid(rows, lo, hi),
           NEW k \in 1..Tiers, k - 1 \in 1..Tiers, Complete(p, k) = {}
    PROVE  hi[k - 1] < Fanout * hi[k] + Fanout
<1>1. Fanout \in Nat /\ Fanout >= 2
    BY SizeIs
<1>2. PICK S \in Nat, z \in Nat : S = Size(k - 1) /\ z = Size(k) /\ S > 0 /\ z > 0 /\ z = Fanout * S
  <2>1. k - 1 + 1 = k
    OBVIOUS
  <2> QED BY <2>1, SizeIs
<1>3. PICK l, h, a, b, n \in Nat : /\ l = lo[k] /\ h = hi[k] /\ a = lo[k - 1] /\ b = hi[k - 1]
                                   /\ n = Len(E)
    BY LenProperties DEF Indices
<1>4. ~ (/\ h * z + z <= n /\ ~ (l <= h /\ h < h)
         /\ a <= Fanout * h /\ Fanout * h + Fanout <= b)
    BY <1>2, <1>3, CompleteIs
<1>5. b * S <= n
    BY <1>2, <1>3, InBounds
<1>6. Nested(a, b, l, h)
  <2>1. k - 1 + 1 = k
    OBVIOUS
  <2> QED BY <1>3, <2>1 DEF Laid
<1>7. PICK v \in Nat : v = Fanout * h
    BY <1>1
<1>8. a <= v
    BY <1>1, <1>6, <1>7 DEF Nested
<1>9. ASSUME v + Fanout <= b PROVE FALSE
  <2>1. (v + Fanout) * S <= b * S /\ v + Fanout \in Nat
    <3>1. PICK g \in Nat : g = v + Fanout /\ g <= b
      BY <1>1, <1>9
    <3>2. g * S <= b * S
      BY <1>2, <3>1, Multiples
    <3> QED BY <3>1, <3>2
  <2>2. (v + Fanout) * S = h * z + z
    BY <1>1, <1>2, <1>7
  <2>3. (v + Fanout) * S \in Nat /\ b * S \in Nat
    BY <1>2, <2>1
  <2>4. h * z + z <= n
    BY <1>5, <2>1, <2>2, <2>3
  <2> QED BY <1>4, <1>7, <1>8, <1>9, <2>4
<1> QED BY <1>1, <1>3, <1>7, <1>9

-----------------------------------------------------------------------------
(* What compaction keeps *)

LEMMA WithinIs ==
    ASSUME NEW k \in 1..Tiers, NEW b, NEW c, NEW x \in Nat, NEW y \in Nat,
           b.start = x * Size(k), c.start = y * Size(k + 1)
    PROVE  Within(b, k, c) <=> Fanout * y <= x /\ x < Fanout * y + Fanout
<1>1. PICK F \in Nat, S \in Nat : F = Fanout /\ S = Size(k) /\ S > 0 /\ Size(k + 1) = F * S
    BY SizeIs
<1>2. PICK u \in Nat : u = F * y /\ y * (F * S) = u * S
    BY <1>1
<1>3. u * S <= x * S <=> u <= x
    BY <1>1, Multiples
<1>4. x * S + S = (x + 1) * S /\ u * S + F * S = (u + F) * S
    BY <1>1
<1>5. (x + 1) * S <= (u + F) * S <=> x + 1 <= u + F
    BY <1>1, Multiples
<1>6. Within(b, k, c) <=> u * S <= x * S /\ x * S + S <= u * S + F * S
    BY <1>1, <1>2 DEF Within
<1>7. x + 1 <= u + F <=> x < u + F
    BY <1>1
<1> QED BY <1>1, <1>2, <1>3, <1>4, <1>5, <1>6, <1>7

\* d rows of tier k go, each of them below the last parent and within one.
Drops(R, lo, hi, k, t, d) ==
    /\ d \in Nat /\ d <= Len(R[k]) /\ t \in Seq(Blocks) /\ Len(t) = Len(R[k]) - d
    /\ \A n \in 1..(Len(R[k]) - d) : t[n] = R[k][d + n]
    /\ \A i \in 1..d : \E j \in DOMAIN R[k + 1] : Within(R[k][i], k, R[k + 1][j])
    /\ IF hi[k + 1] = 0 THEN d = 0 ELSE lo[k] + d + Fanout = Fanout * hi[k + 1]

LEMMA KeptIs ==
    ASSUME rows \in Files, NEW lo \in Indices, NEW hi \in Indices, Laid(rows, lo, hi),
           NEW k \in 1..Tiers, k + 1 \in 1..Tiers
    PROVE  \E d : Drops(rows, lo, hi, k, Kept(k), d)
<1>1. PICK F \in Nat, S \in Nat : F = Fanout /\ F >= 2 /\ S = Size(k) /\ S > 0
    BY SizeIs
<1>2. PICK l, h, a, c \in Nat : l = lo[k] /\ h = hi[k] /\ a = lo[k + 1] /\ c = hi[k + 1]
    BY DEF Indices
<1>3. PICK q, r \in Seq(Blocks) : /\ q = rows[k] /\ r = rows[k + 1]
    BY RowIs
<1>4. Run(q, S, l, h) /\ Run(r, Size(k + 1), a, c) /\ Nested(l, h, a, c)
    BY <1>1, <1>2, <1>3 DEF Laid
<1>5. /\ Len(q) = h - l /\ l <= h /\ DOMAIN q = 1..Len(q) /\ Len(q) \in Nat
      /\ Len(r) = c - a /\ a <= c /\ DOMAIN r = 1..Len(r) /\ (c > 0 => a < c)
    BY <1>4, LenProperties DEF Run
<1>6. PICK w \in Nat : w = F * c
    BY <1>1
<1>7. PICK d \in Nat : d <= Len(q) /\ IF c = 0 THEN d = 0 ELSE l + d + F = w
  <2>1. CASE c = 0
    BY <1>5, <2>1
  <2>2. CASE c # 0
    <3>1. l + F <= w /\ w <= h
      BY <1>1, <1>4, <1>6, <2>2 DEF Nested
    <3>2. w - F - l \in Nat /\ w - F - l <= Len(q) /\ l + (w - F - l) + F = w
      BY <1>1, <1>5, <3>1
    <3> QED BY <2>2, <3>2
  <2> QED BY <2>1, <2>2
<1> DEFINE Covers(i, j) == Within(q[i], k, r[j])
<1>8. ASSUME NEW i \in 1..Len(q), NEW j \in 1..Len(r)
      PROVE  Covers(i, j) <=> F * (a + j - 1) <= l + i - 1 /\ l + i - 1 < F * (a + j - 1) + F
  <2>1. q[i].start = (l + i - 1) * S /\ r[j].start = (a + j - 1) * Size(k + 1)
    BY <1>4 DEF Run
  <2>2. l + i - 1 \in Nat /\ a + j - 1 \in Nat
    BY <1>5
  <2>3. Within(q[i], k, r[j]) <=>
           Fanout * (a + j - 1) <= l + i - 1 /\ l + i - 1 < Fanout * (a + j - 1) + Fanout
    BY <1>1, <2>1, <2>2, WithinIs
  <2> QED BY <1>1, <2>3
<1> HIDE DEF Covers
<1>9. ASSUME NEW i \in 1..Len(q), i <= d PROVE \E j \in 1..(Len(r) - 1) : Covers(i, j)
  <2>1. c # 0 /\ l + d + F = w
    BY <1>7, <1>9
  <2>2. PICK x \in Nat : x = l + i - 1 /\ x < l + d
    BY <1>9
  <2>3. PICK y \in Nat : F * y <= x /\ x < F * y + F
    <3>1. PICK u \in Nat, y \in Nat : u = Whole(x) /\ u = y * Fanout /\ u <= x /\ x < u + Fanout
      BY WholeIs
    <3>2. F * y = u
      BY <1>1, <3>1
    <3> QED BY <1>1, <3>1, <3>2
  <2>4. a <= y
    <3>1. F * a <= l
      BY <1>1, <1>4, <2>1 DEF Nested
    <3>2. F * a < F * y + F /\ F * y + F = F * (y + 1)
      <4>1. F * a \in Nat /\ F * y \in Nat
        BY <1>1
      <4> QED BY <1>1, <2>2, <2>3, <3>1, <4>1
    <3>3. a * F < (y + 1) * F
      BY <1>1, <3>2
    <3>4. a < y + 1
      BY <1>1, <3>3, Multiples
    <3> QED BY <3>4
  <2>5. y + 1 < c
    <3>1. F * y + F < w
      <4>1. F * y \in Nat
        BY <1>1
      <4> QED BY <1>1, <2>1, <2>2, <2>3, <4>1
    <3>2. (y + 1) * F < c * F
      BY <1>1, <1>6, <3>1
    <3> QED BY <1>1, <3>2, Multiples
  <2>6. y - a + 1 \in 1..(Len(r) - 1) /\ y - a + 1 \in 1..Len(r) /\ a + (y - a + 1) - 1 = y
    BY <1>5, <2>4, <2>5
  <2>7. Covers(i, y - a + 1)
    BY <1>8, <2>2, <2>3, <2>6
  <2> QED BY <2>6, <2>7
<1>10. ASSUME NEW i \in 1..Len(q), d < i, NEW j \in 1..(Len(r) - 1), Covers(i, j) PROVE FALSE
  <2>1. j \in 1..Len(r) /\ c # 0 /\ l + d + F = w
    BY <1>5, <1>7, <1>10
  <2>2. PICK y \in Nat : y = a + j - 1 /\ y + 2 <= c
    BY <1>5, <1>10
  <2>3. l + i - 1 < F * y + F
    BY <1>8, <1>10, <2>1, <2>2
  <2>4. (y + 2) * F <= c * F
    BY <1>1, <2>2, Multiples
  <2>5. PICK u \in Nat : u = F * y /\ (y + 2) * F = u + F + F
    BY <1>1
  <2>6. u + F + F <= w
    BY <1>1, <1>6, <2>4, <2>5
  <2> QED BY <1>1, <1>10, <2>1, <2>3, <2>5, <2>6
<1>11. PICK S2 : S2 = (d + 1)..Len(q)
    OBVIOUS
<1>12. {i \in DOMAIN q : ~ \E j \in 1..(Len(r) - 1) : Covers(i, j)} = S2
    BY <1>5, <1>9, <1>10, <1>11
<1>13. Kept(k) = Only(q, S2)
    BY <1>3, <1>12 DEF Kept, Covers
<1>14. PICK t : t = Only(q, (d + 1)..Len(q))
    OBVIOUS
<1>15. t \in Seq(Blocks) /\ Len(t) = Len(q) - d /\ \A n \in 1..(Len(q) - d) : t[n] = q[d + n]
    BY <1>7, <1>14, OnlySuffix
<1>16. \A i \in 1..d : \E j \in DOMAIN r : Within(q[i], k, r[j])
    BY <1>5, <1>7, <1>9, SMTT(30) DEF Covers
<1>17. Drops(rows, lo, hi, k, t, d)
    BY <1>1, <1>2, <1>3, <1>6, <1>7, <1>15, <1>16 DEF Drops
<1> QED BY <1>11, <1>13, <1>14, <1>17

-----------------------------------------------------------------------------
(* The invariant *)

Jobs == [events : Seq(Nat), gap : BOOLEAN, force : BOOLEAN, mark : Nat, fresh : BOOLEAN,
         tier : Nat, top : Nat]
Metas == [watermark : Nat, sealed : Seq(Nat)]

BuildSteps == {"idle", "load", "begin", "reset", "windows", "tier", "seal", "compact", "built",
               "assemble"}
Building == {"windows", "tier", "seal", "compact"}

\* Whoever drops or builds the index holds its lock, and works on dropped metadata when
\* it drops the rows.
IndexTypes ==
    /\ extent \in IndexScenes /\ source \in Seq(Nat) /\ Len(source) <= extent.events
    /\ drawn \in Nat /\ gap \in BOOLEAN
    /\ meta \in Metas \cup {NoMeta} /\ rows \in Files
    /\ bpc \in [Builders -> BuildSteps] /\ job \in [Builders -> Jobs]
    /\ \A p \in Builders : Len(job[p].events) <= extent.events
    /\ \A p \in Builders : bpc[p] \in Building \cup {"reset"} => indexLock = p
    /\ \A p \in Builders : bpc[p] = "reset" => meta = NoMeta /\ job[p].mark = 0 /\ job[p].fresh

\* What the metadata promise: the sealed events are covered, and unless the windows are
\* out of order the tiers are laid and reach as far.
Sound(m, R, lo, hi) ==
    m # NoMeta =>
        /\ Covered(R, m.sealed, Len(m.sealed))
        /\ Ordered(R[1]) => Laid(R, lo, hi) /\ Len(m.sealed) <= Fanout * hi[1]

\* Under a call at step b with locals j the tiers are laid and reach as far as the call
\* came; or windows went below rows that were compacted, which only happens when a call
\* was killed before it wrote the metadata, and is found when tier 2 is read.
Reaches(b, j, m, R, lo, hi) ==
    IF Ordered(R[1])
    THEN /\ Laid(R, lo, hi)
         /\ Whole(j.mark) <= Fanout * hi[1]
         /\ b # "windows" => Whole(Len(j.events)) <= Fanout * hi[1]
    ELSE /\ m # NoMeta /\ 2 \in 1..Tiers /\ Size(2) <= Len(j.events) /\ R[1] # <<>>
         /\ b = "windows" \/ (b = "tier" /\ j.tier = 2)

\* What the call loaded agrees with the metadata, or there are none and it starts anew.
Agrees(b, j, m, lo) ==
    /\ j.mark <= Len(j.events)
    /\ m # NoMeta => j.mark = m.watermark /\ m.sealed = Sealed(j.events, j.mark)
    /\ m = NoMeta => j.mark = 0 /\ j.fresh /\ (b = "windows" => lo[1] = 0)
    /\ j.force => m = NoMeta

\* The rows are blocks of the events the call loaded and cover what it sealed so far.
Holds(b, j, R) ==
    /\ Genuine(R, j.events) /\ Covered(R, j.events, Whole(j.mark))
    /\ b # "windows" => Covered(R, j.events, Whole(Len(j.events)))

\* Fewer than Fanout blocks of each of the first n tiers have no parent.
Parents(hi, n) == \A k \in 1..n : hi[k] < Fanout * hi[k + 1] + Fanout

\* The tiers below the one the call is at are sealed, or compacted, already.
AtTier(b, j, lo, hi) ==
    /\ b = "tier" => j.tier \in 2..(Tiers + 1) /\ Parents(hi, j.tier - 2)
    /\ b = "seal" => j.tier \in 2..Tiers /\ Parents(hi, j.tier - 2)
    /\ b = "compact" =>
         /\ j.top \in 1..Tiers /\ j.tier \in 1..j.top /\ Parents(hi, j.top - 1)
         /\ \A k \in 1..(j.tier - 1) : Settled(lo[k], hi[k + 1])
         /\ hi[j.top] < Fanout
         /\ \A k \in (j.top + 1)..Tiers : hi[k] = 0

\* All of it, for one call that builds.
Work(b, j, m, R, lo, hi) ==
    /\ Reaches(b, j, m, R, lo, hi) /\ Agrees(b, j, m, lo)
    /\ Holds(b, j, R) /\ AtTier(b, j, lo, hi)

\* What the bounds lo and hi of the tiers witness.
Upright(m, R, b, j, lo, hi) ==
    /\ Sound(m, R, lo, hi)
    /\ \A p \in Builders : b[p] \in Building => Work(b[p], j[p], m, R, lo, hi)

IndexInv ==
    IndexTypes /\ \E lo, hi \in Indices : Upright(meta, rows, bpc, job, lo, hi)

-----------------------------------------------------------------------------
(* Types and the lock *)

LEMMA NoJobIs == NoJob \in Jobs
<1>1. <<>> \in Seq(Nat)
    OBVIOUS
<1> QED BY <1>1 DEF NoJob, Jobs

LEMMA IndexTypesInit == ASSUME EpisodicInit PROVE IndexTypes
<1>1. source \in Seq(Nat) /\ Len(source) = 0 /\ extent.events \in Nat
    BY IndexScenesAssumption DEF EpisodicInit
<1>2. rows \in Files
  <2>1. <<>> \in Seq(Blocks)
    OBVIOUS
  <2> QED BY <2>1 DEF EpisodicInit, Files
<1>3. bpc \in [Builders -> BuildSteps] /\ job \in [Builders -> Jobs]
  <2>1. bpc = [p \in Builders |-> "idle"] /\ job = [p \in Builders |-> NoJob]
    BY DEF EpisodicInit
  <2>2. PICK e : e = NoJob
    OBVIOUS
  <2>3. e \in Jobs /\ job = [p \in Builders |-> e]
    BY NoJobIs, <2>1, <2>2
  <2>4. job \in [Builders -> Jobs]
    BY <2>3
  <2>5. bpc \in [Builders -> BuildSteps]
    BY <2>1 DEF BuildSteps
  <2> QED BY <2>4, <2>5
<1>4. ASSUME NEW p \in Builders PROVE Len(job[p].events) <= extent.events /\ bpc[p] = "idle"
  <2>1. job[p].events = <<>> /\ bpc[p] = "idle"
    BY DEF EpisodicInit, NoJob
  <2> QED BY <1>1, <2>1
<1>5. \A p \in Builders : bpc[p] \notin Building \cup {"reset"}
    BY <1>4 DEF Building
<1>6. /\ extent \in IndexScenes /\ drawn \in Nat /\ gap \in BOOLEAN
      /\ meta \in Metas \cup {NoMeta}
    BY DEF EpisodicInit
<1>7. Len(source) <= extent.events
    BY <1>1
<1> QED BY <1>1, <1>2, <1>3, <1>4, <1>5, <1>6, <1>7 DEF IndexTypes

\* Nothing but the source changes.
SourceOnly == UNCHANGED <<extent, meta, rows, gap, indexLock, bpc, job>>

LEMMA GrowsIs ==
    ASSUME IndexTypes, NEW n \in 1..extent.events, SourceGrows(n)
    PROVE  /\ source' \in Seq(Nat) /\ Len(source') = Len(source) + n /\ drawn' \in Nat
           /\ \A i \in 1..Len(source) : source'[i] = source[i]
<1>1. n \in Nat /\ drawn \in Nat /\ Len(source) \in Nat /\ source \in Seq(Nat)
    BY IndexScenesAssumption, LenProperties DEF IndexTypes
<1>2. PICK t : t = [i \in 1..n |-> drawn + i]
    OBVIOUS
<1>3. t \in Seq(Nat) /\ Len(t) = n
    BY <1>1, <1>2
<1>4. source' = source \o t /\ drawn' = drawn + n
    BY <1>2 DEF SourceGrows
<1>5. source' \in Seq(Nat) /\ Len(source') = Len(source) + n
      /\ \A i \in 1..Len(source) : source'[i] = source[i]
    BY <1>1, <1>3, <1>4, ConcatProperties
<1> QED BY <1>1, <1>4, <1>5

LEMMA ShrinksIs ==
    ASSUME IndexTypes, NEW n \in 1..extent.events, SourceShrinks(n)
    PROVE  source' \in Seq(Nat) /\ Len(source') = n
<1>1. n \in Nat /\ Len(source) \in Nat /\ source \in Seq(Nat) /\ 1 <= n
    BY IndexScenesAssumption, LenProperties DEF IndexTypes
<1>2. source' = SubSeq(source, 1, n) /\ n < Len(source)
    BY DEF SourceShrinks
<1>3. \A i \in 1..n : source[i] \in Nat
    BY <1>1, <1>2, ElementOfSeq
<1>4. source' \in Seq(Nat) /\ Len(source') = n - 1 + 1
    BY <1>1, <1>2, <1>3, SubSeqProperties
<1> QED BY <1>1, <1>4

LEMMA IndexTypesSource ==
    ASSUME IndexTypes, \E n \in 1..extent.events : SourceGrows(n) \/ SourceShrinks(n)
    PROVE  IndexTypes'
<1>1. PICK n \in 1..extent.events : SourceGrows(n) \/ SourceShrinks(n)
    OBVIOUS
<1>2. n \in Nat /\ extent.events \in Nat /\ Len(source) \in Nat
    BY IndexScenesAssumption, LenProperties DEF IndexTypes
<1>3. SourceOnly
    BY <1>1 DEF SourceGrows, SourceShrinks, SourceOnly, indexVars
<1>4. source' \in Seq(Nat) /\ drawn' \in Nat /\ Len(source') <= extent.events
  <2>1. CASE SourceGrows(n)
    BY <2>1, GrowsIs DEF SourceGrows
  <2>2. CASE SourceShrinks(n)
    <3>1. source' \in Seq(Nat) /\ Len(source') = n /\ drawn' = drawn
      BY <2>2, ShrinksIs DEF SourceShrinks
    <3> QED BY <3>1 DEF IndexTypes
  <2> QED BY <1>1, <2>1, <2>2
<1> QED BY <1>3, <1>4 DEF IndexTypes, SourceOnly

-----------------------------------------------------------------------------
(* How a step moves its call *)

\* p is at step b with locals j now, and every other call is where it was.
Moves(p, b, j) ==
    /\ bpc' \in [Builders -> BuildSteps] /\ job' \in [Builders -> Jobs]
    /\ bpc'[p] = b /\ job'[p] = j /\ Len(j.events) <= extent.events
    /\ \A q \in Builders : q # p => bpc'[q] = bpc[q] /\ job'[q] = job[q]

LEMMA MovesIs ==
    ASSUME IndexTypes, NEW p \in Builders, NEW b \in BuildSteps, NEW j \in Jobs,
           Len(j.events) <= extent.events,
           bpc' = [bpc EXCEPT ![p] = b], job' = [job EXCEPT ![p] = j]
    PROVE  Moves(p, b, j)
<1>1. bpc \in [Builders -> BuildSteps] /\ job \in [Builders -> Jobs]
    BY DEF IndexTypes
<1>2. bpc' \in [Builders -> BuildSteps] /\ bpc'[p] = b
      /\ \A q \in Builders : q # p => bpc'[q] = bpc[q]
    BY <1>1
<1>3. job' \in [Builders -> Jobs] /\ job'[p] = j
      /\ \A q \in Builders : q # p => job'[q] = job[q]
    BY <1>1
<1> QED BY <1>2, <1>3 DEF Moves

LEMMA JobIs ==
    ASSUME IndexTypes, NEW p \in Builders
    PROVE  /\ job[p] \in Jobs /\ bpc[p] \in BuildSteps /\ Len(job[p].events) <= extent.events
           /\ job[p].events \in Seq(Nat) /\ job[p].mark \in Nat /\ job[p].tier \in Nat
           /\ job[p].top \in Nat /\ Len(job[p].events) \in Nat
           /\ bpc = [bpc EXCEPT ![p] = bpc[p]] /\ job = [job EXCEPT ![p] = job[p]]
<1>1. job \in [Builders -> Jobs] /\ bpc \in [Builders -> BuildSteps]
      /\ Len(job[p].events) <= extent.events
    BY DEF IndexTypes
<1>2. job[p] \in Jobs /\ bpc[p] \in BuildSteps
    BY <1>1
<1>3. job[p].events \in Seq(Nat) /\ job[p].mark \in Nat /\ job[p].tier \in Nat
      /\ job[p].top \in Nat
    BY <1>2 DEF Jobs
<1>4. Len(job[p].events) \in Nat
    BY <1>3, LenProperties
<1>5. bpc = [bpc EXCEPT ![p] = bpc[p]]
    BY <1>1
<1>6. job = [job EXCEPT ![p] = job[p]]
    BY <1>1
<1> QED BY <1>1, <1>2, <1>3, <1>4, <1>5, <1>6

Outside == {"idle", "load", "begin", "built", "assemble"}

\* A step that leaves the index alone and ends outside of it.
Quiet(p) ==
    /\ Moves(p, bpc'[p], job'[p]) /\ bpc'[p] \in Outside
    /\ UNCHANGED <<extent, source, drawn, meta, rows>> /\ gap' \in BOOLEAN
    /\ \A q \in Builders : q # p /\ indexLock = q => indexLock' = q

\* A step of the lock's holder that ends in building; rows may change.
Builds(p, b, j) ==
    /\ Moves(p, b, j) /\ b \in Building
    /\ UNCHANGED <<extent, source, drawn, meta, gap>> /\ rows' \in Files
    /\ indexLock \in {p, Unlocked} /\ indexLock' = p

LEMMA QuietTypes ==
    ASSUME IndexTypes, NEW p \in Builders, Quiet(p)
    PROVE  IndexTypes'
<1>1. /\ bpc' \in [Builders -> BuildSteps] /\ job' \in [Builders -> Jobs]
      /\ bpc'[p] \in Outside /\ Len(job'[p].events) <= extent.events
      /\ \A q \in Builders : q # p => bpc'[q] = bpc[q] /\ job'[q] = job[q]
    BY DEF Quiet, Moves
<1>2. /\ extent' = extent /\ source' = source /\ drawn' = drawn /\ meta' = meta
      /\ rows' = rows /\ gap' \in BOOLEAN
    BY DEF Quiet
<1>3. \A q \in Builders : Len(job'[q].events) <= extent'.events
    BY <1>1, <1>2 DEF IndexTypes
<1>4. ASSUME NEW q \in Builders, bpc'[q] \in Building \cup {"reset"} PROVE indexLock' = q
  <2>1. q # p
    BY <1>1, <1>4 DEF Outside, Building
  <2>2. indexLock = q
    BY <1>1, <1>4, <2>1 DEF IndexTypes
  <2> QED BY <2>1, <2>2 DEF Quiet
<1>5. ASSUME NEW q \in Builders, bpc'[q] = "reset"
      PROVE  meta' = NoMeta /\ job'[q].mark = 0 /\ job'[q].fresh
  <2>1. q # p
    BY <1>1, <1>5 DEF Outside
  <2> QED BY <1>1, <1>2, <1>5, <2>1 DEF IndexTypes
<1>6. /\ extent' \in IndexScenes /\ source' \in Seq(Nat) /\ Len(source') <= extent'.events
      /\ drawn' \in Nat /\ meta' \in Metas \cup {NoMeta} /\ rows' \in Files
    BY <1>2 DEF IndexTypes
<1> QED BY <1>1, <1>2, <1>3, <1>4, <1>5, <1>6 DEF IndexTypes

LEMMA QuietKeeps ==
    ASSUME IndexInv, NEW p \in Builders, Quiet(p)
    PROVE  IndexInv'
<1>1. IndexTypes'
    BY QuietTypes DEF IndexInv
<1>2. PICK lo, hi \in Indices : Upright(meta, rows, bpc, job, lo, hi)
    BY DEF IndexInv
<1>3. meta' = meta /\ rows' = rows
    BY DEF Quiet
<1>4. ASSUME NEW q \in Builders, bpc'[q] \in Building
      PROVE  Work(bpc'[q], job'[q], meta', rows', lo, hi)
  <2>1. q # p
    BY <1>4 DEF Quiet, Outside, Building
  <2>2. bpc'[q] = bpc[q] /\ job'[q] = job[q]
    BY <2>1 DEF Quiet, Moves
  <2> QED BY <1>2, <1>3, <1>4, <2>2 DEF Upright
<1>5. Sound(meta', rows', lo, hi)
    BY <1>2, <1>3 DEF Upright
<1>6. Upright(meta', rows', bpc', job', lo, hi)
    BY <1>4, <1>5 DEF Upright
<1> QED BY <1>1, <1>6 DEF IndexInv

LEMMA BuildsTypes ==
    ASSUME IndexTypes, NEW p \in Builders, NEW b, NEW j, Builds(p, b, j)
    PROVE  /\ IndexTypes'
           /\ \A q \in Builders : bpc'[q] \in Building => q = p
<1>1. /\ bpc' \in [Builders -> BuildSteps] /\ job' \in [Builders -> Jobs]
      /\ bpc'[p] \in Building /\ Len(job'[p].events) <= extent.events
      /\ \A q \in Builders : q # p => bpc'[q] = bpc[q] /\ job'[q] = job[q]
    BY DEF Builds, Moves
<1>2. /\ extent' = extent /\ source' = source /\ drawn' = drawn /\ meta' = meta
      /\ rows' \in Files /\ gap' = gap /\ indexLock' = p /\ indexLock \in {p, Unlocked}
    BY DEF Builds
<1>3. \A q \in Builders : Len(job'[q].events) <= extent'.events
    BY <1>1, <1>2 DEF IndexTypes
<1>4. ASSUME NEW q \in Builders, q # p PROVE bpc'[q] \notin Building \cup {"reset"}
  <2>1. bpc[q] \in Building \cup {"reset"} => indexLock = q
    BY DEF IndexTypes
  <2>2. indexLock # q
    BY <1>2, <1>4, IndexScenesAssumption
  <2> QED BY <1>1, <1>4, <2>1, <2>2
<1>5. bpc'[p] # "reset"
    BY <1>1 DEF Building
<1>6. /\ extent' \in IndexScenes /\ source' \in Seq(Nat) /\ Len(source') <= extent'.events
      /\ drawn' \in Nat /\ meta' \in Metas \cup {NoMeta} /\ gap' \in BOOLEAN
    BY <1>2 DEF IndexTypes
<1>7. \A q \in Builders : bpc'[q] \in Building => q = p
    BY <1>4
<1> QED BY <1>1, <1>2, <1>3, <1>4, <1>5, <1>6, <1>7 DEF IndexTypes

\* The promise of the metadata is part of the work on them.
LEMMA WorkSound ==
    ASSUME NEW b, NEW j \in Jobs, NEW m \in Metas \cup {NoMeta}, NEW R \in Files,
           NEW lo \in Indices, NEW hi \in Indices, Work(b, j, m, R, lo, hi)
    PROVE  Sound(m, R, lo, hi)
<1> SUFFICES ASSUME m # NoMeta
             PROVE  /\ Covered(R, m.sealed, Len(m.sealed))
                    /\ Ordered(R[1]) => Laid(R, lo, hi) /\ Len(m.sealed) <= Fanout * hi[1]
    BY DEF Sound
<1>1. PICK E \in Seq(Nat), n \in Nat : E = j.events /\ n = j.mark
    BY DEF Jobs
<1>2. m.sealed = Sealed(E, n) /\ n <= Len(E)
    BY <1>1 DEF Work, Agrees
<1>3. Len(m.sealed) = Whole(n) /\ (Covered(R, m.sealed, Len(m.sealed)) <=> Covered(R, E, Whole(n)))
    BY <1>2, CoverSealed
<1>4. Covered(R, E, Whole(n))
    BY <1>1 DEF Work, Holds
<1>5. Ordered(R[1]) => Laid(R, lo, hi) /\ Whole(n) <= Fanout * hi[1]
    BY <1>1 DEF Work, Reaches
<1> QED BY <1>3, <1>4, <1>5

LEMMA BuildsKeep ==
    ASSUME IndexInv, NEW p \in Builders, NEW b, NEW j, Builds(p, b, j),
           NEW lo \in Indices, NEW hi \in Indices, Work(b, j, meta, rows', lo, hi)
    PROVE  IndexInv'
<1>1. IndexTypes' /\ \A q \in Builders : bpc'[q] \in Building => q = p
    BY BuildsTypes DEF IndexInv
<1>2. meta' = meta /\ bpc'[p] = b /\ job'[p] = j /\ job' \in [Builders -> Jobs]
      /\ rows' \in Files
    BY DEF Builds, Moves
<1>3. Work(bpc'[p], job'[p], meta', rows', lo, hi)
    BY <1>2
<1>4. Sound(meta', rows', lo, hi)
  <2>1. j \in Jobs /\ meta' \in Metas \cup {NoMeta}
    BY <1>1, <1>2 DEF IndexTypes
  <2>2. Work(b, j, meta', rows', lo, hi)
    BY <1>2
  <2> QED BY <1>2, <2>1, <2>2, WorkSound
<1>5. Upright(meta', rows', bpc', job', lo, hi)
    BY <1>1, <1>3, <1>4 DEF Upright
<1> QED BY <1>1, <1>5 DEF IndexInv

-----------------------------------------------------------------------------
(* The steps that leave the index alone *)

LEMMA QuietIs ==
    ASSUME IndexTypes, NEW p \in Builders, NEW b \in Outside, NEW j \in Jobs,
           Len(j.events) <= extent.events,
           bpc' = [bpc EXCEPT ![p] = b], job' = [job EXCEPT ![p] = j],
           UNCHANGED <<extent, source, drawn, meta, rows>>, gap' \in BOOLEAN,
           indexLock' \in {indexLock, Unlocked} /\ (indexLock' # indexLock => indexLock = p)
    PROVE  Quiet(p)
<1>1. b \in BuildSteps
    BY DEF Outside, BuildSteps
<1>2. Moves(p, b, j)
    BY <1>1, MovesIs
<1>3. bpc'[p] = b /\ job'[p] = j
    BY <1>2 DEF Moves
<1>4. \A q \in Builders : q # p /\ indexLock = q => indexLock' = q
    OBVIOUS
<1> QED BY <1>2, <1>3, <1>4 DEF Quiet

LEMMA NoJobFits ==
    ASSUME IndexTypes
    PROVE  NoJob \in Jobs /\ Len(NoJob.events) <= extent.events
<1>1. NoJob.events = <<>> /\ Len(<<>>) = 0
    BY DEF NoJob
<1>2. extent.events \in Nat
    BY IndexScenesAssumption DEF IndexTypes
<1> QED BY <1>1, <1>2, NoJobIs

LEMMA RaisesQuiet ==
    ASSUME IndexTypes, NEW p \in Builders, Raises(p)
    PROVE  Quiet(p)
<1>1. NoJob \in Jobs /\ "idle" \in Outside
    BY NoJobIs DEF Outside
<1>2. Len(NoJob.events) <= extent.events
    BY NoJobFits
<1>3. /\ bpc' = [bpc EXCEPT ![p] = "idle"] /\ job' = [job EXCEPT ![p] = NoJob]
      /\ UNCHANGED <<extent, source, drawn, meta, rows>> /\ gap' = gap
    BY DEF Raises, BuildGoto, sourceVars, indexVars
<1>4. indexLock' \in {indexLock, Unlocked} /\ (indexLock' # indexLock => indexLock = p)
    BY DEF Raises
<1>5. gap' \in BOOLEAN
    BY <1>3 DEF IndexTypes
<1> QED BY <1>1, <1>2, <1>3, <1>4, <1>5, QuietIs

LEMMA RepeatsQuiet ==
    ASSUME IndexTypes, NEW p \in Builders, Repeats(p)
    PROVE  Quiet(p)
<1>1. CASE job[p].force
    BY <1>1, RaisesQuiet DEF Repeats
<1>2. CASE ~ job[p].force
  <2>1. PICK j : j = [job[p] EXCEPT !.force = TRUE]
    OBVIOUS
  <2>2. j \in Jobs /\ j.events = job[p].events /\ "begin" \in Outside
    BY <2>1, JobIs DEF Jobs, Outside
  <2>3. /\ bpc' = [bpc EXCEPT ![p] = "begin"] /\ job' = [job EXCEPT ![p] = j]
        /\ UNCHANGED <<extent, source, drawn, meta, rows>> /\ gap' = gap
    BY <1>2, <2>1 DEF Repeats, BuildGoto, sourceVars, indexVars
  <2>4. indexLock' \in {indexLock, Unlocked} /\ (indexLock' # indexLock => indexLock = p)
    BY <1>2 DEF Repeats
  <2>5. gap' \in BOOLEAN /\ Len(j.events) <= extent.events
    BY <2>2, <2>3, JobIs DEF IndexTypes
  <2> QED BY <2>2, <2>3, <2>4, <2>5, QuietIs
<1> QED BY <1>1, <1>2

LEMMA LoadQuiet ==
    ASSUME IndexTypes, NEW p \in Builders, LoadBegin(p)
    PROVE  Quiet(p)
<1>1. PICK j : j = [NoJob EXCEPT !.events = source]
    OBVIOUS
<1>2. source \in Seq(Nat) /\ gap \in BOOLEAN /\ Len(source) <= extent.events
    BY DEF IndexTypes
<1>3. j \in Jobs /\ j.events = source /\ "load" \in Outside
    BY <1>1, <1>2, NoJobIs DEF Jobs, Outside
<1>4. /\ bpc' = [bpc EXCEPT ![p] = "load"] /\ job' = [job EXCEPT ![p] = j]
      /\ UNCHANGED <<extent, source, drawn, meta, rows>> /\ gap' = gap
      /\ indexLock' = indexLock
    BY <1>1 DEF LoadBegin, BuildGoto, sourceVars, indexVars
<1> QED BY <1>2, <1>3, <1>4, QuietIs

\* A load ends: the call begins, or it is over.
LEMMA LoadedIs ==
    ASSUME IndexTypes, NEW p \in Builders, LoadEnds(p) \/ LoadRefused(p)
    PROVE  /\ bpc[p] = "load"
           /\ UNCHANGED <<extent, source, drawn, shrinks, meta, rows, gap, indexLock, crossed,
                          raised>>
           /\ \/ bpc' = [bpc EXCEPT ![p] = "idle"] /\ job' = [job EXCEPT ![p] = NoJob]
              \/ \E j \in Jobs : /\ j.events = job[p].events
                                 /\ bpc' = [bpc EXCEPT ![p] = "begin"]
                                 /\ job' = [job EXCEPT ![p] = j]
<1>1. PICK j : j = [job[p] EXCEPT !.gap = gap]
    OBVIOUS
<1>2. j \in Jobs /\ j.events = job[p].events
  <2>1. job[p] \in Jobs
    BY JobIs
  <2>2. gap \in BOOLEAN
    BY DEF IndexTypes
  <2> QED BY <1>1, <2>1, <2>2 DEF Jobs
<1>3. \A b : Locally(p, b) => /\ bpc' = [bpc EXCEPT ![p] = b]
                             /\ UNCHANGED <<extent, source, drawn, shrinks, meta, rows, gap,
                                            indexLock, crossed, raised>>
    BY DEF Locally, BuildGoto, sourceVars, indexVars
<1>4. CASE job' = [job EXCEPT ![p] = NoJob] /\ Locally(p, "idle")
    BY <1>3, <1>4 DEF LoadEnds, LoadRefused
<1>5. CASE job' = [job EXCEPT ![p].gap = gap] /\ Locally(p, "begin")
  <2>1. job' = [job EXCEPT ![p] = j]
    BY <1>1, <1>5, JobIs DEF IndexTypes
  <2> QED BY <1>2, <1>3, <1>5, <2>1 DEF LoadEnds, LoadRefused
<1> QED BY <1>4, <1>5 DEF LoadEnds, LoadRefused

LEMMA LoadedQuiet ==
    ASSUME IndexTypes, NEW p \in Builders, LoadEnds(p) \/ LoadRefused(p)
    PROVE  Quiet(p)
<1>1. "idle" \in Outside /\ "begin" \in Outside /\ gap \in BOOLEAN
    BY DEF Outside, IndexTypes
<1>2. UNCHANGED <<extent, source, drawn, meta, rows>> /\ gap' = gap /\ indexLock' = indexLock
    BY LoadedIs
<1>3. CASE bpc' = [bpc EXCEPT ![p] = "idle"] /\ job' = [job EXCEPT ![p] = NoJob]
    BY <1>1, <1>2, <1>3, NoJobFits, QuietIs
<1>4. ASSUME NEW j \in Jobs, j.events = job[p].events, bpc' = [bpc EXCEPT ![p] = "begin"],
             job' = [job EXCEPT ![p] = j]
      PROVE  Quiet(p)
  <2>1. Len(j.events) <= extent.events
    BY <1>4, JobIs
  <2> QED BY <1>1, <1>2, <1>4, <2>1, QuietIs
<1> QED BY <1>3, <1>4, LoadedIs

\* BuildBegin, unless it goes on to build.
LEMMA BeginQuiet ==
    ASSUME IndexTypes, NEW p \in Builders, BuildBegin(p), indexLock' # p
    PROVE  Quiet(p)
<1>1. PICK mark : mark = IF meta = NoMeta THEN 0 ELSE meta.watermark
    OBVIOUS
<1>2. \/ /\ job' = [job EXCEPT ![p].gap = TRUE, ![p].force = TRUE]
         /\ Locally(p, "begin")
      \/ Raises(p) \/ Repeats(p)
    BY <1>1 DEF BuildBegin
<1>3. CASE /\ job' = [job EXCEPT ![p].gap = TRUE, ![p].force = TRUE]
           /\ Locally(p, "begin")
  <2>1. PICK j : j = [job[p] EXCEPT !.gap = TRUE, !.force = TRUE]
    OBVIOUS
  <2>2. j \in Jobs /\ j.events = job[p].events /\ "begin" \in Outside
    BY <2>1, JobIs DEF Jobs, Outside
  <2>3. job' = [job EXCEPT ![p] = j]
    BY <1>3, <2>1, JobIs DEF IndexTypes
  <2>4. /\ bpc' = [bpc EXCEPT ![p] = "begin"] /\ indexLock' = indexLock
        /\ UNCHANGED <<extent, source, drawn, meta, rows>> /\ gap' = gap
    BY <1>3 DEF Locally, BuildGoto, sourceVars, indexVars
  <2>5. gap' \in BOOLEAN /\ Len(j.events) <= extent.events
    BY <2>2, <2>4, JobIs DEF IndexTypes
  <2> QED BY <2>2, <2>3, <2>4, <2>5, QuietIs
<1> QED BY <1>2, <1>3, RaisesQuiet, RepeatsQuiet

LEMMA EndsQuiet ==
    ASSUME IndexTypes, NEW p \in Builders,
           BuildEnds(p) \/ WriteGap(p) \/ Assemble(p) \/ BuilderKilled(p)
    PROVE  Quiet(p)
<1>1. Len(NoJob.events) <= extent.events /\ NoJob \in Jobs
    BY NoJobFits
<1>2. gap \in BOOLEAN /\ job[p].gap \in BOOLEAN
    BY JobIs DEF IndexTypes, Jobs
<1>3. "idle" \in Outside /\ "assemble" \in Outside /\ "built" \in Outside
    BY DEF Outside
<1>4. CASE BuildEnds(p)
  <2>1. /\ bpc[p] = "built" /\ indexLock = p /\ indexLock' = Unlocked
        /\ bpc' = bpc /\ job' = job
        /\ UNCHANGED <<extent, source, drawn, meta, rows>> /\ gap' = gap
    BY <1>4 DEF BuildEnds, sourceVars, indexVars
  <2>2. bpc' = [bpc EXCEPT ![p] = "built"] /\ job' = [job EXCEPT ![p] = job[p]]
    BY <2>1, JobIs
  <2> QED BY <1>2, <1>3, <2>1, <2>2, JobIs, QuietIs
<1>5. CASE WriteGap(p)
  <2>1. /\ bpc' = [bpc EXCEPT ![p] = "assemble"] /\ job' = job /\ indexLock' = indexLock
        /\ UNCHANGED <<extent, source, drawn, meta, rows>> /\ gap' = (gap \/ job[p].gap)
    BY <1>5 DEF WriteGap, BuildGoto, sourceVars
  <2>2. job' = [job EXCEPT ![p] = job[p]]
    BY <2>1, JobIs
  <2>3. gap' \in BOOLEAN
    BY <1>2, <2>1
  <2> QED BY <1>3, <2>1, <2>2, <2>3, JobIs, QuietIs
<1>6. CASE Assemble(p) /\ ~ Raises(p)
  <2>1. /\ bpc' = [bpc EXCEPT ![p] = "idle"] /\ job' = [job EXCEPT ![p] = NoJob]
        /\ UNCHANGED <<extent, source, drawn, meta, rows>> /\ gap' = gap
        /\ indexLock' = indexLock
    BY <1>6 DEF Assemble, Locally, BuildGoto, sourceVars, indexVars
  <2> QED BY <1>1, <1>2, <1>3, <2>1, QuietIs
<1>7. CASE BuilderKilled(p)
  <2>1. /\ bpc' = [bpc EXCEPT ![p] = "idle"] /\ job' = [job EXCEPT ![p] = NoJob]
        /\ UNCHANGED <<extent, source, drawn, meta, rows>> /\ gap' = gap
        /\ indexLock' \in {indexLock, Unlocked} /\ (indexLock' # indexLock => indexLock = p)
    BY <1>7 DEF BuilderKilled, BuildGoto, sourceVars, indexVars
  <2> QED BY <1>1, <1>2, <1>3, <2>1, QuietIs
<1> QED BY <1>4, <1>5, <1>6, <1>7, RaisesQuiet

-----------------------------------------------------------------------------
(* The steps that build *)

LEMMA BuildsIs ==
    ASSUME IndexTypes, NEW p \in Builders, NEW b \in Building, NEW j \in Jobs,
           Len(j.events) <= extent.events,
           bpc' = [bpc EXCEPT ![p] = b], job' = [job EXCEPT ![p] = j],
           UNCHANGED <<extent, source, drawn, meta, gap>>, rows' \in Files,
           indexLock \in {p, Unlocked} /\ indexLock' = p
    PROVE  Builds(p, b, j)
<1>1. b \in BuildSteps
    BY DEF Building, BuildSteps
<1>2. Moves(p, b, j)
    BY <1>1, MovesIs
<1> QED BY <1>2 DEF Builds

LEMMA WorkIs ==
    ASSUME IndexInv, NEW p \in Builders, bpc[p] \in Building
    PROVE  /\ indexLock = p
           /\ \E lo, hi \in Indices : Work(bpc[p], job[p], meta, rows, lo, hi)
<1>1. PICK lo, hi \in Indices : Upright(meta, rows, bpc, job, lo, hi)
    BY DEF IndexInv
<1>2. Work(bpc[p], job[p], meta, rows, lo, hi)
    BY <1>1 DEF Upright
<1> QED BY <1>2 DEF IndexInv, IndexTypes

\* Nothing is dropped that is not there: an empty index is laid.
LEMMA WorkEmpty ==
    ASSUME NEW j \in Jobs, j.mark = 0, j.fresh, NEW R \in Files,
           \A k \in 1..Tiers : R[k] = <<>>
    PROVE  \E lo, hi \in Indices : Work("windows", j, NoMeta, R, lo, hi)
<1>1. PICK z \in Indices : Laid(R, z, z) /\ \A k \in 1..Tiers : z[k] = 0
    BY LaidEmpty
<1>2. 1 \in 1..Tiers /\ Fanout \in Nat /\ Fanout > 0
    BY SizeIs
<1>3. Ordered(R[1])
    BY <1>1, <1>2, LaidOrdered
<1>4. Whole(0) = 0
  <2>1. Whole(0) \in Nat /\ Whole(0) <= 0
    BY WholeIs
  <2> QED BY <2>1
<1>5. Reaches("windows", j, NoMeta, R, z, z)
  <2>1. z[1] = 0 /\ Fanout * 0 = 0
    BY <1>1, <1>2
  <2> QED BY <1>1, <1>3, <1>4, <2>1 DEF Reaches
<1>6. Agrees("windows", j, NoMeta, z)
  <2>1. Len(j.events) \in Nat
    BY LenProperties DEF Jobs
  <2> QED BY <1>1, <1>2, <2>1 DEF Agrees
<1>7. Holds("windows", j, R)
  <2>1. Genuine(R, j.events)
    BY DEF Genuine
  <2>2. Covered(R, j.events, Whole(j.mark))
    BY <1>4 DEF Covered
  <2> QED BY <2>1, <2>2 DEF Holds
<1>8. AtTier("windows", j, z, z)
    BY DEF AtTier
<1> QED BY <1>5, <1>6, <1>7, <1>8 DEF Work

\* A call finds a valid index under the lock.
LEMMA BeginBuilds ==
    ASSUME IndexInv, NEW p \in Builders, BuildBegin(p), indexLock' = p
    PROVE  IndexInv'
<1>1. IndexTypes
    BY DEF IndexInv
<1>2. PICK mark : mark = IF meta = NoMeta THEN 0 ELSE meta.watermark
    OBVIOUS
<1>3. PICK E \in Seq(Nat) : E = job[p].events
    BY <1>1, JobIs
<1>4. indexLock = Unlocked /\ ~ job[p].force /\ bpc[p] = "begin" /\ Unlocked # p
    BY IndexScenesAssumption DEF BuildBegin
<1>5. /\ mark <= Len(E) /\ Valid(E) /\ bpc' = [bpc EXCEPT ![p] = "windows"]
      /\ job' = [job EXCEPT ![p].mark = mark, ![p].fresh = (meta = NoMeta)]
      /\ UNCHANGED <<extent, source, drawn, meta, rows, gap>>
  <2>1. \/ Locally(p, "begin")
        \/ Raises(p) \/ Repeats(p)
        \/ /\ mark <= Len(E) /\ Valid(E) /\ BuildGoto(p, "windows")
           /\ job' = [job EXCEPT ![p].mark = mark, ![p].fresh = (meta = NoMeta)]
           /\ UNCHANGED <<sourceVars, indexVars, indexKills, crossed, raised>>
    BY <1>2, <1>3 DEF BuildBegin
  <2>2. ~ Locally(p, "begin")
    BY <1>4 DEF Locally
  <2>3. ~ Raises(p) /\ ~ Repeats(p)
    BY <1>4 DEF Raises, Repeats
  <2> QED BY <2>1, <2>2, <2>3 DEF BuildGoto, sourceVars, indexVars
<1>6. PICK j : j = [job[p] EXCEPT !.mark = mark, !.fresh = (meta = NoMeta)]
    OBVIOUS
<1>7. mark \in Nat
    BY <1>1, <1>2 DEF IndexTypes, Metas
<1>8. /\ j \in Jobs /\ j.events = E /\ j.mark = mark /\ j.fresh = (meta = NoMeta)
      /\ j.force = job[p].force
    BY <1>1, <1>3, <1>6, <1>7, JobIs DEF Jobs
<1>9. job' = [job EXCEPT ![p] = j]
    BY <1>1, <1>5, <1>6 DEF IndexTypes
<1>10. rows \in Files /\ rows' = rows /\ Len(j.events) <= extent.events
    BY <1>1, <1>3, <1>5, <1>8, JobIs DEF IndexTypes
<1>11. Builds(p, "windows", j)
  <2>1. "windows" \in Building
    BY DEF Building
  <2> QED BY <1>1, <1>4, <1>5, <1>8, <1>9, <1>10, <2>1, BuildsIs
<1>12. CASE meta = NoMeta
  <2>1. \A k \in 1..Tiers : rows[k] = <<>>
    BY <1>5, <1>12 DEF Valid
  <2>2. j.mark = 0 /\ j.fresh
    BY <1>2, <1>8, <1>12
  <2>3. PICK lo, hi \in Indices : Work("windows", j, NoMeta, rows, lo, hi)
    BY <1>8, <1>10, <2>1, <2>2, WorkEmpty
  <2> QED BY <1>10, <1>11, <1>12, <2>3, BuildsKeep
<1>13. CASE meta # NoMeta
  <2>1. mark = meta.watermark /\ ~ Changed(E) /\ RowsTrue(E)
    BY <1>2, <1>5, <1>13 DEF Valid
  <2>2. meta.sealed = Sealed(E, mark)
    BY <1>13, <2>1 DEF Changed
  <2>3. Genuine(rows, E) /\ Ordered(rows[1])
    <3>1. 1 \in 1..Tiers
      BY SizeIs
    <3> QED BY <2>1, <3>1 DEF RowsTrue, Genuine
  <2>4. PICK lo, hi \in Indices : Sound(meta, rows, lo, hi)
    BY DEF IndexInv, Upright
  <2>5. /\ Covered(rows, meta.sealed, Len(meta.sealed))
        /\ Laid(rows, lo, hi) /\ Len(meta.sealed) <= Fanout * hi[1]
    BY <1>13, <2>3, <2>4 DEF Sound
  <2>6. Len(meta.sealed) = Whole(mark) /\ Covered(rows, E, Whole(mark))
    BY <1>5, <1>7, <2>2, <2>5, CoverSealed
  <2>7. Reaches("windows", j, meta, rows, lo, hi)
    BY <1>8, <2>3, <2>5, <2>6 DEF Reaches
  <2>8. Agrees("windows", j, meta, lo)
    BY <1>4, <1>5, <1>8, <1>13, <2>1, <2>2 DEF Agrees
  <2>9. Holds("windows", j, rows) /\ AtTier("windows", j, lo, hi)
    BY <1>8, <2>3, <2>6 DEF Holds, AtTier
  <2>10. Work("windows", j, meta, rows', lo, hi)
    BY <1>10, <2>7, <2>8, <2>9 DEF Work
  <2> QED BY <1>11, <2>10, BuildsKeep
<1> QED BY <1>12, <1>13

LEMMA ResetEndsBuilds ==
    ASSUME IndexInv, NEW p \in Builders, ResetEnds(p)
    PROVE  IndexInv'
<1>1. IndexTypes
    BY DEF IndexInv
<1>2. /\ bpc[p] = "reset" /\ \A k \in 1..Tiers : rows[k] = <<>>
      /\ bpc' = [bpc EXCEPT ![p] = "windows"] /\ job' = job
      /\ UNCHANGED <<extent, source, drawn, meta, rows, gap, indexLock>>
    BY DEF ResetEnds, Locally, BuildGoto, sourceVars, indexVars
<1>3. indexLock = p /\ meta = NoMeta /\ job[p].mark = 0 /\ job[p].fresh
    BY <1>1, <1>2 DEF IndexTypes
<1>4. PICK j \in Jobs : j = job[p] /\ Len(j.events) <= extent.events
    BY <1>1, JobIs
<1>5. job' = [job EXCEPT ![p] = j] /\ rows \in Files /\ rows' = rows
    BY <1>1, <1>2, <1>4, JobIs DEF IndexTypes
<1>6. Builds(p, "windows", j)
  <2>1. "windows" \in Building
    BY DEF Building
  <2> QED BY <1>1, <1>2, <1>3, <1>4, <1>5, <2>1, BuildsIs
<1>7. PICK lo, hi \in Indices : Work("windows", j, NoMeta, rows, lo, hi)
    BY <1>2, <1>3, <1>4, <1>5, WorkEmpty
<1> QED BY <1>3, <1>5, <1>6, <1>7, BuildsKeep

\* AppendBlock as a step that builds.
LEMMA AppendBuilds ==
    ASSUME IndexTypes, NEW p \in Builders, bpc[p] \in Building, NEW k \in 1..Tiers,
           NEW s \in Nat, AppendBlock(p, k, s), s + Size(k) <= Len(job[p].events)
    PROVE  /\ Block(job[p].events, k, s) \in Blocks /\ Block(job[p].events, k, s).start = s
           /\ rows' = [rows EXCEPT ![k] = Append(@, Block(job[p].events, k, s))]
           /\ \E j \in Jobs : j = [job[p] EXCEPT !.fresh = TRUE] /\ Builds(p, bpc[p], j)
<1>1. PICK E \in Seq(Nat) : E = job[p].events
    BY JobIs
<1>2. PICK b \in Blocks : b = Block(E, k, s) /\ b.start = s
    BY <1>1, BlockIs
<1>3. /\ rows' = [rows EXCEPT ![k] = Append(@, b)]
      /\ job' = [job EXCEPT ![p].fresh = TRUE] /\ bpc' = bpc
      /\ UNCHANGED <<extent, source, drawn, meta, gap, indexLock>>
    BY <1>1, <1>2 DEF AppendBlock, sourceVars
<1>4. rows \in Files
    BY DEF IndexTypes
<1>5. rows' \in Files
  <2>1. Appended(rows', rows, k, b)
    BY <1>3, <1>4, AppendIs
  <2> QED BY <2>1 DEF Appended
<1>6. PICK j : j = [job[p] EXCEPT !.fresh = TRUE]
    OBVIOUS
<1>7. j \in Jobs /\ j.events = E /\ Len(j.events) <= extent.events
    BY <1>1, <1>6, JobIs DEF Jobs
<1>8. job' = [job EXCEPT ![p] = j] /\ bpc' = [bpc EXCEPT ![p] = bpc[p]]
    BY <1>3, <1>6, JobIs DEF IndexTypes
<1>9. indexLock = p /\ indexLock' = p
    BY <1>3 DEF IndexTypes
<1>10. Builds(p, bpc[p], j)
    BY <1>3, <1>5, <1>7, <1>8, <1>9, BuildsIs
<1> QED BY <1>1, <1>2, <1>3, <1>6, <1>7, <1>10

LEMMA HoldsGrows ==
    ASSUME NEW b, NEW i \in Jobs, NEW j \in Jobs, j.events = i.events, j.mark = i.mark,
           NEW R \in Files, Holds(b, i, R), NEW k \in 1..Tiers, NEW s \in Nat,
           s + Size(k) <= Len(i.events), NEW Q,
           Q = [R EXCEPT ![k] = Append(@, Block(i.events, k, s))]
    PROVE  Holds(b, j, Q)
<1>1. PICK E \in Seq(Nat) : E = i.events
    BY DEF Jobs
<1>2. PICK c \in Blocks : c = Block(E, k, s)
    BY <1>1, BlockIs
<1>3. Genuine(R, E)
    BY <1>1 DEF Holds
<1>4. Genuine(Q, E)
  <2>1. s + Size(k) <= Len(E) /\ Q = [R EXCEPT ![k] = Append(@, Block(E, k, s))]
    BY <1>1
  <2> QED BY <1>3, <2>1, GenuineGrows
<1>5. Q = [R EXCEPT ![k] = Append(@, c)]
    BY <1>1, <1>2
<1>6. \A m : Covered(R, E, m) => Covered(Q, E, m)
    BY <1>5, CoverGrows
<1> QED BY <1>1, <1>4, <1>6 DEF Holds

LEMMA SealWindowBuilds ==
    ASSUME IndexInv, NEW p \in Builders, SealWindow(p)
    PROVE  IndexInv'
<1>1. IndexTypes /\ rows \in Files
    BY DEF IndexInv, IndexTypes
<1>2. PICK s : s = Earliest(MissingWindows(p))
    OBVIOUS
<1>3. bpc[p] = "windows" /\ MissingWindows(p) # {} /\ AppendBlock(p, 1, s)
    BY <1>2 DEF SealWindow
<1>4. bpc[p] \in Building
    BY <1>3 DEF Building
<1>5. PICK lo, hi \in Indices : Work("windows", job[p], meta, rows, lo, hi)
    BY <1>3, <1>4, WorkIs
<1>6. PICK E \in Seq(Nat), i \in Jobs : i = job[p] /\ E = i.events
    BY <1>1, JobIs
<1>7. /\ Reaches("windows", i, meta, rows, lo, hi) /\ Agrees("windows", i, meta, lo)
      /\ Holds("windows", i, rows)
    BY <1>5, <1>6 DEF Work
<1>8. Genuine(rows, E) /\ job[p].mark \in Nat
    BY <1>1, <1>6, <1>7, JobIs DEF Holds
<1>9. s \in Nat /\ s + Size(1) <= Len(E)
    BY <1>1, <1>2, <1>3, <1>6, <1>8, WindowPlace
<1>10. 1 \in 1..Tiers /\ Fanout \in Nat
    BY SizeIs
<1>11. PICK b \in Blocks : b = Block(E, 1, s) /\ b.start = s
    BY <1>9, <1>10, BlockIs
<1>12. rows' = [rows EXCEPT ![1] = Append(@, b)]
    BY <1>1, <1>3, <1>4, <1>6, <1>9, <1>10, <1>11, AppendBuilds
<1>13. PICK j \in Jobs : j = [i EXCEPT !.fresh = TRUE] /\ Builds(p, "windows", j)
    BY <1>1, <1>3, <1>4, <1>6, <1>9, <1>10, AppendBuilds
<1>14. /\ j.events = E /\ j.mark = i.mark /\ j.fresh /\ j.force = i.force /\ j.tier = i.tier
    BY <1>6, <1>13 DEF Jobs
<1>15. Holds("windows", j, rows')
    BY <1>1, <1>6, <1>7, <1>9, <1>10, <1>11, <1>12, <1>14, HoldsGrows
<1>16. Agrees("windows", j, meta, lo)
    BY <1>6, <1>7, <1>14 DEF Agrees
<1>17. Appended(rows', rows, 1, b)
    BY <1>1, <1>10, <1>12, AppendIs
<1>18. rows' \in Files /\ rows'[1] = Append(rows[1], b) /\ rows[1] \in Seq(Blocks)
    BY <1>1, <1>10, <1>17, RowIs DEF Appended
<1>19. ASSUME NEW h \in Indices, Reaches("windows", j, meta, rows', lo, h) PROVE IndexInv'
  <2>1. AtTier("windows", j, lo, h)
    BY DEF AtTier
  <2>2. Work("windows", j, meta, rows', lo, h)
    BY <1>15, <1>16, <1>19, <2>1 DEF Work
  <2> QED BY <1>13, <2>2, BuildsKeep
<1>20. ASSUME ~ Ordered(rows'[1]), rows'[1] # <<>>, meta # NoMeta, 2 \in 1..Tiers,
              Size(2) <= Len(E)
       PROVE  IndexInv'
  <2>1. Reaches("windows", j, meta, rows', lo, hi)
    BY <1>14, <1>20 DEF Reaches
  <2> QED BY <1>19, <2>1
<1>21. CASE Ordered(rows[1])
  <2>1. Laid(rows, lo, hi) /\ Whole(i.mark) <= Fanout * hi[1]
    BY <1>7, <1>21 DEF Reaches
  <2>2. \/ s = hi[1] * Size(1)
        \/ /\ Size(2) <= Len(E) /\ lo[1] > 0
           /\ Len(rows[1]) > 0 /\ s <= rows[1][Len(rows[1])].start
    BY <1>1, <1>2, <1>3, <1>6, <1>8, <2>1, WindowPlace
  <2>3. CASE s = hi[1] * Size(1)
    <3>1. PICK h : h = Further(hi, 1)
      OBVIOUS
    <3>6. Follows(b, 1, hi)
      BY <1>11, <2>3 DEF Follows
    <3>2. h \in Indices /\ Laid(rows', lo, h)
      BY <1>1, <1>10, <1>17, <2>1, <3>1, <3>6, LaidSeals
    <3>3. Ordered(rows'[1])
      BY <1>10, <1>18, <3>2, LaidOrdered
    <3>4. Whole(j.mark) <= Fanout * h[1]
      <4>1. PICK x, w \in Nat : x = hi[1] /\ w = Whole(i.mark)
        BY <1>6, <1>8, <1>10, WholeIs DEF Indices
      <4>2. h[1] = x + 1
        BY <1>10, <3>1, <4>1 DEF Indices, Further
      <4>3. Fanout * (x + 1) = Fanout * x + Fanout /\ Fanout * x \in Nat
        BY <1>10
      <4>4. w <= Fanout * (x + 1)
        BY <1>10, <2>1, <4>1, <4>3
      <4> QED BY <1>14, <4>1, <4>2, <4>4
    <3>5. Reaches("windows", j, meta, rows', lo, h)
      BY <3>2, <3>3, <3>4 DEF Reaches
    <3> QED BY <1>19, <3>2, <3>5
  <2>4. CASE /\ Size(2) <= Len(E) /\ lo[1] > 0
             /\ Len(rows[1]) > 0 /\ s <= rows[1][Len(rows[1])].start
    <3>1. ~ Ordered(rows'[1]) /\ rows'[1] # <<>>
      BY <1>11, <1>18, <2>4, AppendOrder
    <3>2. meta # NoMeta
      BY <1>7, <2>4 DEF Agrees
    <3>3. 2 \in 1..Tiers
      <4>1. Tiers # 1
        BY <2>1, <2>4 DEF Laid
      <4> QED BY <4>1, SizeIs
    <3> QED BY <1>20, <2>4, <3>1, <3>2, <3>3
  <2> QED BY <2>2, <2>3, <2>4
<1>22. CASE ~ Ordered(rows[1])
  <2>1. ~ Ordered(rows'[1]) /\ rows'[1] # <<>>
    BY <1>18, <1>22, AppendOrder
  <2> QED BY <1>6, <1>7, <1>20, <1>22, <2>1 DEF Reaches
<1> QED BY <1>21, <1>22

LEMMA WindowsSealedBuilds ==
    ASSUME IndexInv, NEW p \in Builders, WindowsSealed(p)
    PROVE  IndexInv'
<1>1. IndexTypes /\ rows \in Files
    BY DEF IndexInv, IndexTypes
<1>2. /\ bpc[p] = "windows" /\ MissingWindows(p) = {}
      /\ bpc' = [bpc EXCEPT ![p] = "tier"] /\ job' = [job EXCEPT ![p].tier = 2]
      /\ UNCHANGED <<extent, source, drawn, meta, rows, gap, indexLock>>
    BY DEF WindowsSealed, Locally, BuildGoto, sourceVars, indexVars
<1>3. bpc[p] \in Building
    BY <1>2 DEF Building
<1>4. indexLock = p /\ \E lo, hi \in Indices : Work("windows", job[p], meta, rows, lo, hi)
    BY <1>2, <1>3, WorkIs
<1>5. PICK lo, hi \in Indices : Work("windows", job[p], meta, rows, lo, hi)
    BY <1>4
<1>6. PICK E \in Seq(Nat), i \in Jobs : i = job[p] /\ E = i.events /\ Len(E) <= extent.events
    BY <1>1, JobIs
<1>7. PICK j : j = [i EXCEPT !.tier = 2]
    OBVIOUS
<1>8. /\ j \in Jobs /\ j.events = E /\ j.mark = i.mark /\ j.fresh = i.fresh
      /\ j.force = i.force /\ j.tier = 2
    BY <1>6, <1>7 DEF Jobs
<1>9. job' = [job EXCEPT ![p] = j] /\ rows' = rows
    BY <1>1, <1>2, <1>6, <1>7 DEF IndexTypes
<1>10. Builds(p, "tier", j)
  <2>1. "tier" \in Building
    BY DEF Building
  <2> QED BY <1>1, <1>2, <1>4, <1>6, <1>8, <1>9, <2>1, BuildsIs
<1>11. /\ Reaches("windows", i, meta, rows, lo, hi) /\ Agrees("windows", i, meta, lo)
       /\ Holds("windows", i, rows)
    BY <1>5, <1>6 DEF Work
<1>12. Genuine(rows, E) /\ Covered(rows, E, Whole(i.mark)) /\ i.mark \in Nat
    BY <1>6, <1>11 DEF Holds, Jobs
<1>13. /\ Covered(rows, E, Whole(Len(E)))
       /\ Laid(rows, lo, hi) /\ Whole(i.mark) <= Fanout * hi[1] => Whole(Len(E)) <= Fanout * hi[1]
    BY <1>1, <1>2, <1>6, <1>12, WindowsDone
<1>14. Reaches("tier", j, meta, rows, lo, hi)
    BY <1>6, <1>8, <1>11, <1>13 DEF Reaches
<1>15. Agrees("tier", j, meta, lo)
    BY <1>6, <1>8, <1>11 DEF Agrees
<1>16. Holds("tier", j, rows)
    BY <1>6, <1>8, <1>12, <1>13 DEF Holds
<1>17. AtTier("tier", j, lo, hi)
  <2>1. 2 \in 2..(Tiers + 1) /\ 1..(2 - 2) = {}
    BY SizeIs
  <2> QED BY <1>8, <2>1 DEF AtTier, Parents
<1>18. Work("tier", j, meta, rows', lo, hi)
    BY <1>9, <1>14, <1>15, <1>16, <1>17 DEF Work
<1> QED BY <1>10, <1>18, BuildsKeep

\* Where the loop over the tiers ends.
LEMMA TopIs ==
    ASSUME NEW R \in Files, NEW E \in Seq(Nat), NEW lo \in Indices, NEW hi \in Indices,
           Laid(R, lo, hi), Genuine(R, E), NEW k \in 2..(Tiers + 1),
           Size(k) > Len(E) \/ R[k - 1] = <<>>
    PROVE  hi[k - 1] < Fanout /\ \A z \in k..Tiers : hi[z] = 0
<1>1. Fanout \in Nat /\ Fanout >= 2 /\ Tiers \in Nat /\ k - 1 \in 1..Tiers /\ k - 1 + 1 = k
    BY SizeIs
<1>2. PICK S \in Nat : S = Size(k - 1) /\ S > 0 /\ Size(k) = Fanout * S
    BY <1>1, SizeIs
<1>3. PICK g, l \in Nat : g = hi[k - 1] /\ l = lo[k - 1]
    BY <1>1 DEF Indices
<1>4. PICK n \in Nat : n = Len(E)
    BY LenProperties
<1>5. CASE g = 0
  <2>1. ASSUME NEW z \in k..Tiers PROVE hi[z] = 0
    <3>1. z \in 1..Tiers /\ k - 1 < z
      BY <1>1
    <3> QED BY <1>1, <1>3, <1>5, <3>1 DEF Laid
  <2> QED BY <1>1, <1>3, <1>5, <2>1
<1>6. CASE g > 0
  <2>1. Run(R[k - 1], S, l, g) /\ Len(R[k - 1]) \in Nat
    BY <1>1, <1>2, <1>3, RowIs DEF Laid
  <2>2. R[k - 1] # <<>>
    <3>1. Len(R[k - 1]) # 0
      BY <1>6, <2>1 DEF Run
    <3> QED BY <3>1
  <2>3. Fanout * S > n
    BY <1>2, <1>4, <2>2
  <2>4. g * S <= n
    BY <1>1, <1>2, <1>3, <1>4, InBounds
  <2>5. g < Fanout
    <3>1. g * S \in Nat /\ Fanout * S \in Nat
      BY <1>1
    <3>2. g * S < Fanout * S
      BY <1>4, <2>3, <2>4, <3>1
    <3> QED BY <1>1, <1>2, <3>2, Multiples
  <2>6. ASSUME NEW z \in k..Tiers PROVE hi[z] = 0
    <3>1. k \in 1..Tiers /\ z \in 1..Tiers /\ (k < z \/ k = z)
      BY <1>1
    <3>2. PICK h \in Nat : h = hi[k]
      BY <3>1 DEF Indices
    <3>3. h * Size(k) <= n
      BY <1>4, <3>1, <3>2, InBounds
    <3>4. h = 0
      <4>1. PICK u \in Nat : u = Fanout * S /\ u > n
        BY <1>1, <2>3
      <4>2. CASE h > 0
        <5>1. h * u >= u
          BY <4>2
        <5>2. h * u \in Nat /\ h * u <= n
          BY <1>2, <3>3, <4>1
        <5> QED BY <1>4, <4>1, <5>1, <5>2
      <4> QED BY <4>2
    <3> QED BY <3>1, <3>2, <3>4 DEF Laid
  <2> QED BY <1>3, <2>5, <2>6
<1> QED BY <1>5, <1>6

\* A tier that is read is one of the tiers.
LEMMA TierIs ==
    ASSUME IndexTypes, NEW p \in Builders, NEW k \in 2..(Tiers + 1),
           Size(k) <= Len(job[p].events)
    PROVE  k \in 1..Tiers
<1>1. Tiers \in Nat /\ extent \in IndexScenes
    BY SizeIs DEF IndexTypes
<1>2. extent.events \in Nat /\ extent.events < Size(Tiers + 1)
    BY <1>1, IndexScenesAssumption DEF Size
<1>3. Len(job[p].events) <= extent.events /\ Len(job[p].events) \in Nat
    BY JobIs
<1>4. CASE k = Tiers + 1
  <2>1. Size(Tiers + 1) \in Nat
    <3>1. Tiers \in 1..Tiers
      BY SizeIs
    <3> QED BY <3>1, SizeIs
  <2> QED BY <1>2, <1>3, <1>4, <2>1
<1> QED BY <1>1, <1>4

\* Rows out of order are only read in tier 2; nothing below the top is out of order then.
LEMMA EnterTierBuilds ==
    ASSUME IndexInv, NEW p \in Builders, EnterTier(p)
    PROVE  /\ IndexInv'
           /\ Repeats(p) => ~ job[p].force
           /\ bpc'[p] = "built" => meta # NoMeta /\ \A k \in 1..Tiers : Ordered(rows[k])
<1>1. IndexTypes /\ rows \in Files
    BY DEF IndexInv, IndexTypes
<1>2. bpc[p] = "tier" /\ bpc[p] \in Building
    BY DEF EnterTier, Building
<1>3. indexLock = p /\ \E lo, hi \in Indices : Work("tier", job[p], meta, rows, lo, hi)
    BY <1>2, WorkIs
<1>4. PICK lo, hi \in Indices : Work("tier", job[p], meta, rows, lo, hi)
    BY <1>3
<1>5. PICK E \in Seq(Nat), i \in Jobs : i = job[p] /\ E = i.events /\ Len(E) <= extent.events
    BY <1>1, JobIs
<1>6. /\ Reaches("tier", i, meta, rows, lo, hi) /\ Agrees("tier", i, meta, lo)
      /\ Holds("tier", i, rows) /\ AtTier("tier", i, lo, hi)
    BY <1>4, <1>5 DEF Work
<1>7. PICK k \in 2..(Tiers + 1) : k = i.tier /\ Parents(hi, k - 2)
    BY <1>6 DEF AtTier
<1>8. Tiers \in Nat /\ k \in Nat /\ k >= 2
    BY SizeIs
<1>9. Genuine(rows, E)
    BY <1>5, <1>6 DEF Holds
<1>10. PICK n \in Nat : n = Len(E)
    BY LenProperties
<1>11. Ordered(rows[1]) => /\ Laid(rows, lo, hi) /\ Whole(i.mark) <= Fanout * hi[1]
                           /\ Whole(n) <= Fanout * hi[1]
                           /\ \A y \in 1..Tiers : Ordered(rows[y])
  <2>1. Ordered(rows[1]) => /\ Laid(rows, lo, hi) /\ Whole(i.mark) <= Fanout * hi[1]
                            /\ Whole(n) <= Fanout * hi[1]
    BY <1>5, <1>6, <1>10 DEF Reaches
  <2> QED BY <1>1, <2>1, LaidOrdered
<1>12. ~ Ordered(rows[1]) => k = 2 /\ meta # NoMeta /\ Size(2) <= n /\ rows[1] # <<>>
    BY <1>5, <1>6, <1>7, <1>10 DEF Reaches
<1>13. Size(k) \in Nat
  <2>1. k - 1 \in 1..Tiers /\ k - 1 + 1 = k
    BY <1>8
  <2> QED BY <2>1, SizeIs
<1>14. CASE /\ Size(k) > n \/ rows[k - 1] = <<>>
            /\ job' = [job EXCEPT ![p].top = k - 1, ![p].tier = 1]
            /\ Locally(p, IF job[p].fresh \/ job[p].mark # n THEN "compact" ELSE "built")
  <2>1. Ordered(rows[1])
    <3>1. SUFFICES ASSUME ~ Ordered(rows[1]) PROVE FALSE
      OBVIOUS
    <3>2. k = 2 /\ Size(k) <= n /\ rows[k - 1] # <<>>
      BY <1>12, <3>1
    <3> QED BY <1>10, <1>13, <1>14, <3>2
  <2>2. PICK j : j = [i EXCEPT !.top = k - 1, !.tier = 1]
    OBVIOUS
  <2>3. k - 1 \in Nat /\ k - 1 \in 1..Tiers
    BY <1>8
  <2>4. /\ j \in Jobs /\ j.events = E /\ j.mark = i.mark /\ j.fresh = i.fresh
        /\ j.force = i.force /\ j.tier = 1 /\ j.top = k - 1
    BY <1>5, <2>2, <2>3 DEF Jobs
  <2>5. job' = [job EXCEPT ![p] = j]
    BY <1>1, <1>5, <1>14, <2>2 DEF IndexTypes
  <2>6. /\ UNCHANGED <<extent, source, drawn, meta, rows, gap, indexLock>>
        /\ rows' = rows /\ gap \in BOOLEAN
    BY <1>1, <1>14 DEF Locally, sourceVars, indexVars, IndexTypes
  <2>7. CASE i.fresh \/ i.mark # n
    <3>1. bpc' = [bpc EXCEPT ![p] = "compact"]
      BY <1>5, <1>14, <2>7 DEF Locally, BuildGoto
    <3>2. "compact" \in Building
      BY DEF Building
    <3>3. Builds(p, "compact", j)
      BY <1>1, <1>3, <1>5, <2>4, <2>5, <2>6, <3>1, <3>2, BuildsIs
    <3>4. hi[k - 1] < Fanout /\ \A z \in k..Tiers : hi[z] = 0
      BY <1>1, <1>9, <1>10, <1>11, <1>14, <2>1, TopIs
    <3>5. AtTier("compact", j, lo, hi)
      <4>1. k - 1 - 1 = k - 2 /\ k - 1 + 1 = k /\ 1..(1 - 1) = {} /\ 1 \in 1..(k - 1)
        BY <1>8
      <4> QED BY <1>7, <2>3, <2>4, <3>4, <4>1 DEF AtTier
    <3>6. Reaches("compact", j, meta, rows, lo, hi)
      BY <1>10, <1>11, <2>1, <2>4 DEF Reaches
    <3>7. Agrees("compact", j, meta, lo) /\ Holds("compact", j, rows)
      BY <1>5, <1>6, <2>4 DEF Agrees, Holds
    <3>8. Work("compact", j, meta, rows', lo, hi)
      BY <2>6, <3>5, <3>6, <3>7 DEF Work
    <3>9. IndexInv'
      BY <3>3, <3>8, BuildsKeep
    <3>10. bpc'[p] = "compact"
      BY <3>3 DEF Builds, Moves
    <3>11. ~ Repeats(p)
      <4>1. Repeats(p) => Quiet(p)
        BY <1>1, RepeatsQuiet
      <4> QED BY <3>10, <4>1 DEF Quiet, Outside
    <3> QED BY <3>9, <3>10, <3>11
  <2>8. CASE ~ (i.fresh \/ i.mark # n)
    <3>1. bpc' = [bpc EXCEPT ![p] = "built"]
      BY <1>5, <1>14, <2>8 DEF Locally, BuildGoto
    <3>2. "built" \in Outside
      BY DEF Outside
    <3>3. Quiet(p)
      BY <1>1, <1>5, <2>4, <2>5, <2>6, <3>1, <3>2, QuietIs
    <3>4. meta # NoMeta
      BY <1>6, <2>8 DEF Agrees
    <3>5. ~ Repeats(p)
      <4>1. bpc'[p] = "built"
        BY <1>1, <3>1 DEF IndexTypes
      <4>2. Repeats(p) => bpc'[p] \in {"idle", "begin"}
        BY <1>1 DEF Repeats, Raises, BuildGoto, IndexTypes
      <4> QED BY <4>1, <4>2
    <3> QED BY <1>11, <2>1, <3>3, <3>4, <3>5, QuietKeeps
  <2> QED BY <2>7, <2>8
<1>15. CASE /\ Size(k) <= n /\ rows[k - 1] # <<>>
            /\ Ordered(rows[k - 1]) /\ Ordered(rows[k])
            /\ job' = job /\ Locally(p, "seal")
  <2>1. Ordered(rows[1])
    <3>1. k = 2 => k - 1 = 1
      OBVIOUS
    <3> QED BY <1>12, <1>15, <3>1
  <2>2. k \in 1..Tiers
    BY <1>1, <1>5, <1>10, <1>15, TierIs
  <2>3. /\ bpc' = [bpc EXCEPT ![p] = "seal"] /\ job' = [job EXCEPT ![p] = i]
        /\ UNCHANGED <<extent, source, drawn, meta, rows, gap, indexLock>>
        /\ rows' = rows
    BY <1>1, <1>5, <1>15, JobIs DEF Locally, BuildGoto, sourceVars, indexVars
  <2>4. Builds(p, "seal", i)
    <3>1. "seal" \in Building
      BY DEF Building
    <3> QED BY <1>1, <1>3, <1>5, <2>3, <3>1, BuildsIs
  <2>5. AtTier("seal", i, lo, hi)
    <3>1. k \in 2..Tiers
      BY <1>8, <2>2
    <3> QED BY <1>7, <3>1 DEF AtTier
  <2>6. Reaches("seal", i, meta, rows, lo, hi)
    BY <1>5, <1>10, <1>11, <2>1 DEF Reaches
  <2>7. Agrees("seal", i, meta, lo) /\ Holds("seal", i, rows)
    BY <1>6 DEF Agrees, Holds
  <2>8. Work("seal", i, meta, rows', lo, hi)
    BY <2>3, <2>5, <2>6, <2>7 DEF Work
  <2>9. bpc'[p] = "seal"
    BY <2>4 DEF Builds, Moves
  <2>10. ~ Repeats(p)
    <3>1. Repeats(p) => Quiet(p)
      BY <1>1, RepeatsQuiet
    <3> QED BY <2>9, <3>1 DEF Quiet, Outside
  <2> QED BY <2>4, <2>8, <2>9, <2>10, BuildsKeep
<1>16. CASE /\ Size(k) <= n /\ ~(Ordered(rows[k - 1]) /\ Ordered(rows[k]))
            /\ Repeats(p)
  <2>1. k \in 1..Tiers /\ k - 1 \in 1..Tiers
    <3>1. k \in 1..Tiers
      BY <1>1, <1>5, <1>10, <1>16, TierIs
    <3> QED BY <1>8, <3>1
  <2>2. ~ Ordered(rows[1])
    BY <1>11, <1>16, <2>1
  <2>3. ~ job[p].force
    BY <1>5, <1>6, <1>12, <2>2 DEF Agrees
  <2>4. Quiet(p)
    BY <1>1, <1>16, RepeatsQuiet
  <2>5. bpc'[p] \in {"idle", "begin"}
    BY <1>1, <1>16 DEF Repeats, Raises, BuildGoto, IndexTypes
  <2> QED BY <2>3, <2>4, <2>5, QuietKeeps
<1>17. \/ /\ Size(k) > n \/ rows[k - 1] = <<>>
          /\ job' = [job EXCEPT ![p].top = k - 1, ![p].tier = 1]
          /\ Locally(p, IF job[p].fresh \/ job[p].mark # n THEN "compact" ELSE "built")
       \/ /\ Size(k) <= n /\ rows[k - 1] # <<>>
          /\ Ordered(rows[k - 1]) /\ Ordered(rows[k])
          /\ job' = job /\ Locally(p, "seal")
       \/ /\ Size(k) <= n /\ ~(Ordered(rows[k - 1]) /\ Ordered(rows[k]))
          /\ Repeats(p)
    BY <1>5, <1>7, <1>10 DEF EnterTier
<1> QED BY <1>14, <1>15, <1>16, <1>17

LEMMA SealHigherBuilds ==
    ASSUME IndexInv, NEW p \in Builders, SealHigher(p)
    PROVE  IndexInv'
<1>1. IndexTypes /\ rows \in Files
    BY DEF IndexInv, IndexTypes
<1>2. PICK E \in Seq(Nat), i \in Jobs : i = job[p] /\ E = i.events
    BY <1>1, JobIs
<1>3. PICK k : k = i.tier
    OBVIOUS
<1>4. PICK s : s = Earliest(Complete(p, k))
    OBVIOUS
<1>5. bpc[p] = "seal" /\ Complete(p, k) # {} /\ AppendBlock(p, k, s)
    BY <1>2, <1>3, <1>4 DEF SealHigher
<1>6. bpc[p] \in Building
    BY <1>5 DEF Building
<1>7. PICK lo, hi \in Indices : Work("seal", i, meta, rows, lo, hi)
    BY <1>2, <1>5, <1>6, WorkIs
<1>8. /\ Reaches("seal", i, meta, rows, lo, hi) /\ Agrees("seal", i, meta, lo)
      /\ Holds("seal", i, rows) /\ AtTier("seal", i, lo, hi)
    BY <1>7 DEF Work
<1>9. /\ Ordered(rows[1]) /\ Laid(rows, lo, hi)
      /\ Whole(i.mark) <= Fanout * hi[1] /\ Whole(Len(E)) <= Fanout * hi[1]
    BY <1>2, <1>8 DEF Reaches
<1>10. k \in 2..Tiers /\ Parents(hi, k - 2) /\ k \in 1..Tiers /\ k - 1 \in 1..Tiers /\ k # 1
       /\ 1 \in 1..Tiers /\ Tiers \in Nat
  <2>1. k \in 2..Tiers /\ Parents(hi, k - 2)
    BY <1>3, <1>8 DEF AtTier
  <2> QED BY <2>1, SizeIs
<1>11. /\ s \in Nat /\ s = hi[k] * Size(k) /\ s + Size(k) <= Len(E)
       /\ Fanout * hi[k] + Fanout <= hi[k - 1]
    BY <1>1, <1>2, <1>4, <1>5, <1>9, <1>10, HigherPlace
<1>12. PICK b \in Blocks : b = Block(E, k, s) /\ b.start = s
    BY <1>10, <1>11, BlockIs
<1>13. rows' = [rows EXCEPT ![k] = Append(@, b)]
    BY <1>1, <1>2, <1>5, <1>6, <1>10, <1>11, <1>12, AppendBuilds
<1>14. PICK j \in Jobs : j = [i EXCEPT !.fresh = TRUE] /\ Builds(p, "seal", j)
    BY <1>1, <1>2, <1>5, <1>6, <1>10, <1>11, AppendBuilds
<1>15. /\ j.events = E /\ j.mark = i.mark /\ j.fresh /\ j.force = i.force /\ j.tier = k
    BY <1>2, <1>3, <1>14 DEF Jobs
<1>16. Holds("seal", j, rows')
    BY <1>1, <1>2, <1>8, <1>10, <1>11, <1>12, <1>13, <1>15, HoldsGrows
<1>17. Agrees("seal", j, meta, lo)
    BY <1>2, <1>8, <1>15 DEF Agrees
<1>18. PICK h : h = Further(hi, k)
    OBVIOUS
<1>25. Appended(rows', rows, k, b)
    BY <1>1, <1>10, <1>13, AppendIs
<1>19. h \in Indices /\ Laid(rows', lo, h)
  <2>1. Follows(b, k, hi)
    BY <1>10, <1>11, <1>12 DEF Follows
  <2> QED BY <1>1, <1>9, <1>10, <1>18, <1>25, <2>1, LaidSeals
<1>20. \A z \in 1..Tiers : z # k => h[z] = hi[z]
    BY <1>10, <1>18 DEF Indices, Further
<1>21. rows' \in Files /\ Ordered(rows'[1])
  <2>2. rows' \in Files
    BY <1>25 DEF Appended
  <2> QED BY <1>10, <1>19, <2>2, LaidOrdered
<1>22. Reaches("seal", j, meta, rows', lo, h)
    BY <1>9, <1>10, <1>15, <1>19, <1>20, <1>21 DEF Reaches
<1>23. AtTier("seal", j, lo, h)
  <2>1. Parents(h, k - 2)
    <3> SUFFICES ASSUME NEW y \in 1..(k - 2) PROVE h[y] < Fanout * h[y + 1] + Fanout
      BY DEF Parents
    <3>1. y \in 1..Tiers /\ y # k /\ y + 1 \in 1..Tiers /\ y + 1 # k
      BY <1>10
    <3> QED BY <1>10, <1>20, <3>1 DEF Parents
  <2> QED BY <1>10, <1>15, <2>1 DEF AtTier
<1>24. Work("seal", j, meta, rows', lo, h)
    BY <1>16, <1>17, <1>22, <1>23 DEF Work
<1> QED BY <1>14, <1>19, <1>24, BuildsKeep

LEMMA TierSealedBuilds ==
    ASSUME IndexInv, NEW p \in Builders, TierSealed(p)
    PROVE  IndexInv'
<1>1. IndexTypes /\ rows \in Files
    BY DEF IndexInv, IndexTypes
<1>2. PICK E \in Seq(Nat), i \in Jobs : i = job[p] /\ E = i.events /\ Len(E) <= extent.events
    BY <1>1, JobIs
<1>3. PICK k : k = i.tier
    OBVIOUS
<1>4. /\ bpc[p] = "seal" /\ Complete(p, k) = {}
      /\ bpc' = [bpc EXCEPT ![p] = "tier"] /\ job' = [job EXCEPT ![p].tier = @ + 1]
      /\ UNCHANGED <<extent, source, drawn, meta, rows, gap, indexLock>>
    BY <1>2, <1>3 DEF TierSealed, Locally, BuildGoto, sourceVars, indexVars
<1>5. bpc[p] \in Building
    BY <1>4 DEF Building
<1>6. indexLock = p /\ \E lo, hi \in Indices : Work("seal", i, meta, rows, lo, hi)
    BY <1>2, <1>4, <1>5, WorkIs
<1>7. PICK lo, hi \in Indices : Work("seal", i, meta, rows, lo, hi)
    BY <1>6
<1>8. /\ Reaches("seal", i, meta, rows, lo, hi) /\ Agrees("seal", i, meta, lo)
      /\ Holds("seal", i, rows) /\ AtTier("seal", i, lo, hi)
    BY <1>7 DEF Work
<1>9. /\ Ordered(rows[1]) /\ Laid(rows, lo, hi)
      /\ Whole(i.mark) <= Fanout * hi[1] /\ Whole(Len(E)) <= Fanout * hi[1]
    BY <1>2, <1>8 DEF Reaches
<1>10. k \in 2..Tiers /\ Parents(hi, k - 2) /\ k \in 1..Tiers /\ k - 1 \in 1..Tiers
       /\ Tiers \in Nat
  <2>1. k \in 2..Tiers /\ Parents(hi, k - 2)
    BY <1>3, <1>8 DEF AtTier
  <2> QED BY <2>1, SizeIs
<1>11. PICK j : j = [i EXCEPT !.tier = k + 1]
    OBVIOUS
<1>12. /\ j \in Jobs /\ j.events = E /\ j.mark = i.mark /\ j.fresh = i.fresh
       /\ j.force = i.force /\ j.tier = k + 1
  <2>1. k + 1 \in Nat
    BY <1>10
  <2> QED BY <1>2, <1>11, <2>1 DEF Jobs
<1>13. job' = [job EXCEPT ![p] = j] /\ rows' = rows
    BY <1>1, <1>2, <1>3, <1>4, <1>11 DEF IndexTypes
<1>14. Builds(p, "tier", j)
  <2>1. "tier" \in Building
    BY DEF Building
  <2> QED BY <1>1, <1>2, <1>4, <1>6, <1>12, <1>13, <2>1, BuildsIs
<1>15. Genuine(rows, E)
    BY <1>2, <1>8 DEF Holds
<1>16. hi[k - 1] < Fanout * hi[k] + Fanout
    BY <1>1, <1>2, <1>4, <1>9, <1>10, <1>15, TierDone
<1>17. AtTier("tier", j, lo, hi)
  <2>1. Parents(hi, k - 1)
    <3> SUFFICES ASSUME NEW y \in 1..(k - 1) PROVE hi[y] < Fanout * hi[y + 1] + Fanout
      BY DEF Parents
    <3>1. y = k - 1 \/ y \in 1..(k - 2)
      BY <1>10
    <3>2. k - 1 + 1 = k
      BY <1>10
    <3> QED BY <1>10, <1>16, <3>1, <3>2 DEF Parents
  <2>2. k + 1 - 2 = k - 1 /\ k + 1 \in 2..(Tiers + 1)
    BY <1>10
  <2>3. j.tier - 2 = k - 1 /\ j.tier \in 2..(Tiers + 1)
    BY <1>10, <1>12, <2>2
  <2> QED BY <2>1, <2>3 DEF AtTier
<1>18. Reaches("tier", j, meta, rows, lo, hi)
    BY <1>9, <1>12 DEF Reaches
<1>19. Agrees("tier", j, meta, lo) /\ Holds("tier", j, rows)
    BY <1>2, <1>8, <1>12 DEF Agrees, Holds
<1>20. Work("tier", j, meta, rows', lo, hi)
    BY <1>13, <1>17, <1>18, <1>19 DEF Work
<1> QED BY <1>14, <1>20, BuildsKeep

\* What compaction leaves of the rows of tier k.
LEMMA CompactIs ==
    ASSUME rows \in Files, NEW E \in Seq(Nat), Genuine(rows, E),
           NEW lo \in Indices, NEW hi \in Indices, Laid(rows, lo, hi),
           NEW k \in 1..Tiers, k + 1 \in 1..Tiers,
           k = 1 \/ (k - 1 \in 1..Tiers /\ Settled(lo[k - 1], hi[k])),
           NEW Q, Q = With(rows, k, Kept(k))
    PROVE  /\ Q \in Files /\ Genuine(Q, E)
           /\ \A m \in Nat : Covered(rows, E, m) => Covered(Q, E, m)
           /\ \A y \in 1..Tiers : \A n \in DOMAIN Q[y] : \E x \in DOMAIN rows[y] : Q[y][n] = rows[y][x]
           /\ \E l \in Indices : /\ Laid(Q, l, hi) /\ Settled(l[k], hi[k + 1])
                                 /\ \A y \in 1..Tiers : y # k => l[y] = lo[y]
<1>1. PICK t : t = Kept(k)
    OBVIOUS
<1>2. PICK d : Drops(rows, lo, hi, k, t, d)
    BY <1>1, KeptIs
<1>3. /\ d \in Nat /\ d <= Len(rows[k]) /\ t \in Seq(Blocks) /\ Len(t) = Len(rows[k]) - d
      /\ \A n \in 1..(Len(rows[k]) - d) : t[n] = rows[k][d + n]
      /\ \A i \in 1..d : \E j \in DOMAIN rows[k + 1] : Within(rows[k][i], k, rows[k + 1][j])
      /\ IF hi[k + 1] = 0 THEN d = 0 ELSE lo[k] + d + Fanout = Fanout * hi[k + 1]
    BY <1>2 DEF Drops
<1>4. Q = With(rows, k, t)
    BY <1>1
<1>5. rows[k] \in Seq(Blocks) /\ Len(rows[k]) \in Nat /\ DOMAIN rows[k] = 1..Len(rows[k])
      /\ DOMAIN t = 1..Len(t)
    BY <1>3, RowIs, LenProperties
<1>6. \A n \in DOMAIN t : \E i \in DOMAIN rows[k] : t[n] = rows[k][i]
  <2> TAKE n \in DOMAIN t
  <2>1. d + n \in DOMAIN rows[k] /\ t[n] = rows[k][d + n]
    BY <1>3, <1>5, SMTT(30)
  <2> QED BY <2>1
<1>7. Q \in Files /\ Genuine(Q, E)
    BY <1>3, <1>4, <1>6, GenuineKept
<1>8. \A i \in DOMAIN rows[k] :
         \/ \E j \in DOMAIN t : t[j] = rows[k][i]
         \/ \E j \in DOMAIN rows[k + 1] : Within(rows[k][i], k, rows[k + 1][j])
  <2> TAKE i \in DOMAIN rows[k]
  <2>1. CASE i <= d
    <3>1. i \in 1..d
      BY <1>3, <1>5, <2>1
    <3> QED BY <1>3, <3>1
  <2>2. CASE i > d
    <3>1. i - d \in DOMAIN t /\ i - d \in 1..(Len(rows[k]) - d) /\ d + (i - d) = i
      BY <1>3, <1>5, <2>2
    <3>2. t[i - d] = rows[k][d + (i - d)]
      BY <1>3, <3>1
    <3> QED BY <3>1, <3>2
  <2>3. i \in Nat
    BY <1>5
  <2> QED BY <1>3, <2>1, <2>2, <2>3
<1>9. \A m \in Nat : Covered(rows, E, m) => Covered(Q, E, m)
    BY <1>3, <1>4, <1>8, CoverKept, ZenonT(30)
<1>10. \A y \in 1..Tiers : \A n \in DOMAIN Q[y] : \E x \in DOMAIN rows[y] : Q[y][n] = rows[y][x]
  <2>1. Q[k] = t /\ \A y \in 1..Tiers : y # k => Q[y] = rows[y]
    BY <1>4 DEF Files, With
  <2> QED BY <1>6, <2>1
<1>11. \E l \in Indices : /\ Laid(Q, l, hi) /\ Settled(l[k], hi[k + 1])
                          /\ \A y \in 1..Tiers : y # k => l[y] = lo[y]
  <2>1. hi[k + 1] \in Nat
    BY DEF Indices
  <2>2. CASE hi[k + 1] = 0
    <3>1. d = 0
      BY <1>3, <2>2
    <3>2. Len(t) = Len(rows[k]) /\ \A n \in 1..Len(t) : t[n] = rows[k][n]
      BY <1>3, <1>5, <3>1
    <3>3. t = rows[k]
      BY <1>3, <1>5, <3>2, SeqEqual
    <3>4. Q = rows
      BY <1>4, <3>3 DEF Files, With
    <3>5. Settled(lo[k], hi[k + 1])
      BY <2>2 DEF Settled
    <3> QED BY <3>4, <3>5
  <2>3. CASE hi[k + 1] > 0
    <3>1. lo[k] + d + Fanout = Fanout * hi[k + 1]
      BY <1>3, <2>3
    <3>2. PICK l : l = [lo EXCEPT ![k] = lo[k] + d]
      OBVIOUS
    <3>3. l \in Indices /\ Laid(Q, l, hi) /\ Settled(l[k], hi[k + 1])
      BY <1>3, <1>4, <2>3, <3>1, <3>2, LaidDrops
    <3>4. \A y \in 1..Tiers : y # k => l[y] = lo[y]
      BY <3>2 DEF Indices
    <3> QED BY <3>3, <3>4
  <2> QED BY <2>1, <2>2, <2>3
<1> QED BY <1>7, <1>9, <1>10, <1>11

LEMMA CompactTierBuilds ==
    ASSUME IndexInv, NEW p \in Builders, CompactTier(p)
    PROVE  /\ IndexInv' /\ raised' = raised /\ meta' = meta
           /\ Builds(p, "compact", job'[p]) /\ job'[p].events = job[p].events
           /\ \A y \in 1..Tiers : \A n \in DOMAIN rows'[y] :
                 \E x \in DOMAIN rows[y] : rows'[y][n] = rows[y][x]
<1>1. IndexTypes /\ rows \in Files
    BY DEF IndexInv, IndexTypes
<1>2. PICK E \in Seq(Nat), i \in Jobs : i = job[p] /\ E = i.events /\ Len(E) <= extent.events
    BY <1>1, JobIs
<1>3. PICK k : k = i.tier
    OBVIOUS
<1>4. bpc[p] = "compact" /\ k < i.top /\ bpc[p] \in Building
    BY <1>2, <1>3 DEF CompactTier, Building
<1>5. indexLock = p /\ \E lo, hi \in Indices : Work("compact", i, meta, rows, lo, hi)
    BY <1>2, <1>4, WorkIs
<1>6. PICK lo, hi \in Indices : Work("compact", i, meta, rows, lo, hi)
    BY <1>5
<1>7. /\ Reaches("compact", i, meta, rows, lo, hi) /\ Agrees("compact", i, meta, lo)
      /\ Holds("compact", i, rows) /\ AtTier("compact", i, lo, hi)
    BY <1>6 DEF Work
<1>8. /\ Ordered(rows[1]) /\ Laid(rows, lo, hi)
      /\ Whole(i.mark) <= Fanout * hi[1] /\ Whole(Len(E)) <= Fanout * hi[1]
    BY <1>2, <1>7 DEF Reaches
<1>9. /\ i.top \in 1..Tiers /\ k \in 1..i.top /\ Parents(hi, i.top - 1)
      /\ \A y \in 1..(k - 1) : Settled(lo[y], hi[y + 1])
      /\ hi[i.top] < Fanout /\ \A y \in (i.top + 1)..Tiers : hi[y] = 0
    BY <1>3, <1>7 DEF AtTier
<1>10. k \in 1..Tiers /\ k + 1 \in 1..Tiers /\ k + 1 \in 1..i.top /\ Tiers \in Nat /\ i.top \in Nat
  <2>1. Tiers \in Nat
    BY SizeIs
  <2>2. PICK n \in Nat : n = i.top /\ n <= Tiers
    BY <1>9, <2>1
  <2> QED BY <1>4, <1>9, <2>1, <2>2
<1>11. Ordered(rows[k]) /\ Ordered(rows[k + 1])
    BY <1>1, <1>8, <1>10, LaidOrdered
<1>12. /\ rows' = [rows EXCEPT ![k] = Kept(k)] /\ job' = [job EXCEPT ![p].tier = k + 1]
       /\ UNCHANGED <<extent, source, drawn, meta, gap, indexLock, bpc>> /\ raised' = raised
    BY <1>2, <1>3, <1>11 DEF CompactTier, sourceVars
<1>13. PICK j : j = [i EXCEPT !.tier = k + 1]
    OBVIOUS
<1>14. /\ j \in Jobs /\ j.events = E /\ j.mark = i.mark /\ j.fresh = i.fresh
       /\ j.force = i.force /\ j.tier = k + 1 /\ j.top = i.top
  <2>1. k + 1 \in Nat
    BY <1>10
  <2> QED BY <1>2, <1>13, <2>1 DEF Jobs
<1>15. job' = [job EXCEPT ![p] = j] /\ bpc' = [bpc EXCEPT ![p] = "compact"]
    BY <1>1, <1>2, <1>4, <1>12, <1>13, JobIs DEF IndexTypes
<1>16. k = 1 \/ (k - 1 \in 1..Tiers /\ Settled(lo[k - 1], hi[k]))
  <2>1. k # 1 => k - 1 \in 1..(k - 1) /\ k - 1 \in 1..Tiers /\ k - 1 + 1 = k
    BY <1>10
  <2> QED BY <1>9, <2>1
<1>17. Genuine(rows, E) /\ Covered(rows, E, Whole(i.mark)) /\ Covered(rows, E, Whole(Len(E)))
    BY <1>2, <1>7 DEF Holds
<1>18. PICK Q : Q = rows'
    OBVIOUS
<1>19. /\ Q \in Files /\ Genuine(Q, E)
       /\ \A m \in Nat : Covered(rows, E, m) => Covered(Q, E, m)
       /\ \A y \in 1..Tiers : \A n \in DOMAIN Q[y] : \E x \in DOMAIN rows[y] : Q[y][n] = rows[y][x]
       /\ \E l \in Indices : /\ Laid(Q, l, hi) /\ Settled(l[k], hi[k + 1])
                             /\ \A y \in 1..Tiers : y # k => l[y] = lo[y]
  <2>1. Q = With(rows, k, Kept(k))
    BY <1>12, <1>18 DEF With
  <2> QED BY <1>1, <1>8, <1>10, <1>16, <1>17, <2>1, CompactIs
<1>20. PICK l \in Indices : /\ Laid(Q, l, hi) /\ Settled(l[k], hi[k + 1])
                            /\ \A y \in 1..Tiers : y # k => l[y] = lo[y]
    BY <1>19
<1>21. Builds(p, "compact", j)
  <2>1. "compact" \in Building
    BY DEF Building
  <2>2. rows' \in Files /\ indexLock' = p
    BY <1>5, <1>12, <1>18, <1>19
  <2> QED BY <1>1, <1>2, <1>5, <1>12, <1>14, <1>15, <2>1, <2>2, BuildsIs
<1>22. Reaches("compact", j, meta, Q, l, hi)
  <2>1. 1 \in 1..Tiers
    BY SizeIs
  <2>2. Ordered(Q[1])
    BY <1>19, <1>20, <2>1, LaidOrdered
  <2> QED BY <1>8, <1>14, <1>20, <2>2 DEF Reaches
<1>23. Agrees("compact", j, meta, l)
    BY <1>2, <1>7, <1>14 DEF Agrees
<1>24. Holds("compact", j, Q)
  <2>1. Whole(i.mark) \in Nat /\ Whole(Len(E)) \in Nat
    <3>1. i.mark \in Nat /\ Len(E) \in Nat
      BY LenProperties DEF Jobs
    <3> QED BY <3>1, WholeIs
  <2>2. Covered(Q, E, Whole(i.mark)) /\ Covered(Q, E, Whole(Len(E)))
    BY <1>17, <1>19, <2>1
  <2> QED BY <1>14, <1>19, <2>2 DEF Holds
<1>25. AtTier("compact", j, l, hi)
  <2>1. \A y \in 1..k : Settled(l[y], hi[y + 1])
    <3> TAKE y \in 1..k
    <3>1. y \in 1..Tiers /\ (y = k \/ y \in 1..(k - 1))
      BY <1>10
    <3>2. CASE y = k
      BY <1>20, <3>2
    <3>3. CASE y \in 1..(k - 1)
      <4>1. y # k /\ Settled(lo[y], hi[y + 1])
        BY <1>9, <1>10, <3>3
      <4> QED BY <1>20, <3>1, <4>1
    <3> QED BY <3>1, <3>2, <3>3
  <2>2. k + 1 - 1 = k
    BY <1>10
  <2> QED BY <1>9, <1>10, <1>14, <2>1, <2>2 DEF AtTier
<1>26. Work("compact", j, meta, rows', l, hi)
    BY <1>18, <1>22, <1>23, <1>24, <1>25 DEF Work
<1>27. IndexInv'
    BY <1>20, <1>21, <1>26, BuildsKeep
<1>28. job'[p] = j
    BY <1>21 DEF Builds, Moves
<1> QED BY <1>2, <1>12, <1>14, <1>18, <1>19, <1>21, <1>27, <1>28

\* Compacted tiers hold fewer than 2 * Fanout blocks each.
LEMMA CompactedIs ==
    ASSUME NEW j, NEW R \in Files, NEW lo \in Indices, NEW hi \in Indices, Laid(R, lo, hi),
           AtTier("compact", j, lo, hi), j.tier >= j.top
    PROVE  \A k \in 1..Tiers : Len(R[k]) < 2 * Fanout
<1>1. /\ j.top \in 1..Tiers /\ j.tier \in 1..j.top /\ Parents(hi, j.top - 1)
      /\ \A k \in 1..(j.tier - 1) : Settled(lo[k], hi[k + 1])
      /\ hi[j.top] < Fanout /\ \A k \in (j.top + 1)..Tiers : hi[k] = 0
    BY DEF AtTier
<1>2. PICK t \in Nat : t = j.top /\ t = j.tier /\ t \in 1..Tiers
    BY <1>1
<1>3. Fanout \in Nat /\ Fanout >= 2 /\ Tiers \in Nat
    BY SizeIs
<1> TAKE k \in 1..Tiers
<1>4. PICK l, h \in Nat : l = lo[k] /\ h = hi[k]
    BY DEF Indices
<1>5. Len(R[k]) = h - l
    BY <1>4 DEF Laid, Run
<1>6. CASE k < t
  <2>1. k \in 1..(t - 1) /\ k + 1 \in 1..Tiers
    BY <1>2, <1>3, <1>6
  <2>2. PICK g \in Nat : g = hi[k + 1]
    BY <2>1 DEF Indices
  <2>3. h < Fanout * g + Fanout
    BY <1>1, <1>2, <1>4, <2>1, <2>2 DEF Parents
  <2>4. g > 0 => Fanout * g <= l + Fanout
    BY <1>1, <1>2, <1>4, <2>1, <2>2 DEF Settled
  <2>5. PICK v \in Nat : v = Fanout * g /\ (g = 0 => v = 0)
    BY <1>3
  <2> QED BY <1>3, <1>5, <2>3, <2>4, <2>5
<1>7. CASE k = t
  <2>1. h < Fanout
    BY <1>1, <1>2, <1>4, <1>7
  <2> QED BY <1>3, <1>5, <2>1
<1>8. CASE k > t
  <2>1. h = 0
    BY <1>1, <1>2, <1>3, <1>4, <1>8
  <2> QED BY <1>3, <1>5, <2>1
<1> QED BY <1>2, <1>6, <1>7, <1>8

LEMMA WriteMetaKeeps ==
    ASSUME IndexInv, NEW p \in Builders, WriteMeta(p)
    PROVE  /\ IndexInv'
           /\ \A k \in 1..Tiers : Ordered(rows[k]) /\ Len(rows[k]) < 2 * Fanout
<1>1. IndexTypes /\ rows \in Files
    BY DEF IndexInv, IndexTypes
<1>2. PICK E \in Seq(Nat), i \in Jobs : i = job[p] /\ E = i.events /\ Len(E) <= extent.events
    BY <1>1, JobIs
<1>3. PICK s : s = Sealed(E, Len(E))
    OBVIOUS
<1>4. /\ bpc[p] = "compact" /\ i.tier >= i.top /\ bpc[p] \in Building
      /\ meta' = [watermark |-> Len(E), sealed |-> s]
      /\ bpc' = [bpc EXCEPT ![p] = "built"]
      /\ UNCHANGED <<extent, source, drawn, rows, gap, indexLock, job>>
    BY <1>2, <1>3 DEF WriteMeta, BuildGoto, sourceVars, Building
<1>5. indexLock = p /\ \E lo, hi \in Indices : Work("compact", i, meta, rows, lo, hi)
    BY <1>2, <1>4, WorkIs
<1>6. PICK lo, hi \in Indices : Work("compact", i, meta, rows, lo, hi)
    BY <1>5
<1>7. /\ Reaches("compact", i, meta, rows, lo, hi) /\ Holds("compact", i, rows)
      /\ AtTier("compact", i, lo, hi)
    BY <1>6 DEF Work
<1>8. Laid(rows, lo, hi) /\ Whole(Len(E)) <= Fanout * hi[1]
    BY <1>2, <1>7 DEF Reaches
<1>9. Covered(rows, E, Whole(Len(E)))
    BY <1>2, <1>7 DEF Holds
<1>10. Len(E) \in Nat /\ Len(E) <= Len(E)
    BY LenProperties
<1>11. /\ s \in Seq(Nat) /\ Len(s) = Whole(Len(E)) /\ Covered(rows, s, Len(s))
    BY <1>3, <1>9, <1>10, SealedIs, CoverSealed
<1>12. meta' \in Metas /\ meta'.sealed = s
    BY <1>4, <1>10, <1>11 DEF Metas
<1>13. Sound(meta', rows', lo, hi)
    BY <1>4, <1>8, <1>11, <1>12 DEF Sound
<1>14. bpc' \in [Builders -> BuildSteps] /\ bpc'[p] = "built"
       /\ \A q \in Builders : q # p => bpc'[q] = bpc[q]
  <2>1. "built" \in BuildSteps /\ bpc \in [Builders -> BuildSteps]
    BY <1>1 DEF BuildSteps, IndexTypes
  <2> QED BY <1>4, <2>1
<1>15. \A q \in Builders : bpc'[q] \notin Building \cup {"reset"}
  <2> TAKE q \in Builders
  <2>1. CASE q = p
    BY <1>14, <2>1 DEF Building
  <2>2. CASE q # p
    BY <1>1, <1>5, <1>14, <2>2 DEF IndexTypes
  <2> QED BY <2>1, <2>2
<1>16. Upright(meta', rows', bpc', job', lo, hi)
    BY <1>13, <1>15 DEF Upright
<1>17. IndexTypes'
  <2>1. /\ extent' = extent /\ source' = source /\ drawn' = drawn /\ rows' = rows /\ gap' = gap
        /\ indexLock' = indexLock /\ job' = job
    BY <1>4
  <2>2. meta' \in Metas \cup {NoMeta}
    BY <1>12
  <2> QED BY <1>1, <1>14, <1>15, <2>1, <2>2 DEF IndexTypes
<1>18. IndexInv'
    BY <1>16, <1>17 DEF IndexInv
<1>19. \A k \in 1..Tiers : Len(rows[k]) < 2 * Fanout
    BY <1>1, <1>4, <1>7, <1>8, CompactedIs
<1>20. \A k \in 1..Tiers : Ordered(rows[k])
    BY <1>1, <1>8, LaidOrdered
<1> QED BY <1>18, <1>19, <1>20

LEMMA ResetKeeps ==
    ASSUME IndexInv, NEW p \in Builders, ForceBegin(p) \/ ResetTier(p)
    PROVE  /\ IndexInv' /\ meta' = NoMeta
           /\ \A y \in 1..Tiers : \A n \in DOMAIN rows'[y] : n \in DOMAIN rows[y] /\ rows'[y][n] = rows[y][n]
<1>1. IndexTypes /\ rows \in Files /\ job \in [Builders -> Jobs] /\ bpc \in [Builders -> BuildSteps]
    BY DEF IndexInv, IndexTypes
<1>2. /\ UNCHANGED <<extent, source, drawn, gap>> /\ meta' = NoMeta
      /\ indexLock' = p /\ indexLock \in {p, Unlocked}
  <2>1. CASE ForceBegin(p)
    BY <2>1 DEF ForceBegin, sourceVars
  <2>2. CASE ResetTier(p)
    <3>1. bpc[p] = "reset" /\ UNCHANGED <<extent, source, drawn, gap, meta, indexLock>>
      BY <2>2 DEF ResetTier, sourceVars
    <3>2. meta = NoMeta /\ indexLock = p
      BY <1>1, <3>1 DEF IndexTypes
    <3> QED BY <3>1, <3>2
  <2> QED BY <2>1, <2>2
<1>3. /\ rows' \in Files
      /\ \A y \in 1..Tiers : \A n \in DOMAIN rows'[y] : n \in DOMAIN rows[y] /\ rows'[y][n] = rows[y][n]
  <2>1. CASE ForceBegin(p)
    BY <1>1, <2>1 DEF ForceBegin
  <2>2. CASE ResetTier(p)
    <3>1. PICK k \in 1..Tiers : rows' = [rows EXCEPT ![k] = <<>>]
      BY <2>2 DEF ResetTier
    <3>2. PICK t : t = <<>>
      OBVIOUS
    <3>3. t \in Seq(Blocks) /\ DOMAIN t = {}
      BY <3>2
    <3>4. rows' = [rows EXCEPT ![k] = t]
      BY <3>1, <3>2
    <3>5. rows' \in Files /\ rows'[k] = t /\ \A y \in 1..Tiers : y # k => rows'[y] = rows[y]
      BY <1>1, <3>3, <3>4 DEF Files
    <3> QED BY <3>3, <3>5
  <2> QED BY <2>1, <2>2
<1>4. PICK j \in Jobs : Moves(p, "reset", j) /\ j.mark = 0 /\ j.fresh
  <2>1. "reset" \in BuildSteps
    BY DEF BuildSteps
  <2>2. CASE ForceBegin(p)
    <3>1. PICK j : j = [job[p] EXCEPT !.mark = 0, !.fresh = TRUE]
      OBVIOUS
    <3>2. j \in Jobs /\ j.events = job[p].events /\ j.mark = 0 /\ j.fresh
      BY <1>1, <3>1 DEF Jobs
    <3>3. job' = [job EXCEPT ![p] = j] /\ bpc' = [bpc EXCEPT ![p] = "reset"]
      BY <1>1, <2>2, <3>1 DEF ForceBegin, BuildGoto
    <3>4. Len(j.events) <= extent.events
      BY <1>1, <3>2 DEF IndexTypes
    <3> QED BY <1>1, <2>1, <3>2, <3>3, <3>4, MovesIs
  <2>3. CASE ResetTier(p)
    <3>1. bpc[p] = "reset" /\ bpc' = bpc /\ job' = job
      BY <2>3 DEF ResetTier
    <3>2. bpc' = [bpc EXCEPT ![p] = "reset"] /\ job' = [job EXCEPT ![p] = job[p]]
      BY <1>1, <3>1, JobIs
    <3>3. job[p] \in Jobs /\ Len(job[p].events) <= extent.events /\ job[p].mark = 0 /\ job[p].fresh
      BY <1>1, <3>1, JobIs DEF IndexTypes
    <3> QED BY <1>1, <2>1, <3>2, <3>3, MovesIs
  <2> QED BY <2>2, <2>3
<1>5. /\ bpc' \in [Builders -> BuildSteps] /\ job' \in [Builders -> Jobs]
      /\ bpc'[p] = "reset" /\ job'[p] = j /\ Len(j.events) <= extent.events
      /\ \A q \in Builders : q # p => bpc'[q] = bpc[q] /\ job'[q] = job[q]
    BY <1>4 DEF Moves
<1>6. ASSUME NEW q \in Builders, q # p PROVE bpc'[q] \notin Building \cup {"reset"}
  <2>1. bpc[q] \in Building \cup {"reset"} => indexLock = q
    BY <1>1 DEF IndexTypes
  <2>2. indexLock # q
    BY <1>2, <1>6, IndexScenesAssumption
  <2> QED BY <1>5, <1>6, <2>1, <2>2
<1>7. \A q \in Builders : bpc'[q] \notin Building
    BY <1>5, <1>6 DEF Building
<1>8. \A q \in Builders : Len(job'[q].events) <= extent'.events
    BY <1>1, <1>2, <1>5 DEF IndexTypes
<1>9. /\ extent' \in IndexScenes /\ source' \in Seq(Nat) /\ Len(source') <= extent'.events
      /\ drawn' \in Nat /\ gap' \in BOOLEAN /\ meta' \in Metas \cup {NoMeta}
    BY <1>1, <1>2 DEF IndexTypes
<1>10. IndexTypes'
    BY <1>2, <1>3, <1>4, <1>5, <1>6, <1>8, <1>9 DEF IndexTypes
<1>11. PICK lo, hi \in Indices : Upright(meta, rows, bpc, job, lo, hi)
    BY DEF IndexInv
<1>12. Upright(meta', rows', bpc', job', lo, hi)
    BY <1>2, <1>7 DEF Upright, Sound
<1> QED BY <1>2, <1>3, <1>10, <1>12 DEF IndexInv

LEMMA IndexInvInit == ASSUME EpisodicInit PROVE IndexInv
<1>1. IndexTypes
    BY IndexTypesInit
<1>2. PICK z : z = [k \in 1..Tiers |-> 0]
    OBVIOUS
<1>3. z \in Indices
    BY <1>2 DEF Indices
<1>4. meta = NoMeta /\ \A p \in Builders : bpc[p] \notin Building
    BY DEF EpisodicInit, Building
<1>5. Upright(meta, rows, bpc, job, z, z)
    BY <1>4 DEF Upright, Sound
<1> QED BY <1>1, <1>3, <1>5 DEF IndexInv

LEMMA SourceKeeps ==
    ASSUME IndexInv, \E n \in 1..extent.events : SourceGrows(n) \/ SourceShrinks(n)
    PROVE  IndexInv' /\ UNCHANGED <<meta, rows, bpc, job>>
<1>1. IndexTypes'
    BY IndexTypesSource DEF IndexInv
<1>2. UNCHANGED <<meta, rows, bpc, job>>
    BY DEF SourceGrows, SourceShrinks, indexVars
<1>3. PICK lo, hi \in Indices : Upright(meta, rows, bpc, job, lo, hi)
    BY DEF IndexInv
<1>4. Upright(meta', rows', bpc', job', lo, hi)
    BY <1>2, <1>3
<1> QED BY <1>1, <1>2, <1>4 DEF IndexInv

LEMMA IndexInvStep == ASSUME IndexInv, [EpisodicNext]_episodicVars PROVE IndexInv'
<1>1. IndexTypes
    BY DEF IndexInv
<1>2. ASSUME NEW p \in Builders, Quiet(p) PROVE IndexInv'
    BY <1>2, QuietKeeps
<1>3. ASSUME NEW p \in Builders, BuildStep(p) \/ BuilderKilled(p) PROVE IndexInv'
  <2>1. CASE LoadBegin(p) \/ LoadEnds(p) \/ LoadRefused(p)
    BY <1>1, <1>2, <2>1, LoadQuiet, LoadedQuiet
  <2>2. CASE BuildBegin(p)
    BY <1>1, <1>2, <2>2, BeginQuiet, BeginBuilds
  <2>3. CASE ForceBegin(p) \/ ResetTier(p)
    BY <2>3, ResetKeeps
  <2>4. CASE ResetEnds(p)
    BY <2>4, ResetEndsBuilds
  <2>5. CASE SealWindow(p)
    BY <2>5, SealWindowBuilds
  <2>6. CASE WindowsSealed(p)
    BY <2>6, WindowsSealedBuilds
  <2>7. CASE EnterTier(p)
    BY <2>7, EnterTierBuilds
  <2>8. CASE SealHigher(p)
    BY <2>8, SealHigherBuilds
  <2>9. CASE TierSealed(p)
    BY <2>9, TierSealedBuilds
  <2>10. CASE CompactTier(p)
    BY <2>10, CompactTierBuilds
  <2>11. CASE WriteMeta(p)
    BY <2>11, WriteMetaKeeps
  <2>12. CASE BuildEnds(p) \/ WriteGap(p) \/ Assemble(p) \/ BuilderKilled(p)
    BY <1>1, <1>2, <2>12, EndsQuiet
  <2> QED BY <1>3, <2>1, <2>2, <2>3, <2>4, <2>5, <2>6, <2>7, <2>8, <2>9, <2>10, <2>11, <2>12
           DEF BuildStep
<1>4. CASE \E n \in 1..extent.events : SourceGrows(n) \/ SourceShrinks(n)
    BY <1>4, SourceKeeps
<1>5. CASE SourceTorn \/ SourceMended \/ UNCHANGED episodicVars
  <2>1. UNCHANGED <<extent, source, drawn, meta, rows, gap, indexLock, bpc, job>>
    BY <1>5 DEF SourceTorn, SourceMended, episodicVars, sourceVars, indexVars
  <2> QED BY <2>1 DEF IndexInv, IndexTypes
<1> QED BY <1>3, <1>4, <1>5 DEF EpisodicNext

\* Wherever calls are killed, however often the index is dropped and rebuilt and whatever
\* was compacted, each event below the watermark is in a block on disk that holds what
\* was sealed (build, _compact_tier, _write_meta).
THEOREM SealedIsCovered == EpisodicSpec => []NothingForgotten
<1>1. ASSUME IndexInv PROVE NothingForgotten
  <2>1. SUFFICES ASSUME meta # NoMeta
                 PROVE  Covered(rows, meta.sealed, Len(meta.sealed))
    BY DEF NothingForgotten, Covered, Shows
  <2> QED BY <1>1, <2>1 DEF IndexInv, Upright, Sound
<1>2. EpisodicInit => IndexInv
    BY IndexInvInit
<1>3. IndexInv /\ [EpisodicNext]_episodicVars => IndexInv'
    BY IndexInvStep
<1> QED BY <1>1, <1>2, <1>3, PTL DEF EpisodicSpec

\* Whenever a call writes the metadata no tier holds 2 * Fanout blocks, also when it found
\* the tiers of calls that were killed before they compacted (_compact_tier).
THEOREM IndexStaysSmall == EpisodicSpec => IndexLogarithmic
<1>1. ASSUME IndexInv, [EpisodicNext]_episodicVars, meta' # meta, meta' # NoMeta
      PROVE  \A k \in 1..Tiers : Len(rows[k]) < 2 * Fanout
  <2>1. PICK p \in Builders : WriteMeta(p)
    <3>1. SourceTorn \/ SourceMended \/ UNCHANGED episodicVars => meta' = meta
      BY DEF SourceTorn, SourceMended, episodicVars, indexVars
    <3>2. \A n : SourceGrows(n) \/ SourceShrinks(n) => meta' = meta
      BY DEF SourceGrows, SourceShrinks, indexVars
    <3>3. ASSUME NEW p \in Builders, Raises(p) \/ Repeats(p) PROVE meta' = meta
      BY <3>3 DEF Raises, Repeats, indexVars
    <3>4. ASSUME NEW p \in Builders, BuildStep(p) \/ BuilderKilled(p), ~ WriteMeta(p)
          PROVE  meta' = meta \/ meta' = NoMeta
      <4>1. CASE LoadBegin(p) \/ LoadEnds(p) \/ LoadRefused(p) \/ ForceBegin(p)
                 \/ ResetTier(p) \/ ResetEnds(p) \/ SealWindow(p)
                 \/ WindowsSealed(p) \/ SealHigher(p) \/ TierSealed(p)
        BY <4>1 DEF LoadBegin, LoadEnds, LoadRefused, ForceBegin, ResetTier, ResetEnds, SealWindow, WindowsSealed,
                    SealHigher, TierSealed, AppendBlock, Locally, indexVars
      <4>2. CASE BuildEnds(p) \/ WriteGap(p) \/ Assemble(p) \/ BuilderKilled(p)
        BY <3>3, <4>2 DEF BuildEnds, WriteGap, Assemble, BuilderKilled, Locally, indexVars
      <4>3. CASE BuildBegin(p)
        BY <3>3, <4>3 DEF BuildBegin, Locally, indexVars
      <4>4. CASE EnterTier(p)
        BY <3>3, <4>4 DEF EnterTier, Locally, indexVars
      <4>5. CASE CompactTier(p)
        BY <3>3, <4>5 DEF CompactTier
      <4> QED BY <3>4, <4>1, <4>2, <4>3, <4>4, <4>5 DEF BuildStep
    <3> QED BY <1>1, <3>1, <3>2, <3>4 DEF EpisodicNext
  <2> QED BY <1>1, <2>1, WriteMetaKeeps
<1>2. EpisodicInit => IndexInv
    BY IndexInvInit
<1>3. IndexInv /\ [EpisodicNext]_episodicVars => IndexInv'
    BY IndexInvStep
<1>4. IndexInv /\ [EpisodicNext]_episodicVars =>
        [meta' # meta /\ meta' # NoMeta => \A k \in 1..Tiers : Len(rows[k]) < 2 * Fanout]_episodicVars
    BY <1>1
<1> QED BY <1>2, <1>3, <1>4, PTL DEF EpisodicSpec, IndexLogarithmic

-----------------------------------------------------------------------------
(* Calls one after another over a source that only grows *)

Prefix(E, s) == Len(E) <= Len(s) /\ \A i \in 1..Len(E) : E[i] = s[i]

\* Every row is a block of these events, at a place of its tier.
Fits(R, E) ==
    \A k \in 1..Tiers : \A i \in DOMAIN R[k] :
        /\ R[k][i].start % Size(k) = 0 /\ R[k][i].start + Size(k) <= Len(E)
        /\ R[k][i] = Block(E, k, R[k][i].start)

Marked(m, E) == m # NoMeta => m.watermark <= Len(E) /\ m.sealed = Sealed(E, m.watermark)

\* One call at most runs, on a beginning of the source, and the index agrees with it;
\* after it was built the index is complete and in order.
Steady(m, R, s, b, j, r) ==
    /\ ~ r /\ Fits(R, s) /\ Marked(m, s)
    /\ \A p, q \in Builders : b[p] # "idle" /\ b[q] # "idle" => p = q
    /\ \A p \in Builders : b[p] # "idle" =>
          Prefix(j[p].events, s) /\ Fits(R, j[p].events) /\ Marked(m, j[p].events)
    /\ \A p \in Builders : b[p] \in {"built", "assemble"} =>
          m # NoMeta /\ \A k \in 1..Tiers : Ordered(R[k])

SteadyInv ==
    /\ shrinks \in Nat
    /\ shrinks = 0 /\ ~crossed => Steady(meta, rows, source, bpc, job, raised)

LEMMA SliceIs ==
    ASSUME NEW E \in Seq(Nat), NEW a \in Nat, NEW z \in Nat, z > 0, a + z <= Len(E)
    PROVE  /\ SubSeq(E, a + 1, a + z) \in Seq(Nat) /\ Len(SubSeq(E, a + 1, a + z)) = z
           /\ \A i \in 1..z : SubSeq(E, a + 1, a + z)[i] = E[a + i]
<1>1. PICK q : q = SubSeq(E, a + 1, a + z)
    OBVIOUS
<1>2. \A i \in 1..Len(E) : E[i] \in Nat
    BY ElementOfSeq
<1>3. Len(E) \in Nat
    BY LenProperties
<1>4. \A i \in (a + 1)..(a + z) : E[i] \in Nat
    BY <1>2, <1>3
<1>5. a + 1 \in Int /\ a + z \in Int /\ a + z - (a + 1) + 1 = z /\ a + 1 <= a + z
    OBVIOUS
<1>6. q \in Seq(Nat)
    BY <1>1, <1>4, <1>5, SubSeqProperties
<1>7. \A i \in 1..(a + z - (a + 1) + 1) : q[i] = E[a + 1 + i - 1]
    BY <1>1, <1>4, <1>5, SubSeqProperties
<1>8. Len(q) = a + z - (a + 1) + 1
    BY <1>1, <1>4, <1>5, SubSeqProperties
<1>9. \A i \in 1..z : q[i] = E[a + i]
  <2> TAKE i \in 1..z
  <2>1. a + 1 + i - 1 = a + i
    OBVIOUS
  <2> QED BY <1>5, <1>7, <2>1
<1> QED BY <1>1, <1>5, <1>6, <1>8, <1>9

LEMMA BlockSame ==
    ASSUME NEW E \in Seq(Nat), NEW s \in Seq(Nat), Prefix(E, s), NEW k \in 1..Tiers,
           NEW a \in Nat, a + Size(k) <= Len(E)
    PROVE  a + Size(k) <= Len(s) /\ Block(E, k, a) = Block(s, k, a)
<1>1. PICK z \in Nat : z = Size(k) /\ z > 0
    BY SizeIs
<1>2. Len(E) \in Nat /\ Len(s) \in Nat /\ Len(E) <= Len(s) /\ \A i \in 1..Len(E) : E[i] = s[i]
    BY LenProperties DEF Prefix
<1>3. a + z <= Len(E) /\ a + z <= Len(s)
    BY <1>1, <1>2
<1>4. PICK q, r \in Seq(Nat) : /\ q = SubSeq(E, a + 1, a + z) /\ r = SubSeq(s, a + 1, a + z)
                               /\ Len(q) = z /\ Len(r) = z
                               /\ \A i \in 1..z : q[i] = E[a + i] /\ r[i] = s[a + i]
  <2>1. /\ SubSeq(E, a + 1, a + z) \in Seq(Nat) /\ Len(SubSeq(E, a + 1, a + z)) = z
        /\ \A i \in 1..z : SubSeq(E, a + 1, a + z)[i] = E[a + i]
    BY <1>1, <1>3, SliceIs
  <2>2. /\ SubSeq(s, a + 1, a + z) \in Seq(Nat) /\ Len(SubSeq(s, a + 1, a + z)) = z
        /\ \A i \in 1..z : SubSeq(s, a + 1, a + z)[i] = s[a + i]
    BY <1>1, <1>3, SliceIs
  <2> QED BY <2>1, <2>2
<1>5. \A i \in 1..z : a + i \in 1..Len(E)
    BY <1>2, <1>3
<1>6. q = r
  <2>1. \A i \in 1..z : q[i] = r[i]
    BY <1>2, <1>4, <1>5
  <2>2. DOMAIN q = 1..z /\ DOMAIN r = 1..z
    BY <1>4
  <2> QED BY <1>1, <1>4, <2>1, <2>2, SeqEqual
<1> QED BY <1>1, <1>3, <1>4, <1>6 DEF Block

LEMMA SealedSame ==
    ASSUME NEW E \in Seq(Nat), NEW s \in Seq(Nat), Prefix(E, s), NEW n \in Nat, n <= Len(E)
    PROVE  n <= Len(s) /\ Sealed(E, n) = Sealed(s, n)
<1>1. Len(E) \in Nat /\ Len(s) \in Nat /\ Len(E) <= Len(s) /\ \A i \in 1..Len(E) : E[i] = s[i]
    BY LenProperties DEF Prefix
<1>2. n <= Len(s)
    BY <1>1
<1>3. PICK w \in Nat : w = Whole(n) /\ w <= n
    BY WholeIs
<1>4. PICK q, r \in Seq(Nat) : /\ q = Sealed(E, n) /\ r = Sealed(s, n) /\ Len(q) = w /\ Len(r) = w
                               /\ \A i \in 1..w : q[i] = E[i] /\ r[i] = s[i]
  <2>1. Sealed(E, n) \in Seq(Nat) /\ Len(Sealed(E, n)) = w /\ \A i \in 1..w : Sealed(E, n)[i] = E[i]
    BY <1>3, SealedIs
  <2>2. Sealed(s, n) \in Seq(Nat) /\ Len(Sealed(s, n)) = w /\ \A i \in 1..w : Sealed(s, n)[i] = s[i]
    BY <1>2, <1>3, SealedIs
  <2> QED BY <2>1, <2>2
<1>5. \A i \in 1..w : i \in 1..Len(E)
    BY <1>1, <1>3
<1>6. q = r
    BY <1>1, <1>4, <1>5, SeqEqual
<1> QED BY <1>2, <1>4, <1>6

\* What agrees with a beginning of the source agrees with the source.
LEMMA PrefixAgrees ==
    ASSUME NEW E \in Seq(Nat), NEW s \in Seq(Nat), Prefix(E, s), NEW R \in Files,
           NEW m \in Metas \cup {NoMeta}
    PROVE  (Fits(R, E) => Fits(R, s)) /\ (Marked(m, E) => Marked(m, s))
<1>1. ASSUME Fits(R, E), NEW k \in 1..Tiers, NEW i \in DOMAIN R[k]
      PROVE  /\ R[k][i].start % Size(k) = 0 /\ R[k][i].start + Size(k) <= Len(s)
             /\ R[k][i] = Block(s, k, R[k][i].start)
  <2>1. PICK a \in Nat : a = R[k][i].start
    BY RowIs
  <2>2. a % Size(k) = 0 /\ a + Size(k) <= Len(E) /\ R[k][i] = Block(E, k, a)
    BY <1>1, <2>1 DEF Fits
  <2> QED BY <2>1, <2>2, BlockSame
<1>2. ASSUME Marked(m, E), m # NoMeta
      PROVE  m.watermark <= Len(s) /\ m.sealed = Sealed(s, m.watermark)
  <2>1. m.watermark \in Nat /\ m.watermark <= Len(E) /\ m.sealed = Sealed(E, m.watermark)
    BY <1>2 DEF Marked, Metas
  <2> QED BY <2>1, SealedSame
<1> QED BY <1>1, <1>2 DEF Fits, Marked

LEMMA FitsGrows ==
    ASSUME NEW R \in Files, NEW E \in Seq(Nat), Fits(R, E), NEW k \in 1..Tiers, NEW a \in Nat,
           a % Size(k) = 0, a + Size(k) <= Len(E), NEW Q, Appended(Q, R, k, Block(E, k, a))
    PROVE  Fits(Q, E)
<1>1. PICK b \in Blocks : b = Block(E, k, a) /\ b.start = a
    BY BlockIs
<1>2. /\ Q \in Files /\ \A j \in 1..Tiers : j # k => Q[j] = R[j]
      /\ Len(Q[k]) = Len(R[k]) + 1 /\ Q[k][Len(R[k]) + 1] = b
      /\ \A j \in 1..Tiers : \A i \in DOMAIN R[j] : i \in DOMAIN Q[j] /\ Q[j][i] = R[j][i]
    BY <1>1 DEF Appended
<1> SUFFICES ASSUME NEW j \in 1..Tiers, NEW i \in DOMAIN Q[j]
             PROVE  /\ Q[j][i].start % Size(j) = 0 /\ Q[j][i].start + Size(j) <= Len(E)
                    /\ Q[j][i] = Block(E, j, Q[j][i].start)
    BY DEF Fits
<1>3. CASE j = k /\ i = Len(R[k]) + 1
    BY <1>1, <1>2, <1>3
<1>4. CASE i \in DOMAIN R[j]
    BY <1>2, <1>4 DEF Fits
<1>5. i \in DOMAIN R[j] \/ (j = k /\ i = Len(R[k]) + 1)
  <2>1. CASE j = k
    <3>1. DOMAIN Q[k] = 1..Len(Q[k]) /\ DOMAIN R[k] = 1..Len(R[k]) /\ Len(R[k]) \in Nat
      BY <1>2, RowIs
    <3> QED BY <1>2, <2>1, <3>1
  <2>2. CASE j # k
    BY <1>2, <2>2
  <2> QED BY <2>1, <2>2
<1> QED BY <1>3, <1>4, <1>5

\* A step of a call p that was running leaves the other calls, the source and, as long as
\* p runs, its events.
Stays(p) ==
    /\ \A q \in Builders : q # p => bpc'[q] = bpc[q] /\ job'[q] = job[q]
    /\ bpc'[p] # "idle" => job'[p].events = job[p].events
    /\ source' = source /\ shrinks' = shrinks /\ crossed' = crossed

LEMMA SteadyStep ==
    ASSUME IndexTypes, IndexTypes', Steady(meta, rows, source, bpc, job, raised),
           NEW p \in Builders, bpc[p] # "idle", Stays(p), ~ raised',
           Fits(rows', job[p].events), Marked(meta', job[p].events),
           bpc'[p] \in {"built", "assemble"} =>
              meta' # NoMeta /\ \A k \in 1..Tiers : Ordered(rows'[k])
    PROVE  Steady(meta', rows', source', bpc', job', raised')
<1>1. PICK E \in Seq(Nat) : E = job[p].events
    BY JobIs
<1>2. Prefix(E, source) /\ \A q \in Builders : bpc[q] # "idle" => q = p
    BY <1>1 DEF Steady
<1>3. source' = source /\ source \in Seq(Nat)
    BY DEF Stays, IndexTypes
<1>4. rows' \in Files /\ meta' \in Metas \cup {NoMeta}
    BY DEF IndexTypes
<1>5. Fits(rows', source) /\ Marked(meta', source)
    BY <1>1, <1>2, <1>3, <1>4, PrefixAgrees
<1>6. \A q \in Builders : bpc'[q] # "idle" => q = p
    BY <1>2 DEF Stays
<1>7. bpc'[p] # "idle" => job'[p].events = E
    BY <1>1 DEF Stays
<1>8. ASSUME NEW q \in Builders, bpc'[q] # "idle"
      PROVE  /\ Prefix(job'[q].events, source') /\ Fits(rows', job'[q].events)
             /\ Marked(meta', job'[q].events)
    BY <1>1, <1>2, <1>3, <1>6, <1>7, <1>8
<1>9. ASSUME NEW q \in Builders, bpc'[q] \in {"built", "assemble"}
      PROVE  meta' # NoMeta /\ \A k \in 1..Tiers : Ordered(rows'[k])
    BY <1>6, <1>9
<1>10. Fits(rows', source') /\ Marked(meta', source')
    BY <1>3, <1>5
<1> QED BY <1>6, <1>8, <1>9, <1>10 DEF Steady

LEMMA SteadyIs ==
    ASSUME IndexTypes, Steady(meta, rows, source, bpc, job, raised),
           NEW p \in Builders, bpc[p] # "idle"
    PROVE  /\ ~ raised /\ Fits(rows, job[p].events) /\ Marked(meta, job[p].events)
           /\ bpc[p] \in {"built", "assemble"} =>
                 meta # NoMeta /\ \A k \in 1..Tiers : Ordered(rows[k])
BY DEF Steady

LEMMA RepeatsStays ==
    ASSUME IndexTypes, NEW p \in Builders, Repeats(p), ~ job[p].force
    PROVE  /\ Stays(p) /\ meta' = meta /\ rows' = rows /\ raised' = raised
           /\ bpc'[p] = "begin"
<1>1. job \in [Builders -> Jobs] /\ bpc \in [Builders -> BuildSteps] /\ job[p] \in Jobs
    BY JobIs DEF IndexTypes
<1>2. PICK j : j = [job[p] EXCEPT !.force = TRUE]
    OBVIOUS
<1>3. j.events = job[p].events
    BY <1>1, <1>2 DEF Jobs
<1>4. /\ bpc' = [bpc EXCEPT ![p] = "begin"] /\ job' = [job EXCEPT ![p] = j]
      /\ UNCHANGED <<source, shrinks, meta, rows, crossed, raised>>
    BY <1>2 DEF Repeats, BuildGoto, sourceVars, indexVars
<1>5. bpc'[p] = "begin" /\ job'[p] = j
    BY <1>1, <1>4
<1>6. \A q \in Builders : q # p => bpc'[q] = bpc[q] /\ job'[q] = job[q]
    BY <1>1, <1>4
<1> QED BY <1>3, <1>4, <1>5, <1>6 DEF Stays

\* Every step of a running call that changes only the step and the locals.
LEMMA LocalStays ==
    ASSUME IndexTypes, NEW p \in Builders, NEW b, NEW j, j.events = job[p].events,
           bpc' = [bpc EXCEPT ![p] = b], job' = [job EXCEPT ![p] = j],
           UNCHANGED <<source, shrinks, crossed>>
    PROVE  Stays(p) /\ bpc'[p] = b
<1>1. job \in [Builders -> Jobs] /\ bpc \in [Builders -> BuildSteps]
    BY DEF IndexTypes
<1>2. bpc'[p] = b /\ job'[p] = j
    BY <1>1
<1>3. \A q \in Builders : q # p => bpc'[q] = bpc[q] /\ job'[q] = job[q]
    BY <1>1
<1> QED BY <1>2, <1>3 DEF Stays

LEMMA BeginSteady ==
    ASSUME IndexInv, IndexInv', Steady(meta, rows, source, bpc, job, raised),
           NEW p \in Builders, BuildBegin(p)
    PROVE  Stays(p) /\ Steady(meta', rows', source', bpc', job', raised')
<1>1. IndexTypes /\ IndexTypes'
    BY DEF IndexInv
<1>2. PICK mark : mark = IF meta = NoMeta THEN 0 ELSE meta.watermark
    OBVIOUS
<1>3. PICK E : E = job[p].events
    OBVIOUS
<1>4. bpc[p] = "begin" /\ ~ job[p].force /\ bpc[p] # "idle"
    BY DEF BuildBegin
<1>5. ~ raised /\ Fits(rows, E) /\ Marked(meta, E)
    BY <1>1, <1>3, <1>4, SteadyIs
<1>6. ~ Changed(E)
    BY <1>5 DEF Changed, Marked
<1>7. job[p] \in Jobs
    BY <1>1, JobIs
<1>8. Stays(p) /\ meta' = meta /\ rows' = rows /\ raised' = raised
      /\ bpc'[p] \in {"begin", "windows"}
  <2>1. \/ /\ job' = [job EXCEPT ![p].gap = TRUE, ![p].force = TRUE]
           /\ Locally(p, "begin")
        \/ Repeats(p)
        \/ /\ BuildGoto(p, "windows")
           /\ job' = [job EXCEPT ![p].mark = mark, ![p].fresh = (meta = NoMeta)]
           /\ UNCHANGED <<sourceVars, indexVars, indexKills, crossed, raised>>
    BY <1>2, <1>3, <1>6 DEF BuildBegin
  <2>2. CASE /\ job' = [job EXCEPT ![p].gap = TRUE, ![p].force = TRUE]
             /\ Locally(p, "begin")
    <3>1. PICK j : j = [job[p] EXCEPT !.gap = TRUE, !.force = TRUE]
      OBVIOUS
    <3>2. j.events = job[p].events
      BY <1>7, <3>1 DEF Jobs
    <3>3. job' = [job EXCEPT ![p] = j]
      BY <1>1, <2>2, <3>1 DEF IndexTypes
    <3>4. /\ bpc' = [bpc EXCEPT ![p] = "begin"]
          /\ UNCHANGED <<source, shrinks, crossed, meta, rows, raised>>
      BY <2>2 DEF Locally, BuildGoto, sourceVars, indexVars
    <3> QED BY <1>1, <3>2, <3>3, <3>4, LocalStays
  <2>3. CASE Repeats(p)
    BY <1>1, <1>4, <2>3, RepeatsStays
  <2>4. CASE /\ BuildGoto(p, "windows")
             /\ job' = [job EXCEPT ![p].mark = mark, ![p].fresh = (meta = NoMeta)]
             /\ UNCHANGED <<sourceVars, indexVars, indexKills, crossed, raised>>
    <3>1. PICK j : j = [job[p] EXCEPT !.mark = mark, !.fresh = (meta = NoMeta)]
      OBVIOUS
    <3>2. j.events = job[p].events
      BY <1>7, <3>1 DEF Jobs
    <3>3. job' = [job EXCEPT ![p] = j]
      BY <1>1, <2>4, <3>1 DEF IndexTypes
    <3>4. /\ bpc' = [bpc EXCEPT ![p] = "windows"]
          /\ UNCHANGED <<source, shrinks, crossed, meta, rows, raised>>
      BY <2>4 DEF BuildGoto, sourceVars, indexVars
    <3> QED BY <1>1, <3>2, <3>3, <3>4, LocalStays
  <2> QED BY <2>1, <2>2, <2>3, <2>4
<1>9. Fits(rows', job[p].events) /\ Marked(meta', job[p].events) /\ ~ raised'
    BY <1>3, <1>5, <1>8
<1> QED BY <1>1, <1>4, <1>8, <1>9, SteadyStep

LEMMA ResetSteady ==
    ASSUME IndexInv, IndexInv', Steady(meta, rows, source, bpc, job, raised),
           NEW p \in Builders, ForceBegin(p) \/ ResetTier(p)
    PROVE  Stays(p) /\ Steady(meta', rows', source', bpc', job', raised')
<1>1. IndexTypes /\ IndexTypes' /\ job[p] \in Jobs
    BY JobIs DEF IndexInv
<1>2. bpc[p] \in {"begin", "reset"} /\ bpc[p] # "idle" /\ raised' = raised
    BY DEF ForceBegin, ResetTier
<1>3. Stays(p) /\ bpc'[p] = "reset"
  <2>1. CASE ForceBegin(p)
    <3>1. PICK j : j = [job[p] EXCEPT !.mark = 0, !.fresh = TRUE]
      OBVIOUS
    <3>2. j.events = job[p].events
      BY <1>1, <3>1 DEF Jobs
    <3>3. /\ job' = [job EXCEPT ![p] = j] /\ bpc' = [bpc EXCEPT ![p] = "reset"]
          /\ UNCHANGED <<source, shrinks, crossed>>
      BY <1>1, <2>1, <3>1 DEF ForceBegin, BuildGoto, sourceVars, IndexTypes
    <3> QED BY <1>1, <3>2, <3>3, LocalStays
  <2>2. CASE ResetTier(p)
    BY <2>2 DEF ResetTier, Stays, sourceVars
  <2> QED BY <2>1, <2>2
<1>4. /\ meta' = NoMeta
      /\ \A y \in 1..Tiers : \A n \in DOMAIN rows'[y] : n \in DOMAIN rows[y] /\ rows'[y][n] = rows[y][n]
    BY ResetKeeps
<1>5. ~ raised /\ Fits(rows, job[p].events)
    BY <1>1, <1>2, SteadyIs
<1>6. Fits(rows', job[p].events) /\ Marked(meta', job[p].events)
    BY <1>4, <1>5 DEF Fits, Marked
<1> QED BY <1>1, <1>2, <1>3, <1>5, <1>6, SteadyStep

\* A block appended at a place of its tier.
LEMMA AppendSteady ==
    ASSUME IndexInv, IndexInv', Steady(meta, rows, source, bpc, job, raised),
           NEW p \in Builders, bpc[p] \in Building, NEW k \in 1..Tiers, NEW a \in Nat,
           a % Size(k) = 0, a + Size(k) <= Len(job[p].events), AppendBlock(p, k, a)
    PROVE  Stays(p) /\ Steady(meta', rows', source', bpc', job', raised')
<1>1. IndexTypes /\ IndexTypes' /\ job[p] \in Jobs /\ rows \in Files
    BY JobIs DEF IndexInv, IndexTypes
<1>2. PICK E \in Seq(Nat) : E = job[p].events
    BY <1>1, JobIs
<1>3. PICK j : j = [job[p] EXCEPT !.fresh = TRUE]
    OBVIOUS
<1>4. j.events = job[p].events
    BY <1>1, <1>3 DEF Jobs
<1>5. /\ job' = [job EXCEPT ![p] = j] /\ bpc' = bpc
      /\ rows' = [rows EXCEPT ![k] = Append(@, Block(E, k, a))]
      /\ UNCHANGED <<source, shrinks, crossed, meta, raised>>
    BY <1>1, <1>2, <1>3 DEF AppendBlock, sourceVars, IndexTypes
<1>6. bpc' = [bpc EXCEPT ![p] = bpc[p]]
    BY <1>1, <1>5, JobIs
<1>7. Stays(p) /\ bpc'[p] = bpc[p]
    BY <1>1, <1>4, <1>5, <1>6, LocalStays
<1>8. bpc[p] # "idle" /\ bpc[p] \notin {"built", "assemble"}
    BY DEF Building
<1>9. ~ raised /\ Fits(rows, E) /\ Marked(meta, E)
    BY <1>1, <1>2, <1>8, SteadyIs
<1>10. Fits(rows', E)
  <2>1. PICK b \in Blocks : b = Block(E, k, a)
    BY <1>2, BlockIs
  <2>2. rows' = [rows EXCEPT ![k] = Append(@, b)]
    BY <1>5, <2>1
  <2>3. Appended(rows', rows, k, b)
    BY <1>1, <2>2, AppendIs
  <2>4. Appended(rows', rows, k, Block(E, k, a)) /\ a + Size(k) <= Len(E)
    BY <1>2, <2>1, <2>3
  <2> QED BY <1>1, <1>9, <2>4, FitsGrows
<1>11. Fits(rows', job[p].events) /\ Marked(meta', job[p].events) /\ ~ raised'
    BY <1>2, <1>5, <1>9, <1>10
<1> QED BY <1>1, <1>7, <1>8, <1>11, SteadyStep

\* What is missing is at a place of its tier.
LEMMA MissingPlace ==
    ASSUME IndexTypes, NEW p \in Builders, NEW k \in 1..Tiers, NEW S \in SUBSET Missing(p, k),
           S # {}, NEW a, a = Earliest(S)
    PROVE  a \in Nat /\ a % Size(k) = 0 /\ a + Size(k) <= Len(job[p].events)
<1>1. Missing(p, k) \in SUBSET Nat
    BY JobIs DEF Missing
<1>2. S \in SUBSET Nat
    BY <1>1
<1>3. a \in S
    BY <1>2, EarliestIs
<1>4. a \in Missing(p, k)
    BY <1>3
<1> QED BY <1>1, <1>4 DEF Missing

LEMMA SealSteady ==
    ASSUME IndexInv, IndexInv', Steady(meta, rows, source, bpc, job, raised),
           NEW p \in Builders, SealWindow(p) \/ SealHigher(p)
    PROVE  Stays(p) /\ Steady(meta', rows', source', bpc', job', raised')
<1>1. IndexTypes
    BY DEF IndexInv
<1>2. CASE SealWindow(p)
  <2>1. PICK a : a = Earliest(MissingWindows(p))
    OBVIOUS
  <2>2. bpc[p] \in Building /\ MissingWindows(p) # {} /\ AppendBlock(p, 1, a)
    BY <1>2, <2>1 DEF SealWindow, Building
  <2>3. 1 \in 1..Tiers /\ MissingWindows(p) \in SUBSET Missing(p, 1)
    BY SizeIs DEF MissingWindows
  <2>4. a \in Nat /\ a % Size(1) = 0 /\ a + Size(1) <= Len(job[p].events)
    BY <1>1, <2>1, <2>2, <2>3, MissingPlace
  <2> QED BY <2>2, <2>3, <2>4, AppendSteady
<1>3. CASE SealHigher(p)
  <2>1. PICK k, a : k = job[p].tier /\ a = Earliest(Complete(p, k))
    OBVIOUS
  <2>2. bpc[p] = "seal" /\ bpc[p] \in Building /\ Complete(p, k) # {} /\ AppendBlock(p, k, a)
    BY <1>3, <2>1 DEF SealHigher, Building
  <2>3. PICK lo, hi \in Indices : Work("seal", job[p], meta, rows, lo, hi)
    BY <2>2, WorkIs
  <2>4. k \in 1..Tiers
    BY <2>1, <2>3, SizeIs DEF Work, AtTier
  <2>5. Complete(p, k) \in SUBSET Missing(p, k)
    BY DEF Complete
  <2>6. a \in Nat /\ a % Size(k) = 0 /\ a + Size(k) <= Len(job[p].events)
    BY <1>1, <2>1, <2>2, <2>4, <2>5, MissingPlace
  <2> QED BY <2>2, <2>4, <2>6, AppendSteady
<1> QED BY <1>2, <1>3

\* A step that leaves the index alone, and is not the one that finds the index built.
LEMMA CalmSteady ==
    ASSUME IndexInv, IndexInv', Steady(meta, rows, source, bpc, job, raised),
           NEW p \in Builders, bpc[p] # "idle", Stays(p), ~ raised',
           meta' = meta, rows' = rows,
           bpc'[p] \in {"built", "assemble"} =>
              meta # NoMeta /\ \A k \in 1..Tiers : Ordered(rows[k])
    PROVE  Steady(meta', rows', source', bpc', job', raised')
<1>1. IndexTypes /\ IndexTypes'
    BY DEF IndexInv
<1>2. Fits(rows', job[p].events) /\ Marked(meta', job[p].events)
    BY <1>1, SteadyIs
<1> QED BY <1>1, <1>2, SteadyStep

LEMMA LoopSteady ==
    ASSUME IndexInv, IndexInv', Steady(meta, rows, source, bpc, job, raised),
           NEW p \in Builders,
           ResetEnds(p) \/ WindowsSealed(p) \/ TierSealed(p) \/ EnterTier(p)
    PROVE  Stays(p) /\ Steady(meta', rows', source', bpc', job', raised')
<1>1. IndexTypes /\ job[p] \in Jobs /\ job \in [Builders -> Jobs]
    BY JobIs DEF IndexInv, IndexTypes
<1>2. bpc[p] # "idle"
    BY DEF ResetEnds, WindowsSealed, TierSealed, EnterTier
<1>3. ~ raised
    BY DEF Steady
<1>4. ASSUME NEW b, Locally(p, b), NEW j, j.events = job[p].events,
             job' = [job EXCEPT ![p] = j]
      PROVE  Stays(p) /\ bpc'[p] = b /\ meta' = meta /\ rows' = rows /\ ~ raised'
  <2>1. /\ bpc' = [bpc EXCEPT ![p] = b]
        /\ UNCHANGED <<source, shrinks, crossed, meta, rows, raised>>
    BY <1>4 DEF Locally, BuildGoto, sourceVars, indexVars
  <2> QED BY <1>1, <1>3, <1>4, <2>1, LocalStays
<1>5. CASE ResetEnds(p)
  <2>1. job' = [job EXCEPT ![p] = job[p]] /\ Locally(p, "windows")
    BY <1>1, <1>5 DEF ResetEnds
  <2>2. Stays(p) /\ bpc'[p] = "windows" /\ meta' = meta /\ rows' = rows /\ ~ raised'
    BY <1>4, <2>1
  <2> QED BY <1>2, <2>2, CalmSteady
<1>6. CASE WindowsSealed(p)
  <2>1. PICK j : j = [job[p] EXCEPT !.tier = 2]
    OBVIOUS
  <2>2. job' = [job EXCEPT ![p] = j] /\ Locally(p, "tier") /\ j.events = job[p].events
    BY <1>1, <1>6, <2>1 DEF WindowsSealed, Jobs
  <2>3. Stays(p) /\ bpc'[p] = "tier" /\ meta' = meta /\ rows' = rows /\ ~ raised'
    BY <1>4, <2>2
  <2> QED BY <1>2, <2>3, CalmSteady
<1>7. CASE TierSealed(p)
  <2>1. PICK j : j = [job[p] EXCEPT !.tier = @ + 1]
    OBVIOUS
  <2>2. job' = [job EXCEPT ![p] = j] /\ Locally(p, "tier") /\ j.events = job[p].events
    BY <1>1, <1>7, <2>1 DEF TierSealed, Jobs
  <2>3. Stays(p) /\ bpc'[p] = "tier" /\ meta' = meta /\ rows' = rows /\ ~ raised'
    BY <1>4, <2>2
  <2> QED BY <1>2, <2>3, CalmSteady
<1>8. CASE EnterTier(p)
  <2>1. /\ Repeats(p) => ~ job[p].force
        /\ bpc'[p] = "built" => meta # NoMeta /\ \A k \in 1..Tiers : Ordered(rows[k])
    BY <1>8, EnterTierBuilds
  <2>2. Stays(p) /\ meta' = meta /\ rows' = rows /\ ~ raised'
        /\ bpc'[p] \in {"compact", "built", "seal", "begin"}
    <3>1. PICK k : k = job[p].tier
      OBVIOUS
    <3>2. \/ /\ job' = [job EXCEPT ![p].top = k - 1, ![p].tier = 1]
             /\ \E b \in {"compact", "built"} : Locally(p, b)
          \/ job' = job /\ Locally(p, "seal")
          \/ Repeats(p)
      BY <1>8, <3>1 DEF EnterTier
    <3>3. CASE /\ job' = [job EXCEPT ![p].top = k - 1, ![p].tier = 1]
               /\ \E b \in {"compact", "built"} : Locally(p, b)
      <4>1. PICK j : j = [job[p] EXCEPT !.top = k - 1, !.tier = 1]
        OBVIOUS
      <4>2. job' = [job EXCEPT ![p] = j] /\ j.events = job[p].events
        BY <1>1, <3>3, <4>1 DEF Jobs
      <4> QED BY <1>4, <3>3, <4>2
    <3>4. CASE job' = job /\ Locally(p, "seal")
      <4>1. job' = [job EXCEPT ![p] = job[p]]
        BY <1>1, <3>4
      <4> QED BY <1>4, <3>4, <4>1
    <3>5. CASE Repeats(p)
      BY <1>1, <1>3, <2>1, <3>5, RepeatsStays
    <3> QED BY <3>2, <3>3, <3>4, <3>5
  <2>3. bpc'[p] \in {"built", "assemble"} => meta # NoMeta /\ \A k \in 1..Tiers : Ordered(rows[k])
    BY <2>1, <2>2
  <2> QED BY <1>2, <2>2, <2>3, CalmSteady
<1> QED BY <1>5, <1>6, <1>7, <1>8

LEMMA CompactSteady ==
    ASSUME IndexInv, IndexInv', Steady(meta, rows, source, bpc, job, raised),
           NEW p \in Builders, CompactTier(p)
    PROVE  Stays(p) /\ Steady(meta', rows', source', bpc', job', raised')
<1>1. IndexTypes /\ IndexTypes'
    BY DEF IndexInv
<1>2. /\ raised' = raised /\ meta' = meta
      /\ Builds(p, "compact", job'[p]) /\ job'[p].events = job[p].events
      /\ \A y \in 1..Tiers : \A n \in DOMAIN rows'[y] :
            \E x \in DOMAIN rows[y] : rows'[y][n] = rows[y][x]
    BY CompactTierBuilds
<1>3. bpc[p] # "idle" /\ bpc[p] = "compact"
    BY DEF CompactTier
<1>4. ~ Repeats(p)
  <2>1. Repeats(p) => bpc'[p] \in {"idle", "begin"}
    BY <1>1 DEF Repeats, Raises, BuildGoto, IndexTypes
  <2>2. bpc'[p] = "compact"
    BY <1>2 DEF Builds, Moves
  <2> QED BY <2>1, <2>2
<1>5. UNCHANGED <<source, shrinks, crossed>>
    BY <1>4 DEF CompactTier, sourceVars
<1>6. Stays(p) /\ bpc'[p] = "compact"
    BY <1>2, <1>5 DEF Stays, Builds, Moves
<1>7. ~ raised /\ Fits(rows, job[p].events) /\ Marked(meta, job[p].events)
    BY <1>1, <1>3, SteadyIs
<1>8. Fits(rows', job[p].events)
    BY <1>2, <1>7 DEF Fits
<1> QED BY <1>1, <1>2, <1>3, <1>6, <1>7, <1>8, SteadyStep

LEMMA WriteMetaSteady ==
    ASSUME IndexInv, IndexInv', Steady(meta, rows, source, bpc, job, raised),
           NEW p \in Builders, WriteMeta(p)
    PROVE  Stays(p) /\ Steady(meta', rows', source', bpc', job', raised')
<1>1. IndexTypes /\ IndexTypes'
    BY DEF IndexInv
<1>2. PICK E \in Seq(Nat) : E = job[p].events
    BY <1>1, JobIs
<1>10. PICK s : s = Sealed(E, Len(E))
    OBVIOUS
<1>3. /\ bpc[p] # "idle" /\ meta' = [watermark |-> Len(E), sealed |-> s]
      /\ bpc' = [bpc EXCEPT ![p] = "built"] /\ job' = [job EXCEPT ![p] = job[p]]
      /\ UNCHANGED <<source, shrinks, crossed, rows, raised>>
    BY <1>1, <1>2, <1>10, JobIs DEF WriteMeta, BuildGoto, sourceVars
<1>4. Stays(p) /\ bpc'[p] = "built"
    BY <1>1, <1>3, LocalStays
<1>5. ~ raised /\ Fits(rows, job[p].events)
    BY <1>1, <1>3, SteadyIs
<1>6. meta'.watermark = Len(E) /\ meta'.sealed = s /\ Len(E) \in Nat
    BY <1>2, <1>3, LenProperties
<1>7. Marked(meta', job[p].events)
    BY <1>2, <1>6, <1>10 DEF Marked
<1>8. meta' # NoMeta
  <2>1. s \in Seq(Nat)
    BY <1>6, <1>10, SealedIs
  <2>2. meta' \in [watermark : Nat, sealed : Seq(Nat)]
    BY <1>3, <1>6, <2>1
  <2> QED BY <2>2, IndexScenesAssumption
<1>9. \A k \in 1..Tiers : Ordered(rows'[k])
    BY <1>3, WriteMetaKeeps
<1> QED BY <1>1, <1>3, <1>4, <1>5, <1>7, <1>8, <1>9, SteadyStep

LEMMA EndSteady ==
    ASSUME IndexInv, IndexInv', Steady(meta, rows, source, bpc, job, raised),
           NEW p \in Builders,
           BuildEnds(p) \/ WriteGap(p) \/ Assemble(p) \/ BuilderKilled(p)
    PROVE  Stays(p) /\ Steady(meta', rows', source', bpc', job', raised')
<1>1. IndexTypes /\ bpc \in [Builders -> BuildSteps] /\ job \in [Builders -> Jobs]
    BY DEF IndexInv, IndexTypes
<1>2. bpc[p] # "idle"
    BY DEF BuildEnds, WriteGap, Assemble, BuilderKilled
<1>3. /\ ~ raised /\ Fits(rows, job[p].events) /\ Marked(meta, job[p].events)
      /\ bpc[p] \in {"built", "assemble"} =>
            meta # NoMeta /\ \A k \in 1..Tiers : Ordered(rows[k])
    BY <1>1, <1>2, SteadyIs
<1>4. CASE BuildEnds(p) \/ WriteGap(p)
  <2>1. /\ bpc[p] = "built" /\ bpc'[p] \in {"built", "assemble"} /\ job' = job
        /\ \A q \in Builders : q # p => bpc'[q] = bpc[q]
        /\ UNCHANGED <<source, shrinks, crossed, meta, rows, raised>>
    BY <1>1, <1>4 DEF BuildEnds, WriteGap, BuildGoto, sourceVars, indexVars
  <2>2. Stays(p)
    BY <2>1 DEF Stays
  <2> QED BY <1>2, <1>3, <2>1, <2>2, CalmSteady
<1>5. ASSUME bpc' = [bpc EXCEPT ![p] = "idle"], job' = [job EXCEPT ![p] = NoJob],
             UNCHANGED <<source, shrinks, crossed, meta, rows, raised>>
      PROVE  Stays(p) /\ Steady(meta', rows', source', bpc', job', raised')
  <2>1. bpc'[p] = "idle" /\ \A q \in Builders : q # p => bpc'[q] = bpc[q] /\ job'[q] = job[q]
    BY <1>1, <1>5
  <2>2. Stays(p)
    BY <1>5, <2>1 DEF Stays
  <2> QED BY <1>2, <1>3, <1>5, <2>1, <2>2, CalmSteady
<1>6. CASE BuilderKilled(p)
    BY <1>5, <1>6 DEF BuilderKilled, BuildGoto, sourceVars, indexVars
<1>7. CASE Assemble(p)
  <2>1. PICK E : E = job[p].events
    OBVIOUS
  <2>2. bpc[p] = "assemble"
    BY <1>7 DEF Assemble
  <2>3. meta # NoMeta /\ \A k \in 1..Tiers : Ordered(rows[k])
    BY <1>3, <2>2
  <2>4. meta.watermark <= Len(E) /\ ~ Changed(E)
    BY <1>3, <2>1, <2>3 DEF Marked, Changed
  <2>5. RowsTrue(E)
    BY <1>3, <2>1, <2>3 DEF RowsTrue, Fits
  <2>6. Valid(E)
    BY <2>3, <2>4, <2>5 DEF Valid
  <2> QED BY <1>5, <1>7, <2>1, <2>6 DEF Assemble, Locally, BuildGoto, sourceVars, indexVars
<1> QED BY <1>4, <1>6, <1>7

\* The next call begins when no other runs.
LEMMA LoadSteady ==
    ASSUME IndexInv, Steady(meta, rows, source, bpc, job, raised),
           NEW p \in Builders, LoadBegin(p), ~ crossed'
    PROVE  Steady(meta', rows', source', bpc', job', raised')
<1>1. bpc \in [Builders -> BuildSteps] /\ job \in [Builders -> Jobs] /\ source \in Seq(Nat)
    BY DEF IndexInv, IndexTypes
<1>2. \A q \in Builders : bpc[q] = "idle"
    BY DEF LoadBegin
<1>3. PICK j : j = [NoJob EXCEPT !.events = source]
    OBVIOUS
<1>4. j.events = source
    BY <1>3 DEF NoJob
<1>5. /\ bpc' = [bpc EXCEPT ![p] = "load"] /\ job' = [job EXCEPT ![p] = j]
      /\ UNCHANGED <<source, meta, rows, raised>>
    BY <1>3 DEF LoadBegin, BuildGoto, sourceVars, indexVars
<1>6. bpc'[p] = "load" /\ job'[p].events = source
    BY <1>1, <1>4, <1>5
<1>7. \A q \in Builders : q # p => bpc'[q] = "idle"
    BY <1>1, <1>2, <1>5
<1>8. ~ raised /\ Fits(rows, source) /\ Marked(meta, source)
    BY DEF Steady
<1>9. Prefix(source, source)
    BY <1>1, LenProperties DEF Prefix
<1>10. \A q \in Builders : bpc'[q] # "idle" =>
          /\ Prefix(job'[q].events, source') /\ Fits(rows', job'[q].events)
          /\ Marked(meta', job'[q].events)
    BY <1>5, <1>6, <1>7, <1>8, <1>9
<1>11. \A q \in Builders : bpc'[q] \notin {"built", "assemble"}
    BY <1>6, <1>7
<1>12. ~ raised' /\ Fits(rows', source') /\ Marked(meta', source')
    BY <1>5, <1>8
<1> QED BY <1>7, <1>10, <1>11, <1>12 DEF Steady

LEMMA LoadedSteady ==
    ASSUME IndexInv, IndexInv', Steady(meta, rows, source, bpc, job, raised),
           NEW p \in Builders, LoadEnds(p) \/ LoadRefused(p)
    PROVE  Stays(p) /\ Steady(meta', rows', source', bpc', job', raised')
<1>1. IndexTypes /\ IndexTypes' /\ bpc \in [Builders -> BuildSteps] /\ job \in [Builders -> Jobs]
    BY DEF IndexInv, IndexTypes
<1>2. bpc[p] # "idle" /\ UNCHANGED <<source, shrinks, meta, rows, crossed, raised>>
    BY <1>1, LoadedIs
<1>3. ~ raised /\ Fits(rows, job[p].events) /\ Marked(meta, job[p].events)
    BY <1>1, <1>2, SteadyIs
<1>4. Stays(p) /\ bpc'[p] \in {"idle", "begin"}
  <2>1. CASE bpc' = [bpc EXCEPT ![p] = "idle"] /\ job' = [job EXCEPT ![p] = NoJob]
    <3>1. bpc'[p] = "idle" /\ \A q \in Builders : q # p => bpc'[q] = bpc[q] /\ job'[q] = job[q]
      BY <1>1, <2>1
    <3> QED BY <1>2, <3>1 DEF Stays
  <2>2. ASSUME NEW j \in Jobs, j.events = job[p].events, bpc' = [bpc EXCEPT ![p] = "begin"],
               job' = [job EXCEPT ![p] = j]
        PROVE  Stays(p) /\ bpc'[p] = "begin"
    BY <1>1, <1>2, <2>2, LocalStays
  <2> QED BY <1>1, <2>1, <2>2, LoadedIs
<1> QED BY <1>1, <1>2, <1>3, <1>4, SteadyStep

LEMMA GrowsSteady ==
    ASSUME IndexInv, Steady(meta, rows, source, bpc, job, raised),
           NEW n \in 1..extent.events, SourceGrows(n)
    PROVE  Steady(meta', rows', source', bpc', job', raised')
<1>1. IndexTypes /\ rows \in Files /\ source \in Seq(Nat) /\ meta \in Metas \cup {NoMeta}
    BY DEF IndexInv, IndexTypes
<1>2. PICK s \in Seq(Nat) : /\ s = source' /\ Len(s) = Len(source) + n
                            /\ \A i \in 1..Len(source) : s[i] = source[i]
    BY <1>1, GrowsIs
<1>3. UNCHANGED <<meta, rows, bpc, job, raised>> /\ n \in Nat /\ Len(source) \in Nat
    BY <1>1, LenProperties, IndexScenesAssumption DEF SourceGrows, indexVars, IndexTypes
<1>4. Prefix(source, s)
    BY <1>2, <1>3 DEF Prefix
<1>5. Fits(rows, s) /\ Marked(meta, s)
    BY <1>1, <1>4, PrefixAgrees DEF Steady
<1>6. ASSUME NEW p \in Builders, bpc[p] # "idle" PROVE Prefix(job[p].events, s)
  <2>1. Prefix(job[p].events, source) /\ Len(job[p].events) \in Nat
    BY <1>1, <1>6, JobIs DEF Steady
  <2>2. PICK j : j = job[p].events
    OBVIOUS
  <2>3. Len(j) <= Len(source) /\ \A i \in 1..Len(j) : j[i] = source[i]
    BY <2>1, <2>2 DEF Prefix
  <2>4. Len(j) <= Len(s) /\ \A i \in 1..Len(j) : j[i] = s[i]
    BY <1>2, <1>3, <2>1, <2>2, <2>3
  <2> QED BY <2>2, <2>4 DEF Prefix
<1> QED BY <1>2, <1>3, <1>5, <1>6 DEF Steady

LEMMA SteadyInvInit == ASSUME EpisodicInit PROVE SteadyInv
<1>1. source = <<>> /\ \A k \in 1..Tiers : rows[k] = <<>>
    BY DEF EpisodicInit
<1>2. Fits(rows, source)
    BY <1>1 DEF Fits
<1>3. Marked(meta, source) /\ ~ raised /\ shrinks \in Nat /\ \A p \in Builders : bpc[p] = "idle"
    BY DEF EpisodicInit, Marked
<1> QED BY <1>2, <1>3 DEF SteadyInv, Steady

LEMMA SteadyInvStep ==
    ASSUME IndexInv, IndexInv', SteadyInv, [EpisodicNext]_episodicVars
    PROVE  SteadyInv'
<1>1. ASSUME NEW p \in Builders, BuildStep(p) \/ BuilderKilled(p)
      PROVE  /\ shrinks' = shrinks /\ (crossed => crossed')
             /\ Steady(meta, rows, source, bpc, job, raised) /\ ~ crossed' =>
                  Steady(meta', rows', source', bpc', job', raised')
  <2>1. CASE LoadBegin(p)
    <3>1. shrinks' = shrinks /\ (crossed => crossed')
      BY <2>1 DEF LoadBegin, sourceVars
    <3> QED BY <2>1, <3>1, LoadSteady
  <2>2. ASSUME Steady(meta, rows, source, bpc, job, raised), ~ LoadBegin(p)
        PROVE  Stays(p) /\ Steady(meta', rows', source', bpc', job', raised')
    <3>1. CASE BuildBegin(p)
      BY <2>2, <3>1, BeginSteady
    <3>2. CASE ForceBegin(p) \/ ResetTier(p)
      BY <2>2, <3>2, ResetSteady
    <3>3. CASE SealWindow(p) \/ SealHigher(p)
      BY <2>2, <3>3, SealSteady
    <3>4. CASE ResetEnds(p) \/ WindowsSealed(p) \/ TierSealed(p) \/ EnterTier(p)
      BY <2>2, <3>4, LoopSteady
    <3>5. CASE CompactTier(p)
      BY <2>2, <3>5, CompactSteady
    <3>6. CASE WriteMeta(p)
      BY <2>2, <3>6, WriteMetaSteady
    <3>7. CASE BuildEnds(p) \/ WriteGap(p) \/ Assemble(p) \/ BuilderKilled(p)
      BY <2>2, <3>7, EndSteady
    <3>8. CASE LoadEnds(p) \/ LoadRefused(p)
      BY <2>2, <3>8, LoadedSteady
    <3> QED BY <1>1, <2>2, <3>1, <3>2, <3>3, <3>4, <3>5, <3>6, <3>7, <3>8 DEF BuildStep
  <2>3. ~ LoadBegin(p) => shrinks' = shrinks /\ crossed' = crossed
    <3>1. ASSUME Raises(p) \/ Repeats(p) PROVE shrinks' = shrinks /\ crossed' = crossed
      BY <3>1 DEF Raises, Repeats, sourceVars
    <3>2. ASSUME NEW b, Locally(p, b) PROVE shrinks' = shrinks /\ crossed' = crossed
      BY <3>2 DEF Locally, sourceVars
    <3>3. CASE BuildBegin(p)
      BY <3>1, <3>2, <3>3 DEF BuildBegin, sourceVars
    <3>4. CASE EnterTier(p)
      BY <3>1, <3>2, <3>4 DEF EnterTier
    <3>5. CASE CompactTier(p)
      BY <3>1, <3>5 DEF CompactTier, sourceVars
    <3>6. CASE Assemble(p)
      BY <3>1, <3>2, <3>6 DEF Assemble
    <3>7. CASE \/ ForceBegin(p) \/ ResetTier(p) \/ SealWindow(p) \/ SealHigher(p)
               \/ WriteMeta(p) \/ BuildEnds(p) \/ WriteGap(p) \/ BuilderKilled(p)
      BY <3>7 DEF ForceBegin, ResetTier, SealWindow, SealHigher, AppendBlock, WriteMeta,
                  BuildEnds, WriteGap, BuilderKilled, sourceVars
    <3>8. CASE \/ ResetEnds(p) \/ WindowsSealed(p) \/ TierSealed(p)
               \/ LoadEnds(p) \/ LoadRefused(p)
      BY <3>2, <3>8 DEF ResetEnds, WindowsSealed, TierSealed, LoadEnds, LoadRefused
    <3> QED BY <1>1, <3>3, <3>4, <3>5, <3>6, <3>7, <3>8 DEF BuildStep
  <2> QED BY <2>1, <2>2, <2>3
<1>2. CASE \E p \in Builders : BuildStep(p) \/ BuilderKilled(p)
    BY <1>1, <1>2 DEF SteadyInv
<1>3. ASSUME NEW n \in 1..extent.events, SourceGrows(n) PROVE SteadyInv'
  <2>1. shrinks' = shrinks /\ crossed' = crossed
    BY <1>3 DEF SourceGrows
  <2> QED BY <1>3, <2>1, GrowsSteady DEF SteadyInv
<1>4. ASSUME NEW n \in 1..extent.events, SourceShrinks(n) PROVE SteadyInv'
  <2>1. shrinks' = shrinks + 1 /\ shrinks \in Nat
    BY <1>4 DEF SourceShrinks, SteadyInv
  <2>2. shrinks' \in Nat /\ shrinks' # 0
    BY <2>1
  <2> QED BY <2>2 DEF SteadyInv
<1>5. CASE SourceTorn \/ SourceMended \/ UNCHANGED episodicVars
  <2>1. UNCHANGED <<meta, rows, source, bpc, job, raised, shrinks, crossed>>
    BY <1>5 DEF SourceTorn, SourceMended, episodicVars, sourceVars, indexVars
  <2> QED BY <2>1 DEF SteadyInv
<1> QED BY <1>2, <1>3, <1>4, <1>5 DEF EpisodicNext

\* While the source never shrank and no two calls overlapped, a build_audit_index that could
\* load the events ends without an exception, wherever the calls before it were killed and
\* whatever hooks appended, or tore, while events were loaded.
THEOREM KilledCallsRecover == EpisodicSpec => []CrashSafe
<1>1. SteadyInv => CrashSafe
  <2>1. SteadyInv /\ raised => shrinks # 0 \/ crossed
    BY DEF SteadyInv, Steady
  <2>2. SteadyInv /\ shrinks # 0 => shrinks > 0
    BY DEF SteadyInv
  <2> QED BY <2>1, <2>2 DEF CrashSafe
<1>2. EpisodicInit => IndexInv /\ SteadyInv
    BY IndexInvInit, SteadyInvInit
<1>3. IndexInv /\ SteadyInv /\ [EpisodicNext]_episodicVars => IndexInv' /\ SteadyInv'
    BY IndexInvStep, SteadyInvStep
<1> QED BY <1>1, <1>2, <1>3, PTL DEF EpisodicSpec
================================================================================
