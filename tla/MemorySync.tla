------------------------------ MODULE MemorySync ------------------------------
(***************************************************************************)
(* One machine's `ai memory sync`, of memory_sync.py: the lock file of a   *)
(* cycle, then commit, fetch, rebase and push, beside a user who commits   *)
(* and pushes code in the same clone, hooks that write memory, and other   *)
(* machines that push to the same remote.                                  *)
(*                                                                         *)
(* The branch is the first `base` commits of the remote and the commits    *)
(* `ahead` of them, of memory or of code; `known` is as much of the remote *)
(* as was fetched.  One step is one git command or one system call on the  *)
(* lock file, so the daemon and a manual sync interleave, and either may   *)
(* be killed.                                                              *)
(***************************************************************************)
EXTENDS Naturals, Sequences, FiniteSets

CONSTANTS
    Syncs,          \* the daemon and manual calls of sync_once
    MaxKills, MaxCommits, MaxPeerPushes, MaxCycles,    \* bounds
    Gone

\* The lock file: its inode, whose token it holds (Gone: none yet), whether that process
\* died, and whether the file is older than _LOCK_TTL.
LockFiles == [ino : Nat, owner : Syncs \cup {Gone}, dead : BOOLEAN, old : BOOLEAN]

ASSUME SyncBoundsAssumption ==
    {MaxKills, MaxCommits, MaxPeerPushes, MaxCycles} \subseteq Nat /\ Gone \notin LockFiles \cup Syncs

VARIABLES
    lockFile,   \* .ai/cache/memory-sync.lock, or Gone
    inodes,     \* lock files created so far
    spc, saw,   \* the step of each process; the inode it saw, or created
    base, known, ahead, remote,
    dirtyCode, dirtyMemory,     \* changes of tracked files that are not committed
    chainOk,    \* the audit files in the working tree form one valid lineage
    midRebase,  \* a rebase stopped at a conflict and was not aborted yet
    cycles, userCommits, peerPushes, syncKills,
    agedEmpty,  \* history: a lock file turned stale before it had its token
    overlapped, \* history: two cycles ran at once
    stranded,   \* history: a cycle committed memory amid a stopped rebase
    pushed      \* history: the pushes of the cycles

lockVars == <<lockFile, inodes, saw>>
branchVars == <<base, ahead>>
treeState == <<dirtyCode, dirtyMemory, chainOk, midRebase>>
countVars == <<cycles, userCommits, peerPushes, syncKills>>
syncHistory == <<agedEmpty, overlapped, stranded, pushed>>
syncVars == <<lockVars, spc, branchVars, known, remote, treeState, countVars, syncHistory>>

InCycle == {"preflight", "commit", "upstream", "fetch", "count", "rebase", "abort",
            "postflight", "check", "push", "unlock", "unlink"}

SyncInit ==
    /\ lockFile = Gone /\ inodes = 0 /\ saw = [p \in Syncs |-> 0]
    /\ spc = [p \in Syncs |-> "idle"]
    /\ base = 0 /\ known = 0 /\ ahead = <<>> /\ remote = 0
    /\ dirtyCode = FALSE /\ dirtyMemory = FALSE /\ chainOk = TRUE /\ midRebase = FALSE
    /\ cycles = 0 /\ userCommits = 0 /\ peerPushes = 0 /\ syncKills = 0
    /\ agedEmpty = FALSE /\ overlapped = FALSE /\ stranded = FALSE
    /\ pushed = {}

SyncGoto(p, step) == spc' = [spc EXCEPT ![p] = step]

OnlyStep(p, from, to) ==
    /\ spc[p] = from /\ SyncGoto(p, to)
    /\ UNCHANGED <<lockVars, branchVars, known, remote, treeState, countVars, syncHistory>>

-----------------------------------------------------------------------------
(* _acquire_sync_lock and _release_sync_lock *)

\* The lock file is absent; or fresh, or its owner is alive: busy; or it is stale.
LockStat(p) ==
    /\ spc[p] = "idle" /\ cycles < MaxCycles
    /\ IF lockFile = Gone
       THEN SyncGoto(p, "create") /\ UNCHANGED saw
       ELSE /\ lockFile.old
            /\ SyncGoto(p, "owner") /\ saw' = [saw EXCEPT ![p] = lockFile.ino]
    /\ UNCHANGED <<lockFile, inodes, branchVars, known, remote, treeState, countVars,
                   syncHistory>>

Bug_Stealable == TRUE

\* The file, by now maybe another one, names no process or one that is not running.
Stealable == lockFile.owner = Gone \/ lockFile.dead

\* The owner is read: alive, or no file to read: busy or an error.
LockOwner(p) ==
    OnlyStep(p, "owner", IF lockFile # Gone /\ Stealable THEN "inode" ELSE "idle")

\* The inode is read again: another file: busy; no file: a new one may be created.
LockInode(p) ==
    OnlyStep(p, "inode", IF lockFile = Gone THEN "create"
                         ELSE IF lockFile.ino = saw[p] THEN "steal" ELSE "idle")

\* Whatever file is there now is removed.
LockSteal(p) ==
    /\ spc[p] = "steal"
    /\ lockFile' = Gone
    /\ SyncGoto(p, "create")
    /\ UNCHANGED <<inodes, saw, branchVars, known, remote, treeState, countVars, syncHistory>>

\* O_CREAT | O_EXCL: an empty file, unless another process was faster.
LockCreate(p) ==
    /\ spc[p] = "create"
    /\ IF lockFile = Gone /\ cycles < MaxCycles
       THEN /\ inodes' = inodes + 1 /\ cycles' = cycles + 1
            /\ lockFile' = [ino |-> inodes + 1, owner |-> Gone, dead |-> FALSE, old |-> FALSE]
            /\ saw' = [saw EXCEPT ![p] = inodes + 1]
            /\ SyncGoto(p, "token")
       ELSE SyncGoto(p, "idle") /\ UNCHANGED <<inodes, cycles, lockFile, saw>>
    /\ UNCHANGED <<branchVars, known, remote, treeState, userCommits, peerPushes, syncKills,
                   syncHistory>>

\* The token goes to the file p created, also if that was removed; the cycle begins.
LockToken(p) ==
    /\ spc[p] = "token"
    /\ lockFile' = IF lockFile # Gone /\ lockFile.ino = saw[p]
                   THEN [lockFile EXCEPT !.owner = p, !.old = FALSE] ELSE lockFile
    /\ SyncGoto(p, "preflight")
    /\ overlapped' = (overlapped \/ \E q \in Syncs : spc[q] \in InCycle)
    /\ UNCHANGED <<inodes, saw, branchVars, known, remote, treeState, countVars, agedEmpty,
                   stranded, pushed>>

\* os.write or fsync raises: whatever file is there is removed.
LockTokenFails(p) ==
    /\ spc[p] = "token"
    /\ lockFile' = Gone
    /\ SyncGoto(p, "idle")
    /\ UNCHANGED <<inodes, saw, branchVars, known, remote, treeState, countVars, syncHistory>>

\* The token of p is compared with what the file says.
LockRelease(p) ==
    OnlyStep(p, "unlock",
             IF lockFile # Gone /\ lockFile.owner = p /\ ~lockFile.dead THEN "unlink" ELSE "idle")

\* Whatever file is there now is removed.
LockUnlink(p) ==
    /\ spc[p] = "unlink"
    /\ lockFile' = Gone
    /\ SyncGoto(p, "idle")
    /\ UNCHANGED <<inodes, saw, branchVars, known, remote, treeState, countVars, syncHistory>>

\* Two minutes pass (_LOCK_TTL).
LockAges ==
    /\ lockFile # Gone /\ ~lockFile.old
    /\ lockFile' = [lockFile EXCEPT !.old = TRUE]
    /\ agedEmpty' = (agedEmpty \/ lockFile.owner = Gone)
    /\ UNCHANGED <<inodes, saw, spc, branchVars, known, remote, treeState, countVars,
                   overlapped, stranded, pushed>>

-----------------------------------------------------------------------------
(* _sync_once_locked *)

Preflight(p) == OnlyStep(p, "preflight", IF chainOk THEN "commit" ELSE "unlock")

\* The heartbeat is written, so there always is something to commit; memory is
\* staged and committed under the lock of the audit log, after a second preflight.
\* Amid a stopped rebase the commit lands on a detached HEAD, not on the branch.
CommitMemory(p) ==
    /\ spc[p] = "commit"
    /\ IF chainOk
       THEN /\ dirtyMemory' = FALSE /\ stranded' = (stranded \/ midRebase)
            /\ ahead' = IF midRebase THEN ahead ELSE Append(ahead, "memory")
            /\ SyncGoto(p, "upstream")
       ELSE SyncGoto(p, "unlock") /\ UNCHANGED <<dirtyMemory, ahead, stranded>>
    /\ UNCHANGED <<lockVars, base, known, remote, dirtyCode, chainOk, midRebase, countVars,
                   agedEmpty, overlapped, pushed>>

\* The lock of the audit log, git add or git commit fails.
CommitFails(p) == OnlyStep(p, "commit", "unlock")

\* A detached HEAD has no upstream.
Upstream(p) == OnlyStep(p, "upstream", IF midRebase THEN "unlock" ELSE "fetch")

Fetch(p, online) ==
    /\ spc[p] = "fetch"
    /\ known' = IF online THEN remote ELSE known
    /\ SyncGoto(p, "count")
    /\ UNCHANGED <<lockVars, branchVars, remote, treeState, countVars, syncHistory>>

\* How far behind, and whether anything but memory is dirty.
Count(p) ==
    OnlyStep(p, "count", IF known = base THEN "check"
                         ELSE IF dirtyCode THEN "unlock" ELSE "rebase")

\* git refuses a dirty tree; the abort that follows has nothing to abort.
RebaseRefused(p) == (dirtyCode \/ dirtyMemory \/ midRebase) /\ OnlyStep(p, "rebase", "abort")

\* The lineages of two machines may end in one that is not valid, unless there is
\* nothing of this machine to put on top.
RebaseDone(p, valid) ==
    /\ spc[p] = "rebase" /\ ~dirtyCode /\ ~dirtyMemory /\ ~midRebase
    /\ valid \/ ahead # <<>>
    /\ base' = known /\ chainOk' = valid
    /\ SyncGoto(p, "postflight")
    /\ UNCHANGED <<lockVars, ahead, known, remote, dirtyCode, dirtyMemory, midRebase,
                   countVars, syncHistory>>

Bug_RebaseConflict(p) ==
    /\ spc[p] = "rebase" /\ ~dirtyCode /\ ~dirtyMemory /\ ~midRebase /\ ahead # <<>>
    /\ midRebase' = TRUE
    /\ SyncGoto(p, "unlock")
    /\ UNCHANGED <<lockVars, branchVars, known, remote, dirtyCode, dirtyMemory, chainOk,
                   countVars, syncHistory>>

\* git stops amid the rebase, on a detached HEAD.
RebaseConflict(p) ==
    /\ spc[p] = "rebase" /\ ~dirtyCode /\ ~dirtyMemory /\ ~midRebase /\ ahead # <<>>
    /\ midRebase' = TRUE
    /\ SyncGoto(p, "abort")
    /\ UNCHANGED <<lockVars, branchVars, known, remote, dirtyCode, dirtyMemory, chainOk,
                   countVars, syncHistory>>

RebaseAbort(p) ==
    /\ spc[p] = "abort"
    /\ midRebase' = FALSE
    /\ SyncGoto(p, "unlock")
    /\ UNCHANGED <<lockVars, branchVars, known, remote, dirtyCode, dirtyMemory, chainOk,
                   countVars, syncHistory>>

Bug_Postflight(p) == OnlyStep(p, "postflight", "check")

Postflight(p) == OnlyStep(p, "postflight", IF chainOk THEN "check" ELSE "unlock")

\* _ahead_has_non_memory_commit
AheadHasCode == \E i \in DOMAIN ahead : ahead[i] = "code"

PushCheck(p) ==
    OnlyStep(p, "check", IF ahead = <<>> \/ AheadHasCode THEN "unlock" ELSE "push")

\* The branch as it is now is pushed, with what was committed behind the check; the remote
\* refuses what is not a descendant.
Push(p) ==
    /\ spc[p] = "push"
    /\ IF base = remote /\ ~midRebase
       THEN /\ pushed' = pushed \cup {[by |-> p, valid |-> chainOk]}
            /\ remote' = remote + Len(ahead) /\ base' = remote' /\ known' = remote'
            /\ ahead' = <<>>
       ELSE UNCHANGED <<pushed, remote, branchVars, known>>
    /\ SyncGoto(p, "unlock")
    /\ UNCHANGED <<lockVars, treeState, countVars, agedEmpty, overlapped, stranded>>

-----------------------------------------------------------------------------
(* The others *)

UserEdits ==
    /\ ~dirtyCode /\ userCommits < MaxCommits
    /\ dirtyCode' = TRUE
    /\ UNCHANGED <<lockVars, spc, branchVars, known, remote, dirtyMemory, chainOk, midRebase,
                   countVars, syncHistory>>

UserCommits ==
    /\ dirtyCode /\ ~midRebase
    /\ dirtyCode' = FALSE /\ userCommits' = userCommits + 1
    /\ ahead' = Append(ahead, "code")
    /\ UNCHANGED <<lockVars, spc, base, known, remote, dirtyMemory, chainOk, midRebase,
                   cycles, peerPushes, syncKills, syncHistory>>

UserPushes ==
    /\ base = remote /\ ahead # <<>> /\ ~midRebase
    /\ remote' = remote + Len(ahead) /\ base' = remote' /\ known' = remote' /\ ahead' = <<>>
    /\ UNCHANGED <<lockVars, spc, treeState, countVars, syncHistory>>

\* The user aborts a rebase that was left behind, or repairs the audit log.
UserRepairs ==
    /\ midRebase \/ ~chainOk
    /\ \A p \in Syncs : spc[p] = "idle"
    /\ midRebase' = FALSE /\ chainOk' = TRUE
    /\ UNCHANGED <<lockVars, spc, branchVars, known, remote, dirtyCode, dirtyMemory,
                   countVars, syncHistory>>

HookWrites ==
    /\ ~dirtyMemory
    /\ dirtyMemory' = TRUE
    /\ UNCHANGED <<lockVars, spc, branchVars, known, remote, dirtyCode, chainOk, midRebase,
                   countVars, syncHistory>>

PeerPushes ==
    /\ peerPushes < MaxPeerPushes
    /\ peerPushes' = peerPushes + 1 /\ remote' = remote + 1
    /\ UNCHANGED <<lockVars, spc, branchVars, known, treeState, cycles, userCommits, syncKills,
                   syncHistory>>

\* The lock file stays, with the pid of a process that is gone or without one.
SyncKilled(p) ==
    /\ syncKills < MaxKills /\ spc[p] \in InCycle \cup {"token"}
    /\ syncKills' = syncKills + 1
    /\ lockFile' = IF lockFile # Gone /\ lockFile.owner = p THEN [lockFile EXCEPT !.dead = TRUE]
                   ELSE lockFile
    /\ SyncGoto(p, "idle")
    /\ UNCHANGED <<inodes, saw, branchVars, known, remote, treeState, cycles, userCommits,
                   peerPushes, syncHistory>>

-----------------------------------------------------------------------------

SyncCycle(p) ==
    \/ LockStat(p) \/ LockOwner(p) \/ LockInode(p) \/ LockSteal(p) \/ LockCreate(p)
    \/ LockToken(p) \/ LockTokenFails(p) \/ LockRelease(p) \/ LockUnlink(p)
    \/ Preflight(p) \/ CommitMemory(p) \/ CommitFails(p) \/ Upstream(p) \/ Count(p)
    \/ RebaseRefused(p) \/ RebaseConflict(p) \/ RebaseAbort(p)
    \/ Postflight(p) \/ PushCheck(p) \/ Push(p)
    \/ \E b \in BOOLEAN : Fetch(p, b) \/ RebaseDone(p, b)

SyncNext ==
    \/ \E p \in Syncs : SyncCycle(p) \/ SyncKilled(p)
    \/ LockAges \/ UserEdits \/ UserCommits \/ UserPushes \/ UserRepairs
    \/ HookWrites \/ PeerPushes

SyncSpec == SyncInit /\ [][SyncNext]_syncVars

-----------------------------------------------------------------------------
(* Properties *)

\* Two cycles never run at once unless a process was killed, or stood for two minutes
\* between the creation of its lock file and the token in it: age alone and a second call
\* are not enough to lose the lock.
OneCycle == overlapped => syncKills > 0 \/ agedEmpty

\* memory_sync.py: "On any rebase conflict it aborts cleanly and reports -- never a
\* half-merged tree": under the same condition no cycle commits memory amid a stopped
\* rebase, its own or that of another cycle, where the commit would be off the branch.
NeverHalfMerged == stranded => syncKills > 0 \/ agedEmpty

\* What a cycle pushes holds a valid audit lineage, also after a rebase joined the
\* lineages of two machines and after a cycle was killed at any step; two cycles that
\* ran at once are the one exception.
PushesValidAudit == overlapped \/ \A x \in pushed : x.valid
=============================================================================
