----------------------------- MODULE EpisodicIndex -----------------------------
(***************************************************************************)
(* The episodic index over the audit log: episodic_memory.build as         *)
(* episodic_runtime.build_audit_index calls it.                            *)
(*                                                                         *)
(* Tier k holds blocks of Fanout^k events.  A call loads the events and    *)
(* the history gap without a lock, and is refused when the log changed     *)
(* under it or does not parse; then, under the lock of the index, it       *)
(* compares the index with the events, seals the blocks that are missing,  *)
(* compacts, and writes the metadata.  A call whose index is behind the    *)
(* truth is repeated with force, which first drops the index.  Calls       *)
(* overlap, and each may be killed between any two writes.                 *)
(***************************************************************************)
EXTENDS Naturals, Sequences, FiniteSets

CONSTANTS
    Builders,
    Fanout,
    Tiers,          \* bound: tiers of the largest source
    IndexScenes,    \* bounds: each behaviour keeps to those of one scene
    NoMeta, Unlocked

ASSUME FanoutAssumption == Fanout \in Nat \ {0, 1} /\ Tiers \in Nat \ {0}

\* Who builds, how many events there are at most, how often the source shrinks, the kills.
ASSUME IndexScenesAssumption ==
    /\ IndexScenes \subseteq [who : SUBSET Builders, events : Nat, shrinks : Nat, kills : Nat]
    /\ \A x \in IndexScenes : x.events < Fanout ^ (Tiers + 1)
    /\ Unlocked \notin Builders
    /\ NoMeta \notin [watermark : Nat, sealed : Seq(Nat)]

\* What ^ means, for the provers.
ASSUME PowersAssumption ==
    /\ Fanout ^ 1 = Fanout
    /\ \A k \in 1..Tiers : Fanout ^ k \in Nat \ {0} /\ Fanout ^ (k + 1) = Fanout * Fanout ^ k

VARIABLES
    extent,     \* the scene of this behaviour
    source,     \* the events of the audit log; each event is its number
    spoiled,    \* a hook died inside its append: a row is torn, or the files do not link
    drawn, shrinks, indexKills,     \* events, losses and kills so far
    meta,       \* meta.json, or NoMeta
    rows,       \* rows[k]: the blocks in the file of tier k
    gap,        \* history-gap.json exists
    indexLock,  \* holder of .build.lock, or Unlocked
    bpc, job,   \* step and local variables of each call
    crossed,    \* history: a call began while another ran
    raised      \* history: a call that had loaded the events ended in an exception

sourceVars == <<extent, source, spoiled, drawn, shrinks>>
indexVars == <<meta, rows, gap>>
episodicVars == <<sourceVars, indexVars, indexLock, bpc, job, indexKills, crossed, raised>>

Size(k) == Fanout ^ k

NoJob == [events |-> <<>>, gap |-> FALSE, force |-> FALSE, mark |-> 0, fresh |-> TRUE,
          tier |-> 1, top |-> 1]

EpisodicInit ==
    /\ extent \in IndexScenes
    /\ source = <<>> /\ spoiled = FALSE /\ drawn = 0 /\ shrinks = 0 /\ indexKills = 0
    /\ meta = NoMeta /\ rows = [k \in 1..Tiers |-> <<>>] /\ gap = FALSE
    /\ indexLock = Unlocked
    /\ bpc = [p \in Builders |-> "idle"] /\ job = [p \in Builders |-> NoJob]
    /\ crossed = FALSE /\ raised = FALSE

-----------------------------------------------------------------------------
(* What an index should be *)

Block(events, k, start) == [start |-> start, of |-> SubSeq(events, start + 1, start + Size(k))]

\* _recompute_sealed_prefix_digest: the whole windows below the watermark.
Sealed(events, mark) == SubSeq(events, 1, (mark \div Fanout) * Fanout)

\* _read_tier_blocks refuses rows out of order and duplicates.
Ordered(q) == \A i \in 1..(Len(q) - 1) : q[i].start < q[i + 1].start

RowsTrue(events) ==
    \A k \in 1..Tiers : Ordered(rows[k]) /\ \A i \in DOMAIN rows[k] :
        LET b == rows[k][i] IN
        /\ b.start % Size(k) = 0 /\ b.start + Size(k) <= Len(events)
        /\ b = Block(events, k, b.start)

Changed(events) == meta # NoMeta /\ Sealed(events, meta.watermark) # meta.sealed

\* validate_index
Valid(events) ==
    IF meta = NoMeta THEN \A k \in 1..Tiers : rows[k] = <<>>
    ELSE meta.watermark <= Len(events) /\ ~Changed(events) /\ RowsTrue(events)

-----------------------------------------------------------------------------
(* The audit log grows; or its end is lost, or taken back by git. *)

SourceGrows(n) ==
    /\ Len(source) + n <= extent.events
    /\ source' = source \o [i \in 1..n |-> drawn + i] /\ drawn' = drawn + n
    /\ UNCHANGED <<extent, spoiled, shrinks, indexVars, indexLock, bpc, job, indexKills,
                   crossed, raised>>

SourceShrinks(n) ==
    /\ shrinks < extent.shrinks /\ n < Len(source)
    /\ source' = SubSeq(source, 1, n) /\ shrinks' = shrinks + 1
    /\ UNCHANGED <<extent, spoiled, drawn, indexVars, indexLock, bpc, job, indexKills, crossed,
                   raised>>

\* A death in an append or in a rotation, and the repair by hand.
SourceTorn ==
    /\ ~spoiled /\ indexKills < extent.kills
    /\ spoiled' = TRUE /\ indexKills' = indexKills + 1
    /\ UNCHANGED <<extent, source, drawn, shrinks, indexVars, indexLock, bpc, job, crossed,
                   raised>>

SourceMended ==
    /\ spoiled
    /\ spoiled' = FALSE
    /\ UNCHANGED <<extent, source, drawn, shrinks, indexVars, indexLock, bpc, job, indexKills,
                   crossed, raised>>

-----------------------------------------------------------------------------
(* build_audit_index *)

BuildGoto(p, step) == bpc' = [bpc EXCEPT ![p] = step]

\* Nothing but the step and the local variables of p changes.
Locally(p, step) ==
    /\ BuildGoto(p, step)
    /\ UNCHANGED <<sourceVars, indexVars, indexLock, indexKills, crossed, raised>>

\* An exception that build_audit_index does not catch.
Raises(p) ==
    /\ BuildGoto(p, "idle") /\ job' = [job EXCEPT ![p] = NoJob]
    /\ indexLock' = IF indexLock = p THEN Unlocked ELSE indexLock
    /\ raised' = TRUE
    /\ UNCHANGED <<sourceVars, indexVars, indexKills, crossed>>

Bug_Repeats(p) == Raises(p)

\* An IndexIntegrityError: the lock is released and build is called with force.
Repeats(p) ==
    IF job[p].force THEN Raises(p) ELSE
    /\ BuildGoto(p, "begin") /\ job' = [job EXCEPT ![p].force = TRUE]
    /\ indexLock' = IF indexLock = p THEN Unlocked ELSE indexLock
    /\ UNCHANGED <<sourceVars, indexVars, indexKills, crossed, raised>>

\* load_audit_corpus reads the files of the log one after the other,
LoadBegin(p) ==
    /\ bpc[p] = "idle" /\ p \in extent.who
    /\ BuildGoto(p, "load")
    /\ job' = [job EXCEPT ![p] = [NoJob EXCEPT !.events = source]]
    /\ crossed' = (crossed \/ \E q \in Builders : bpc[q] # "idle")
    /\ UNCHANGED <<sourceVars, indexVars, indexLock, indexKills, raised>>

\* and looks whether they are still what it read.  Without events and without an index
\* there is nothing to do.
LoadEnds(p) ==
    /\ bpc[p] = "load" /\ job[p].events = source /\ ~spoiled
    /\ IF source = <<>> /\ meta = NoMeta
       THEN job' = [job EXCEPT ![p] = NoJob] /\ Locally(p, "idle")
       ELSE job' = [job EXCEPT ![p].gap = gap] /\ Locally(p, "begin")

\* EpisodicRuntimeError: the log changed while it was read, or is torn.  The call ends
\* before it looked at the index.
LoadRefused(p) ==
    /\ bpc[p] = "load" /\ (job[p].events # source \/ spoiled)
    /\ job' = [job EXCEPT ![p] = NoJob] /\ Locally(p, "idle")

\* The lock is taken; fewer events than the watermark: the gap is noted and build is
\* called with force; other events: SourceTamperError; an index that differs from the
\* events: IndexIntegrityError.
BuildBegin(p) ==
    /\ bpc[p] = "begin" /\ ~job[p].force /\ indexLock = Unlocked
    /\ LET events == job[p].events
           mark == IF meta = NoMeta THEN 0 ELSE meta.watermark
       IN \/ /\ mark > Len(events)
             /\ job' = [job EXCEPT ![p].gap = TRUE, ![p].force = TRUE]
             /\ Locally(p, "begin")
          \/ /\ mark <= Len(events) /\ Changed(events)
             /\ Raises(p)
          \/ /\ mark <= Len(events) /\ ~Changed(events) /\ ~Valid(events)
             /\ Repeats(p)
          \/ /\ mark <= Len(events) /\ Valid(events)
             /\ indexLock' = p /\ BuildGoto(p, "windows")
             /\ job' = [job EXCEPT ![p].mark = mark, ![p].fresh = (meta = NoMeta)]
             /\ UNCHANGED <<sourceVars, indexVars, indexKills, crossed, raised>>

Bug_ForceBegin(p) ==
    /\ bpc[p] = "begin" /\ job[p].force /\ indexLock = Unlocked
    /\ indexLock' = p /\ BuildGoto(p, "reset")
    /\ job' = [job EXCEPT ![p].mark = 0, ![p].fresh = TRUE]
    /\ UNCHANGED <<sourceVars, indexVars, indexKills, crossed, raised>>

\* _remove_disposable_index: the metadata go first,
ForceBegin(p) ==
    /\ bpc[p] = "begin" /\ job[p].force /\ indexLock = Unlocked
    /\ indexLock' = p /\ BuildGoto(p, "reset")
    /\ meta' = NoMeta /\ job' = [job EXCEPT ![p].mark = 0, ![p].fresh = TRUE]
    /\ UNCHANGED <<sourceVars, rows, gap, indexKills, crossed, raised>>

\* then the files of the tiers, one by one.
ResetTier(p) ==
    /\ bpc[p] = "reset"
    /\ \E k \in 1..Tiers :
        /\ rows[k] # <<>> /\ \A j \in 1..(k - 1) : rows[j] = <<>>
        /\ rows' = [rows EXCEPT ![k] = <<>>]
    /\ UNCHANGED <<sourceVars, meta, gap, indexLock, bpc, job, indexKills, crossed, raised>>

ResetEnds(p) ==
    /\ bpc[p] = "reset" /\ \A k \in 1..Tiers : rows[k] = <<>>
    /\ UNCHANGED job
    /\ Locally(p, "windows")

\* Starts of the blocks of tier k that fit the events and have no row yet.
Missing(p, k) ==
    {s \in 0..Len(job[p].events) :
        /\ s % Size(k) = 0 /\ s + Size(k) <= Len(job[p].events)
        /\ \A i \in DOMAIN rows[k] : rows[k][i].start # s}

AppendBlock(p, k, start) ==
    /\ rows' = [rows EXCEPT ![k] = Append(@, Block(job[p].events, k, start))]
    /\ job' = [job EXCEPT ![p].fresh = TRUE]
    /\ UNCHANGED <<sourceVars, meta, gap, indexLock, bpc, indexKills, crossed, raised>>

Earliest(S) == CHOOSE s \in S : \A t \in S : s <= t

\* Windows below the watermark were sealed before, also when they have no row now.
MissingWindows(p) == {s \in Missing(p, 1) : s >= (job[p].mark \div Fanout) * Fanout}

SealWindow(p) ==
    /\ bpc[p] = "windows" /\ MissingWindows(p) # {}
    /\ AppendBlock(p, 1, Earliest(MissingWindows(p)))

WindowsSealed(p) ==
    /\ bpc[p] = "windows" /\ MissingWindows(p) = {}
    /\ job' = [job EXCEPT ![p].tier = 2]
    /\ Locally(p, "tier")

\* The next tier is read, with the one below it; or the loop is over, and unless there
\* was nothing to do the tiers below the last are compacted.
EnterTier(p) ==
    /\ bpc[p] = "tier"
    /\ LET k == job[p].tier
           total == Len(job[p].events)
       IN \/ /\ Size(k) > total \/ rows[k - 1] = <<>>
             /\ job' = [job EXCEPT ![p].top = k - 1, ![p].tier = 1]
             /\ Locally(p, IF job[p].fresh \/ job[p].mark # total THEN "compact" ELSE "built")
          \/ /\ Size(k) <= total /\ rows[k - 1] # <<>>
             /\ Ordered(rows[k - 1]) /\ Ordered(rows[k])
             /\ UNCHANGED job /\ Locally(p, "seal")
          \/ /\ Size(k) <= total /\ ~(Ordered(rows[k - 1]) /\ Ordered(rows[k]))
             /\ Repeats(p)

\* Blocks all of whose children have rows.
Complete(p, k) ==
    {s \in Missing(p, k) :
        \A c \in 0..(Fanout - 1) : \E i \in DOMAIN rows[k - 1] :
            rows[k - 1][i].start = s + c * Size(k - 1)}

SealHigher(p) ==
    /\ bpc[p] = "seal" /\ Complete(p, job[p].tier) # {}
    /\ AppendBlock(p, job[p].tier, Earliest(Complete(p, job[p].tier)))

TierSealed(p) ==
    /\ bpc[p] = "seal" /\ Complete(p, job[p].tier) = {}
    /\ job' = [job EXCEPT ![p].tier = @ + 1]
    /\ Locally(p, "tier")

Within(b, k, parent) ==
    parent.start <= b.start /\ b.start + Size(k) <= parent.start + Size(k + 1)

\* The rows of q at the places in S, in their order.
Only(q, S) ==
    [n \in 1..Cardinality(S) |-> q[CHOOSE i \in S : Cardinality({j \in S : j <= i}) = n]]

Bug_Kept(k) ==
    Only(rows[k], {i \in DOMAIN rows[k] :
        ~\E j \in 1..(Len(rows[k + 1]) - 1) : rows[k + 1][j].start = rows[k][i].start})

\* _compact_tier: what no parent covers, and the children of the last parent, stay.
Kept(k) ==
    Only(rows[k], {i \in DOMAIN rows[k] :
        ~\E j \in 1..(Len(rows[k + 1]) - 1) : Within(rows[k][i], k, rows[k + 1][j])})

CompactTier(p) ==
    /\ bpc[p] = "compact" /\ job[p].tier < job[p].top
    /\ LET k == job[p].tier IN
       IF Ordered(rows[k]) /\ Ordered(rows[k + 1])
       THEN /\ rows' = [rows EXCEPT ![k] = Kept(k)]
            /\ job' = [job EXCEPT ![p].tier = k + 1]
            /\ UNCHANGED <<sourceVars, meta, gap, indexLock, bpc, indexKills, crossed, raised>>
       ELSE Repeats(p)

WriteMeta(p) ==
    /\ bpc[p] = "compact" /\ job[p].tier >= job[p].top
    /\ meta' = [watermark |-> Len(job[p].events),
                sealed |-> Sealed(job[p].events, Len(job[p].events))]
    /\ BuildGoto(p, "built")
    /\ UNCHANGED <<sourceVars, rows, gap, indexLock, job, indexKills, crossed, raised>>

BuildEnds(p) ==
    /\ bpc[p] = "built" /\ indexLock = p
    /\ indexLock' = Unlocked
    /\ UNCHANGED <<sourceVars, indexVars, bpc, job, indexKills, crossed, raised>>

\* The gap is written after the index was built again,
WriteGap(p) ==
    /\ bpc[p] = "built" /\ indexLock # p
    /\ gap' = (gap \/ job[p].gap)
    /\ BuildGoto(p, "assemble")
    /\ UNCHANGED <<sourceVars, meta, rows, indexLock, job, indexKills, crossed, raised>>

\* and assemble reads the index, in one step here and without the lock.
Assemble(p) ==
    /\ bpc[p] = "assemble"
    /\ IF Valid(job[p].events)
       THEN job' = [job EXCEPT ![p] = NoJob] /\ Locally(p, "idle")
       ELSE Raises(p)

\* The lock of a process that dies is free.
BuilderKilled(p) ==
    /\ bpc[p] # "idle" /\ indexKills < extent.kills
    /\ indexKills' = indexKills + 1
    /\ indexLock' = IF indexLock = p THEN Unlocked ELSE indexLock
    /\ BuildGoto(p, "idle") /\ job' = [job EXCEPT ![p] = NoJob]
    /\ UNCHANGED <<sourceVars, indexVars, crossed, raised>>

-----------------------------------------------------------------------------

BuildStep(p) ==
    \/ LoadBegin(p) \/ LoadEnds(p) \/ LoadRefused(p)
    \/ BuildBegin(p) \/ ForceBegin(p) \/ ResetTier(p) \/ ResetEnds(p)
    \/ SealWindow(p) \/ WindowsSealed(p) \/ EnterTier(p) \/ SealHigher(p) \/ TierSealed(p)
    \/ CompactTier(p) \/ WriteMeta(p) \/ BuildEnds(p) \/ WriteGap(p) \/ Assemble(p)

EpisodicNext ==
    \/ \E p \in Builders : BuildStep(p) \/ BuilderKilled(p)
    \/ \E n \in 1..extent.events : SourceGrows(n) \/ SourceShrinks(n)
    \/ SourceTorn \/ SourceMended

EpisodicSpec == EpisodicInit /\ [][EpisodicNext]_episodicVars

-----------------------------------------------------------------------------
(* Properties *)

\* Every event of a window below the watermark is in a block on disk that holds what
\* was sealed: compaction, an index dropped and rebuilt, and calls killed at any write
\* never leave a hole that a later build takes for history it has sealed.
NothingForgotten ==
    meta # NoMeta =>
        \A n \in 1..Len(meta.sealed) : \E k \in 1..Tiers : \E i \in DOMAIN rows[k] :
            LET b == rows[k][i] IN
            b.start < n /\ n <= b.start + Size(k) /\ b.of[n - b.start] = meta.sealed[n]

\* "The resulting sidecar stays O(fanout * log_fanout(total))": whenever the metadata
\* are written no tier holds 2 * Fanout blocks, whatever earlier calls left behind.
IndexLogarithmic ==
    [][meta' # meta /\ meta' # NoMeta =>
         \A k \in 1..Tiers : Len(rows[k]) < 2 * Fanout]_episodicVars

\* "Crash-safe": wherever a call was killed, the next one that could load the events ends
\* without an exception, as long as the source never shrank and no two calls overlapped.
\* (One that could not, LoadRefused, raises before it looks at the index.)
CrashSafe == raised => shrinks > 0 \/ crossed

\* SourceShrinkError is "raised when the raw source has fewer events than the recorded
\* watermark", and history-gap.json records it: there is one only if the source shrank.
GapMeansLoss == gap => shrinks > 0
=============================================================================
