------------------------------ MODULE DecisionLog ------------------------------
(***************************************************************************)
(* decisions.jsonl, the shared decision memory of memory.py.               *)
(*                                                                         *)
(* Rows are appended under the file's JSONL lock; past a size the append   *)
(* that crossed it keeps the newest rows only.  A forget rewrites the file *)
(* without the rows of an id and adds a tombstone.  Readers, and the       *)
(* checks append_decision makes before it writes, take no lock.  Git's     *)
(* union merge may put rows of an older copy back at any moment.           *)
(***************************************************************************)
EXTENDS Naturals, Sequences, SequencesExt

CONSTANTS
    Ids,            \* decision ids
    Procs,          \* hooks, the MCP server, CLI calls
    MaxRows,        \* _JSONL_AUTO_MAX_BYTES, in rows
    KeepRows,       \* _JSONL_AUTO_KEEP_BYTES, in rows
    MaxWrites,      \* bound: rows written to the file
    MaxAborts,      \* bound: processes killed, or writes that fail, half-way
    MaxPulls,       \* bound: merges that put rows back
    NoProc

ASSUME LimitsAssumption ==
    /\ MaxRows \in Nat /\ KeepRows \in Nat /\ KeepRows <= MaxRows
    /\ MaxWrites \in Nat /\ MaxAborts \in Nat /\ MaxPulls \in Nat

ASSUME MarkersAssumption == NoProc \notin Procs

Statuses == {"failure", "retired"}      \* observed, confirmed / stale, refuted
Bodies == {"decision"} \cup Statuses
Kinds == Bodies \cup {"tombstone"}

\* A line cut short is not JSON; cut inside a character it is not UTF-8 either.
Damages == {"torn", "mangled"}

Row == [n : 1..MaxWrites, id : Ids, kind : Kinds \cup Damages]

VARIABLES
    log,        \* the lines of decisions.jsonl
    open,       \* whether its last line has no newline
    peer,       \* the copy another clone still has
    lock,       \* the holder of the JSONL lock
    pc,         \* pc[p]: the stage p has reached
    op,         \* op[p]: the local variables of its call
    writes,     \* rows written so far; row n is the n-th
    acked,      \* history: the rows whose append returned ok
    glued,      \* history: the rows written behind a line cut short
    cut,        \* history: the rows a trim dropped
    wiped,      \* history: the rows a forget dropped
    forgotten,  \* history: the tombstones of the forgets that returned ok
    said,       \* history: said[i]: the kind of the newest row of i
    pulled,     \* history: the rows a merge put back
    pulls, aborts

vars == <<log, open, peer, lock, pc, op, writes, acked, glued, cut, wiped,
          forgotten, said, pulled, pulls, aborts>>

history == <<acked, glued, cut, wiped, forgotten, said, pulled>>

NoOp == [id |-> 0, kind |-> "decision", rows |-> <<>>, lost |-> {}, n |-> 0]

Serials(s) == {r.n : r \in ToSet(s)}

\* The rows of s that are in S, in their order.
Places(s, S) == {i \in DOMAIN s : s[i] \in S}

Nth(s, S, n) == CHOOSE i \in Places(s, S) : Cardinality({j \in Places(s, S) : j <= i}) = n

Only(s, S) == [n \in 1..Cardinality(Places(s, S)) |-> s[Nth(s, S, n)]]

\* The lines that are JSON, if all of them are UTF-8.
Json(s) == {r \in ToSet(s) : r.kind # "torn"}

-----------------------------------------------------------------------------
(* Readers                                                                 *)

\* read_jsonl_all: a line that is not JSON is skipped; one that is not UTF-8
\* ends the read with no rows at all.
Parsed(s) ==
    IF \E r \in ToSet(s) : r.kind = "mangled" THEN <<>>
    ELSE Only(s, Json(s))

\* A reader that looks for tombstones in the tail it read only.
Bug_TombstonedInTail(s) ==
    {s[k].id : k \in {j \in DOMAIN s :
        s[j].kind = "tombstone" /\ j > Len(s) - KeepRows}}

\* tombstoned_decision_ids, and the first pass of live_decision_records.
Tombstoned(s) == {r.id : r \in {x \in ToSet(s) : x.kind = "tombstone"}}

\* live_decision_records: no row of a tombstoned id; every decision; of a
\* failure the last row, and not when its status retires it.
Live(s, includeRetired) ==
    {s[k] : k \in {j \in DOMAIN s :
        /\ s[j].kind # "tombstone"
        /\ s[j].id \notin Tombstoned(s)
        /\ s[j].kind \in Statuses =>
            /\ \A m \in j + 1 .. Len(s) : s[m].id = s[j].id => s[m].kind \notin Statuses
            /\ s[j].kind = "retired" => includeRetired}}

Surfaced(includeRetired) == Live(Parsed(log), includeRetired)

-----------------------------------------------------------------------------
Init ==
    /\ log = <<>> /\ peer = <<>> /\ open = FALSE
    /\ lock = NoProc
    /\ pc = [p \in Procs |-> "idle"]
    /\ op = [p \in Procs |-> NoOp]
    /\ writes = 0 /\ pulls = 0 /\ aborts = 0
    /\ acked = {} /\ glued = {} /\ cut = {} /\ wiped = {} /\ pulled = {}
    /\ forgotten = {}
    /\ said = [i \in Ids |-> "none"]

Acquire(p) == lock = NoProc /\ lock' = p

Leave(p) ==
    /\ pc' = [pc EXCEPT ![p] = "idle"]
    /\ op' = [op EXCEPT ![p] = NoOp]

Release(p) == lock' = NoProc /\ Leave(p)

-----------------------------------------------------------------------------
(* append_decision                                                         *)

\* The id a new record draws at random: no two draws coincide, so drawing again
\* past a tombstoned id is never needed.
FreshIds == {i \in Ids : said[i] = "none"} \ {op[p].id : p \in Procs}

\* _decision_id_exists: the ids a failure may supersede.
KnownFailures == {r.id : r \in {x \in ToSet(Parsed(log)) : x.kind \in Statuses}}

\* The checks before the write read the file without its lock.
AppendRead(p) ==
    /\ pc[p] = "idle"
    /\ writes < MaxWrites
    /\ \E i \in Ids, k \in Bodies :
        /\ i \in FreshIds \/ (k \in Statuses /\ i \in KnownFailures)
        /\ op' = [op EXCEPT ![p] = [NoOp EXCEPT !.id = i, !.kind = k]]
    /\ pc' = [pc EXCEPT ![p] = "append"]
    /\ UNCHANGED <<log, open, peer, lock, writes, history, pulls, aborts>>

NewRow(p, kind) == [n |-> writes + 1, id |-> op[p].id, kind |-> kind]

\* An append that leaves out the newline.
Bug_AppendWithoutNewline(p) ==
    /\ pc[p] = "append"
    /\ writes < MaxWrites
    /\ Acquire(p)
    /\ writes' = writes + 1
    /\ open' = TRUE
    /\ IF open
       THEN glued' = glued \cup {writes + 1} /\ UNCHANGED <<log, said>>
       ELSE /\ log' = Append(log, NewRow(p, op[p].kind))
            /\ said' = [said EXCEPT ![op[p].id] = op[p].kind]
            /\ UNCHANGED glued
    /\ pc' = [pc EXCEPT ![p] = "trim"]
    /\ op' = [op EXCEPT ![p].n = writes + 1]
    /\ UNCHANGED <<peer, acked, cut, wiped, forgotten, pulled, pulls, aborts>>

\* Behind a line without a newline the row becomes part of that line.
AppendWrite(p) ==
    /\ pc[p] = "append"
    /\ writes < MaxWrites
    /\ Acquire(p)
    /\ writes' = writes + 1
    /\ open' = FALSE
    /\ IF open
       THEN glued' = glued \cup {writes + 1} /\ UNCHANGED <<log, said>>
       ELSE /\ log' = Append(log, NewRow(p, op[p].kind))
            /\ said' = [said EXCEPT ![op[p].id] = op[p].kind]
            /\ UNCHANGED glued
    /\ pc' = [pc EXCEPT ![p] = "trim"]
    /\ op' = [op EXCEPT ![p].n = writes + 1]
    /\ UNCHANGED <<peer, acked, cut, wiped, forgotten, pulled, pulls, aborts>>

\* The process dies, or the disk fills up, with a part of the line written.
AppendTorn(p) ==
    /\ pc[p] = "append"
    /\ writes < MaxWrites /\ aborts < MaxAborts
    /\ lock = NoProc
    /\ \E k \in Damages :
        log' = IF open
               THEN [log EXCEPT ![Len(log)].kind = IF k = "mangled" THEN k ELSE @]
               ELSE Append(log, NewRow(p, k))
    /\ open' = TRUE
    /\ writes' = writes + 1
    /\ aborts' = aborts + 1
    /\ Leave(p)
    /\ UNCHANGED <<peer, lock, history, pulls>>

Acknowledge(p) ==
    /\ acked' = acked \cup {op[p].n}
    /\ Release(p)

TrimNone(p) ==
    /\ pc[p] = "trim"
    /\ Len(log) <= MaxRows
    /\ Acknowledge(p)
    /\ UNCHANGED <<log, open, peer, writes, glued, cut, wiped, forgotten, said,
                   pulled, pulls, aborts>>

\* A trim that writes the lines in the order it collected them.
Bug_KeptReversed(s) == [k \in 1..KeepRows |-> s[Len(s) - k + 1]]

\* The trim keeps the newest lines of a file that has grown too long, without
\* those that are not JSON.
Newest(s) == SubSeq(s, Len(s) - KeepRows + 1, Len(s))

Kept(s) == Only(Newest(s), Json(s))

TrimRead(p) ==
    /\ pc[p] = "trim"
    /\ Len(log) > MaxRows
    /\ "mangled" \notin {r.kind : r \in ToSet(Newest(log))}
    /\ op' = [op EXCEPT ![p].rows = Kept(log),
                        ![p].lost = Serials(log) \ Serials(Kept(log))]
    /\ pc' = [pc EXCEPT ![p] = "replace"]
    /\ UNCHANGED <<log, open, peer, lock, writes, history, pulls, aborts>>

\* The tail does not decode: the append raises, with its row in the file.
TrimFails(p) ==
    /\ pc[p] = "trim"
    /\ Len(log) > MaxRows
    /\ "mangled" \in {r.kind : r \in ToSet(Newest(log))}
    /\ Release(p)
    /\ UNCHANGED <<log, open, peer, writes, history, pulls, aborts>>

TrimReplace(p) ==
    /\ pc[p] = "replace"
    /\ log' = op[p].rows
    /\ open' = FALSE
    /\ cut' = cut \cup op[p].lost
    /\ Acknowledge(p)
    /\ UNCHANGED <<peer, writes, glued, wiped, forgotten, said, pulled, pulls, aborts>>

-----------------------------------------------------------------------------
(* forget_decision                                                         *)

\* A forget that stops at the row the readers show.
Bug_NewestVictim(i) ==
    {r \in ToSet(log) : r.id = i /\ r.kind \in Bodies
        /\ \A x \in ToSet(log) : x.id = i => x.n <= r.n}

\* The rows that name the forgotten id.
Victims(i) == {r \in ToSet(log) : r.id = i /\ r.kind \in Bodies}

\* A forget that reads the file before it has the lock.
Bug_ForgetReadsUnlocked(p) ==
    /\ pc[p] = "idle"
    /\ writes < MaxWrites
    /\ Parsed(log) # <<>>
    /\ \E i \in Ids :
        /\ Victims(i) # {}
        /\ op' = [op EXCEPT ![p] = [NoOp EXCEPT
                    !.id = i,
                    !.rows = Only(log, ToSet(log) \ Victims(i)),
                    !.lost = {r.n : r \in Victims(i)}]]
    /\ pc' = [pc EXCEPT ![p] = "rewrite"]
    /\ UNCHANGED <<log, open, peer, lock, writes, history, pulls, aborts>>

\* A forget with no such row, or of a file that does not decode, changes
\* nothing.  Lines that are not JSON are kept.
ForgetRead(p) ==
    /\ pc[p] = "idle"
    /\ writes < MaxWrites
    /\ Acquire(p)
    /\ Parsed(log) # <<>>
    /\ \E i \in Ids :
        /\ Victims(i) # {}
        /\ op' = [op EXCEPT ![p] = [NoOp EXCEPT
                    !.id = i,
                    !.rows = Only(log, ToSet(log) \ Victims(i)),
                    !.lost = {r.n : r \in Victims(i)}]]
    /\ pc' = [pc EXCEPT ![p] = "rewrite"]
    /\ UNCHANGED <<log, open, peer, writes, history, pulls, aborts>>

ForgetRewrite(p) ==
    /\ pc[p] = "rewrite"
    /\ LET tomb == NewRow(p, "tombstone") IN
        /\ log' = Append(op[p].rows, tomb)
        /\ forgotten' = forgotten \cup {tomb}
    /\ open' = FALSE
    /\ writes' = writes + 1
    /\ wiped' = wiped \cup op[p].lost
    /\ Release(p)
    /\ UNCHANGED <<peer, acked, glued, cut, said, pulled, pulls, aborts>>

-----------------------------------------------------------------------------
(* Deaths, and git                                                         *)

\* A process dies under the lock, between its file operations.
Die(p) ==
    /\ lock = p
    /\ aborts < MaxAborts
    /\ aborts' = aborts + 1
    /\ Release(p)
    /\ UNCHANGED <<log, open, peer, writes, history, pulls>>

\* Another clone takes the file as it is.
PeerCopies ==
    /\ peer # log
    /\ peer' = log
    /\ UNCHANGED <<log, open, lock, pc, op, writes, history, pulls, aborts>>

\* The union merge of a copy that still has rows this one dropped: it puts any
\* of them back, above or below the rows of this copy, lock or no lock.
UnionMerge ==
    /\ pulls < MaxPulls
    /\ \E S \in SUBSET (ToSet(peer) \ ToSet(log)) :
        /\ S # {}
        /\ LET back == Only(peer, S) IN
            \/ log' = back \o log /\ UNCHANGED open
            \/ log' = log \o back /\ open' = FALSE
        /\ pulled' = pulled \cup {r.n : r \in S}
    /\ pulls' = pulls + 1
    /\ UNCHANGED <<peer, lock, pc, op, writes, acked, glued, cut, wiped,
                   forgotten, said, aborts>>

Next ==
    \/ \E p \in Procs :
        \/ AppendRead(p) \/ AppendWrite(p) \/ AppendTorn(p)
        \/ TrimNone(p) \/ TrimRead(p) \/ TrimFails(p) \/ TrimReplace(p)
        \/ ForgetRead(p) \/ ForgetRewrite(p)
        \/ Die(p)
    \/ PeerCopies
    \/ UnionMerge

Spec == Init /\ [][Next]_vars

-----------------------------------------------------------------------------
(* Properties                                                              *)

\* Every variable has its type and the lock is held exactly inside a locked
\* section.
TypeOK ==
    /\ log \in Seq(Row) /\ peer \in Seq(Row) /\ open \in BOOLEAN
    /\ open => log # <<>> /\ Last(log).kind \in Damages
    /\ lock \in Procs \cup {NoProc}
    /\ pc \in [Procs -> {"idle", "append", "trim", "replace", "rewrite"}]
    /\ \A p \in Procs : pc[p] \in {"trim", "replace", "rewrite"} <=> lock = p
    /\ \A p \in Procs : op[p].rows \in Seq(Row)
    /\ writes \in 0..MaxWrites /\ pulls \in 0..MaxPulls /\ aborts \in 0..MaxAborts
    /\ \A S \in {acked, glued, cut, wiped, pulled} : S \subseteq 1..writes
    /\ forgotten \subseteq Row
    /\ said \in [Ids -> Kinds \cup {"none"}]

\* "a concurrent append cannot be lost" (forget_decision): the row of an append
\* that returned ok stays in the file, whatever forgets, trims and appends run
\* next to it, until a trim is due to drop it or a forget names its id; the one
\* exception is a row written behind a line cut short.
AckedSurvives == acked \subseteq Serials(log) \cup glued \cup cut \cup wiped

\* "suppression is order-independent" (live_decision_records): an id whose
\* forget returned ok is on no reader, retired rows included, wherever a merge
\* puts its rows back, unless a trim dropped the tombstone.
ForgottenStaysHidden ==
    \A t \in forgotten :
        t.n \notin cut => \A r \in Surfaced(TRUE) : r.id # t.id

\* "the body is physically removed" (forget_decision): the raw readers find no
\* row of a forgotten id that was written before the forget, unless a merge put
\* it back.
BodyErased ==
    \A t \in forgotten : \A r \in ToSet(log) :
        r.id = t.id /\ r.n < t.n /\ r.kind \in Bodies => r.n \in pulled

\* "last write wins": what the newest record of a failure retires is not
\* surfaced by an older one, unless a merge put that one back.
RetiredStaysRetired ==
    \A r \in Surfaced(FALSE) :
        said[r.id] = "retired" => r.n \in pulled

\* "A hard-forgotten id must never be reborn ... would then be silently
\* suppressed on arrival" (append_decision): no record is written under an id
\* whose tombstone is already in the file.
NeverReborn ==
    \A t, r \in ToSet(log) :
        t.kind = "tombstone" /\ r.kind \in Bodies /\ r.id = t.id
            => r.n < t.n
=============================================================================
