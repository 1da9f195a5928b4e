------------------------------- MODULE AuditLog -------------------------------
(***************************************************************************)
(* The audit log of memory.py, its repair (audit_repair.py) and the doctor *)
(* check of its chain, for one year.                                       *)
(*                                                                         *)
(* The log is a current file and immutable segments 1, 2, ...  Each record *)
(* carries the hash of the line above it; a full current file is copied to *)
(* a new segment and replaced by a marker line that links to it.  All the  *)
(* writers hold the audit transaction lock from their first read to their  *)
(* last write, so one variable, call, stands for whichever process has it; *)
(* it may die between any two file operations, and inside an append.       *)
(*                                                                         *)
(* A hash is a number drawn when a text first exists: equal texts have     *)
(* equal numbers.  The digest of a file is the sequence of its lines'.     *)
(***************************************************************************)
EXTENDS Naturals, SequencesExt

CONSTANTS
    Sizes,          \* the sizes an event line may have; a marker has size 1
    MaxBytes,       \* _AUDIT_MAX_BYTES in the same unit
    MaxEvents,      \* bound: append_audit calls
    MaxSegments,    \* bound: segments, at least what MaxEvents can fill
    MaxAborts,      \* bound: processes killed, or raising, under the lock
    MaxDamage       \* bound: changes to the files from outside the program

ASSUME SizesAssumption ==
    Sizes \subseteq Nat \ {0} /\ MaxBytes \in Nat /\ \A s \in Sizes : 1 + s <= MaxBytes

ASSUME BoundsAssumption ==
    {MaxEvents, MaxSegments, MaxAborts, MaxDamage} \subseteq Nat

Segments == 1..MaxSegments
Current == MaxSegments + 1      \* <year>.jsonl, which sorts after its segments
Files == 1..Current

VARIABLES
    text,       \* text[f]: the lines of file f, <<>> where there is no file
    name,       \* name[s]: the digest in the name of segment s
    torn,       \* the last line of the current file has no newline
    index,      \* audit-index.jsonl: <<event id, file, digest in its name>>
    call,       \* what the holder of the transaction lock is doing
    serial,     \* hashes and event ids drawn so far: 1 .. serial
    report,     \* the last answer of repair_audit_chain, until something happens
    acked,      \* history: the events whose append_audit returned
    lost,       \* history: a whole segment was removed from outside
    calls, aborts, tears, damages

vars == <<text, name, torn, index, call, serial, report, acked, lost, calls,
          aborts, tears, damages>>

counters == <<calls, aborts, tears, damages>>

NoLink == [segment |-> 0, name |-> <<>>, digest |-> <<>>]

Idle == [stage |-> "idle", size |-> 0, at |-> 0, rotated |-> FALSE, id |-> 0,
         link |-> NoLink, errors |-> FALSE]

Line(kind, size, prev, link) ==
    [kind |-> kind, size |-> size, id |-> serial + 1, sha |-> serial + 1,
     prev |-> prev, link |-> link]

\* What is left of two records written without a newline between them: one line
\* that is not JSON, or is not even text (mangled) when either of them is not.
Junk(kinds, size) ==
    [Line(IF "mangled" \in kinds THEN "mangled" ELSE "junk", size, 0, NoLink) EXCEPT !.id = 0]

Present == {f \in Files : text[f] # <<>>}

DigestOf(lines) == [i \in DOMAIN lines |-> lines[i].sha]

LinkTo(f, lines) ==
    [segment |-> f, name |-> IF f = Current THEN <<>> ELSE DigestOf(lines),
     digest |-> DigestOf(lines)]

SizeOf(lines) == FoldSeq(LAMBDA line, sum : line.size + sum, 0, lines)

LastSha(lines) == IF lines = <<>> THEN 0 ELSE Last(lines).sha

Highest(S) == CHOOSE f \in S : \A g \in S : g <= f
Lowest(S) == CHOOSE f \in S : \A g \in S : f <= g

Before(f) == {g \in Present : g < f}
After(f) == {g \in Present : f < g}

NameOf(f) == IF f = Current THEN <<>> ELSE name[f]

\* One mangled line makes the whole file undecodable: its readers raise or skip it.
Unreadable(f) == \E i \in DOMAIN text[f] : text[f][i].kind = "mangled"

\* The lines of a file that parse; all of them, in the order they are read in.
Parsed(f) == {i \in DOMAIN text[f] : ~ Unreadable(f) /\ text[f][i].kind # "junk"}

Places == UNION {{f} \X Parsed(f) : f \in Files}

UpTo(p) == {q \in Places : q[1] < p[1] \/ (q[1] = p[1] /\ q[2] <= p[2])}

Nth(n) == CHOOSE p \in {q \in Places : Cardinality(UpTo(q)) = n} : TRUE

Row(p) == <<text[p[1]][p[2]].id, p[1], NameOf(p[1])>>

\* _rebuild_audit_index_locked: a row for every line that parses, in order.
FullIndex == [n \in 1..Cardinality(Places) |-> Row(Nth(n))]

Init ==
    /\ text = [f \in Files |-> <<>>]
    /\ name = [s \in Segments |-> <<>>]
    /\ torn = FALSE /\ index = <<>> /\ call = Idle /\ serial = 0
    /\ report = "none" /\ acked = {} /\ lost = FALSE
    /\ calls = 0 /\ aborts = 0 /\ tears = 0 /\ damages = 0

-----------------------------------------------------------------------------
(* append_audit *)

Bug_AppendBegin(size) ==
    /\ call = Idle /\ calls < MaxEvents
    /\ LET full == text[Current] # <<>> /\ SizeOf(text[Current]) + size > MaxBytes IN
         call' = [Idle EXCEPT !.stage = IF full THEN "seal" ELSE "append", !.size = size,
                              !.rotated = full]
    /\ calls' = calls + 1
    /\ report' = "none"
    /\ UNCHANGED <<text, name, torn, index, serial, acked, lost, aborts, tears, damages>>

\* The lock is taken, the tail of the current file is read, and it is full or not.
\* _previous_audit_sha raises, before anything is written, when it cannot decode it.
AppendBegin(size) ==
    /\ call = Idle /\ calls < MaxEvents /\ ~ Unreadable(Current)
    /\ LET full == text[Current] # <<>> /\ SizeOf(text[Current]) + size > MaxBytes IN
         call' = [Idle EXCEPT !.stage = IF full THEN "seal" ELSE "append", !.size = size,
                              !.rotated = full]
    /\ calls' = calls + 1
    /\ report' = "none"
    /\ UNCHANGED <<text, name, torn, index, serial, acked, lost, aborts, tears, damages>>

Bug_AnySegment == Present \cap Segments

SameText == {s \in Segments : text[s] = text[Current] /\ name[s] = DigestOf(text[s])}

NextSegment ==
    IF Present \cap Segments = {} THEN 1 ELSE Highest(Present \cap Segments) + 1

\* _rotate_audit_chain_locked writes the segment, unless one of that digest
\* and that text is there already ...
Seal ==
    /\ call.stage = "seal"
    /\ \/ /\ SameText # {}
          /\ call' = [call EXCEPT !.stage = "replace", !.at = Lowest(SameText)]
          /\ UNCHANGED <<text, name>>
       \/ /\ SameText = {} /\ NextSegment \in Segments
          /\ text' = [text EXCEPT ![NextSegment] = text[Current]]
          /\ name' = [name EXCEPT ![NextSegment] = DigestOf(text[Current])]
          /\ call' = [call EXCEPT !.stage = "replace", !.at = NextSegment]
    /\ UNCHANGED <<torn, index, serial, report, acked, lost, counters>>

Bug_MarkerChained ==
    /\ call.stage = "replace"
    /\ text' = [text EXCEPT ![Current] = <<Line("marker", 1, LastSha(text[Current]),
                                               LinkTo(call.at, text[Current]))>>]
    /\ torn' = FALSE
    /\ serial' = serial + 1
    /\ call' = [call EXCEPT !.stage = "append"]
    /\ UNCHANGED <<name, index, report, acked, lost, counters>>

\* ... and then replaces the current file by the marker.
Replace ==
    /\ call.stage = "replace"
    /\ text' = [text EXCEPT ![Current] =
                    <<Line("marker", 1, 0, LinkTo(call.at, text[Current]))>>]
    /\ torn' = FALSE
    /\ serial' = serial + 1
    /\ call' = [call EXCEPT !.stage = "append"]
    /\ UNCHANGED <<name, index, report, acked, lost, counters>>

\* O_APPEND: behind a torn line the new record makes one broken line with it.
Appended(line) ==
    LET last == Last(text[Current]) IN
    IF torn THEN Front(text[Current]) \o <<Junk({last.kind, line.kind}, last.size + line.size)>>
    ELSE Append(text[Current], line)

Record(kind) == Line(kind, call.size, LastSha(text[Current]), NoLink)

Bug_SerialNotDrawn ==
    /\ call.stage = "append"
    /\ text' = [text EXCEPT ![Current] = Appended(Record("event"))]
    /\ torn' = FALSE
    /\ call' = [call EXCEPT !.stage = IF call.rotated THEN "rebuild" ELSE "row",
                            !.id = serial + 1]
    /\ UNCHANGED <<name, index, serial, report, acked, lost, counters>>

AppendWrite ==
    /\ call.stage = "append"
    /\ text' = [text EXCEPT ![Current] = Appended(Record("event"))]
    /\ torn' = FALSE
    /\ serial' = serial + 1
    /\ call' = [call EXCEPT !.stage = IF call.rotated THEN "rebuild" ELSE "row",
                            !.id = serial + 1]
    /\ UNCHANGED <<name, index, report, acked, lost, counters>>

\* The process dies inside _write_all: the record is there but for its newline, or it
\* is cut off, between two characters (junk) or inside one (mangled).
AppendTorn(kind) ==
    /\ call.stage = "append" /\ aborts < MaxAborts
    /\ text' = [text EXCEPT ![Current] = Appended(Record(kind))]
    /\ torn' = TRUE
    /\ serial' = serial + 1
    /\ call' = Idle
    /\ aborts' = aborts + 1 /\ tears' = tears + 1
    /\ UNCHANGED <<name, index, report, acked, lost, calls, damages>>

IndexRow ==
    /\ call.stage = "row"
    /\ index' = Append(index, <<call.id, Current, <<>>>>)
    /\ acked' = acked \cup {call.id}
    /\ call' = Idle
    /\ UNCHANGED <<text, name, torn, serial, report, lost, counters>>

Bug_RowAfterRotation ==
    /\ call.stage = "rebuild"
    /\ index' = Append(index, <<call.id, Current, <<>>>>)
    /\ acked' = acked \cup {call.id}
    /\ call' = Idle
    /\ UNCHANGED <<text, name, torn, serial, report, lost, counters>>

IndexAfterRotation ==
    /\ call.stage = "rebuild"
    /\ index' = FullIndex
    /\ acked' = acked \cup {call.id}
    /\ call' = Idle
    /\ UNCHANGED <<text, name, torn, serial, report, lost, counters>>

\* rebuild_audit_index, asked for by the operator or a starting session.
RebuildIndex ==
    /\ call = Idle
    /\ index' = FullIndex
    /\ report' = "none"
    /\ UNCHANGED <<text, name, torn, call, serial, acked, lost, counters>>

-----------------------------------------------------------------------------
(* repair_audit_chain *)

\* audit_segment_sequence_issues: the segments are not numbered 1, 2, ... n.
SequenceIssue ==
    \E s \in Present \cap Segments : s > 1 /\ s - 1 \notin Present

\* The first file begins with the marker of a segment that is not there.
OrphanMarker == Present # {} /\ text[Lowest(Present)][1].kind = "marker"

RepairBegin ==
    /\ call = Idle /\ Present # {}
    /\ \/ /\ SequenceIssue \/ OrphanMarker \/ \E f \in Present : Unreadable(f)
          /\ report' = "failed"
          /\ UNCHANGED call
       \/ /\ ~ SequenceIssue /\ ~ OrphanMarker /\ \A f \in Present : ~ Unreadable(f)
          /\ report' = "none"
          /\ call' = [Idle EXCEPT !.stage = "repair", !.at = Lowest(Present)]
    /\ UNCHANGED <<text, name, torn, index, serial, acked, lost, counters>>

\* What is wrong with a line as it stands, once the first line has its link.
WithLink(lines, link) == [lines EXCEPT ![1].link = link]

ShaAbove(lines, i) == IF i = 1 THEN 0 ELSE lines[i - 1].sha

Wrong(lines, link) ==
    {i \in DOMAIN lines :
        /\ lines[i].kind # "junk"
        /\ \/ WithLink(lines, link)[i] # lines[i]
           \/ lines[i].prev # ShaAbove(lines, i)}

Bug_Stale(lines, link) == Wrong(lines, link)

\* A record is rewritten when it is wrong, or when the one above it is.
Stale(lines, link) ==
    {i \in DOMAIN lines : \E j \in 1..i :
        j \in Wrong(lines, link) /\ \A k \in j..i : lines[k].kind # "junk"}

\* _rewrite_chain from the first mismatch on: every record that parses gets
\* the hash of the line now above it, and a new hash if that changes it.
Rewritten(lines, link) ==
    LET stale == Stale(lines, link) IN
    [i \in DOMAIN lines |->
        IF i \notin stale THEN WithLink(lines, link)[i]
        ELSE [WithLink(lines, link)[i] EXCEPT
                !.prev = IF i - 1 \in stale THEN serial + i - 1 ELSE ShaAbove(lines, i),
                !.sha = serial + i]]

\* On to the file behind f, or the end of the repair.
RepairNext(f, link, errors) ==
    IF After(f) = {}
    THEN call' = Idle /\ report' = IF errors THEN "failed" ELSE "ok"
    ELSE /\ call' = [call EXCEPT !.stage = "repair", !.at = Lowest(After(f)), !.link = link,
                                 !.errors = errors]
         /\ UNCHANGED report

LinkExpected == Before(call.at) # {}

MarkerMissing == LinkExpected /\ text[call.at][1].kind # "marker"

\* A file that has to begin with a marker and does not is passed over.
RepairSkip ==
    /\ call.stage = "repair" /\ MarkerMissing
    /\ RepairNext(call.at, call.link, TRUE)
    /\ UNCHANGED <<text, name, torn, index, serial, acked, lost, counters>>

RepairFile ==
    /\ call.stage = "repair" /\ ~ MarkerMissing
    /\ LET f == call.at
           lines == Rewritten(text[f], IF LinkExpected THEN call.link ELSE NoLink)
       IN  /\ text' = [text EXCEPT ![f] = lines]
           /\ serial' = IF lines = text[f] THEN serial ELSE serial + Len(lines)
           /\ IF f # Current /\ name[f] # DigestOf(lines)
              THEN call' = [call EXCEPT !.stage = "rename"] /\ UNCHANGED report
              ELSE RepairNext(f, LinkTo(f, lines), call.errors)
    /\ UNCHANGED <<name, torn, index, acked, lost, counters>>

\* A rewritten segment takes the name of its new digest.
RepairRename ==
    /\ call.stage = "rename"
    /\ name' = [name EXCEPT ![call.at] = DigestOf(text[call.at])]
    /\ RepairNext(call.at, LinkTo(call.at, text[call.at]), call.errors)
    /\ UNCHANGED <<text, torn, index, serial, acked, lost, counters>>

-----------------------------------------------------------------------------
(* A process dies, or raises, under the lock; and what stash merges, partial *)
(* restores and manual edits do to the files between two calls.              *)

Abort ==
    /\ call # Idle /\ aborts < MaxAborts
    /\ call' = Idle
    /\ aborts' = aborts + 1
    /\ UNCHANGED <<text, name, torn, index, serial, report, acked, lost, calls, tears,
                   damages>>

\* The operator cuts off a mangled tail.
TailCut ==
    /\ call = Idle /\ Unreadable(Current)
    /\ text' = [text EXCEPT ![Current] = Front(text[Current])]
    /\ torn' = FALSE
    /\ report' = "none"
    /\ UNCHANGED <<name, index, call, serial, acked, lost, counters>>

Damage(f, lines) ==
    /\ call = Idle /\ ~ torn /\ damages < MaxDamage
    /\ text' = [text EXCEPT ![f] = lines]
    /\ lost' = (lost \/ (f \in Segments /\ lines = <<>>))
    /\ damages' = damages + 1
    /\ report' = "none"
    /\ UNCHANGED <<name, torn, index, call, serial, acked, calls, aborts, tears>>

Swapped(lines, i) == [lines EXCEPT ![i] = lines[i + 1], ![i + 1] = lines[i]]

DamageAny ==
    \E f \in Present :
        \/ \E i \in 1..(Len(text[f]) - 1) : Damage(f, Swapped(text[f], i))
        \/ \E i \in DOMAIN text[f] : Len(text[f]) > 1 /\ Damage(f, RemoveAt(text[f], i))
        \/ f \in Segments /\ Damage(f, <<>>)

Next ==
    \/ \E size \in Sizes : AppendBegin(size)
    \/ Seal \/ Replace \/ AppendWrite \/ IndexRow \/ IndexAfterRotation
    \/ \E kind \in {"event", "junk", "mangled"} : AppendTorn(kind)
    \/ RebuildIndex
    \/ RepairBegin \/ RepairSkip \/ RepairFile \/ RepairRename
    \/ Abort \/ TailCut
    \/ DamageAny

Spec == Init /\ [][Next]_vars

-----------------------------------------------------------------------------
(* Properties *)

Stages == {"idle", "seal", "replace", "append", "row", "rebuild", "repair", "rename"}

\* Every variable has its type; the hashes in the files are among those drawn,
\* and only a file that exists ends in a torn line.
TypeOK ==
    /\ DOMAIN text = Files /\ DOMAIN name = Segments
    /\ \A f \in Files : \A i \in DOMAIN text[f] :
         /\ text[f][i].kind \in {"event", "marker", "junk", "mangled"}
         /\ text[f][i].sha \in 1..serial
    /\ torn \in BOOLEAN /\ torn => text[Current] # <<>>
    /\ call.stage \in Stages /\ call.at \in 0..Current
    /\ acked \subseteq 1..serial
    /\ report \in {"none", "ok", "failed"}

Readable(f) == {text[f][i].id : i \in Parsed(f)}

\* A segment is named after its digest, each file is linked to the one before it, and
\* each record is chained to the line above it.
Named(f) == f \in Segments => name[f] = DigestOf(text[f])

HasLink(f) ==
    IF Before(f) = {} THEN text[f][1].kind # "marker"
    ELSE LET g == Highest(Before(f)) IN
           /\ text[f][1].kind = "marker"
           /\ text[f][1].link = [segment |-> g, name |-> NameOf(g), digest |-> DigestOf(text[g])]

Chained(f) == \A i \in DOMAIN text[f] :
    text[f][i].kind = "junk" \/ text[f][i].prev = ShaAbove(text[f], i)

Linked == ~ SequenceIssue /\ \A f \in Present : Named(f) /\ HasLink(f) /\ Chained(f)

\* _check_audit_chain_snapshot finds nothing: moreover every line is JSON and
\* no event id occurs twice.
DoctorAccepts ==
    /\ Linked
    /\ \A f \in Present :
         /\ Cardinality(Readable(f)) = Len(text[f])
         /\ \A g \in Before(f) : Readable(f) \cap Readable(g) = {}

Quiet == call = Idle /\ damages = 0

\* While nobody died in a writer and nobody touched the files, the doctor
\* accepts what append_audit leaves behind, over any number of rotations.
WritersSatisfyDoctor == Quiet /\ aborts = 0 => DoctorAccepts

\* Under the same condition the index lists every record of the log once, in
\* order, and in the file that holds it now, although a rotation moves records
\* to another file than the one their rows were written for.
IndexTrue == Quiet /\ aborts = 0 => index = FullIndex

Broken == {"junk", "mangled"}

\* The events of f in lines of their own that were written to the end.
Intact(f) == {text[f][i].id : i \in {j \in DOMAIN text[f] : text[f][j].kind \notin Broken}}

\* What append_audit returned for stays in the log through rotations, repairs, deaths and
\* what the operator cuts off, except that a torn append may take one later event with it,
\* the one that is glued to it.  And it stays readable: an append that is cut off inside a
\* character makes the current file undecodable, with all that is in it, but nothing is
\* appended behind it and no rotation seals it.
AckedReadable ==
    damages = 0 =>
        /\ Cardinality(acked \ UNION {Intact(f) : f \in Files}) <= tears
        /\ \A f \in Files : Unreadable(f) => f = Current /\ torn

\* A repair that reports ok leaves every link and every chain right: also
\* after the damage of a crash, of a repair that died half way, or of a merge.
RepairRelinks == report = "ok" => Linked

\* audit_segment_sequence_issues: a gap is evidence loss and must never be
\* repaired by relinking the remaining physical neighbors.
LossIsRefused == lost => report # "ok"

\* _rotate_audit_chain_locked: a crash between segment creation and the
\* replacement of the current file is idempotent.  No event is sealed twice.
SealedOnce ==
    damages = 0 => \A s, t \in Segments : s # t => Readable(s) \cap Readable(t) = {}
=============================================================================
