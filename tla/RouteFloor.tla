------------------------------ MODULE RouteFloor ------------------------------
(***************************************************************************)
(* The learned model-tier floor of route_floor.py.  _finish of the loop    *)
(* queue calls record_outcome after it released the queue lock, so any     *)
(* number of calls load, change and rewrite route-floors.json at once, all *)
(* through one temporary file, and each may be killed on the way.          *)
(***************************************************************************)
EXTENDS Integers, FiniteSets, Sequences

CONSTANTS
    Recorders, Categories,
    BaseFloor,          \* base_floor_index of a category
    MaxTier,            \* _MAX_TIER
    UpLosses, DownWins, MinN, Cooldown,
    SmoothedMin,        \* DOWN_SMOOTHED_MIN, in percent
    FloorScenes,        \* bounds: each behaviour keeps to those of one scene
    Absent, Torn

\* Who records which categories, how many outcomes at most, and the kills.
ASSUME FloorScenesAssumption ==
    FloorScenes \subseteq [who : SUBSET Recorders, cats : SUBSET Categories, outcomes : Nat,
                           kills : Nat]

ASSUME FloorLimitsAssumption ==
    /\ {MaxTier, MinN, Cooldown, SmoothedMin} \subseteq Nat
    /\ {UpLosses, DownWins} \subseteq Nat \ {0} /\ BaseFloor \in [Categories -> 0..MaxTier]

\* The three knobs of the way down have one value, 6.
ASSUME FloorKnobsAssumption == MinN <= DownWins /\ Cooldown <= DownWins

\* What is known of a category, and what a state file holds.
Windows == [floor : 0..MaxTier, wins : Nat, losses : Nat, streak : Nat, lossStreak : Nat,
            changed : Nat, total : Nat]
IsState(x) == \E C \in SUBSET Categories : x \in [C -> Windows]

ASSUME FloorNamesAssumption == Absent # Torn /\ ~IsState(Absent) /\ ~IsState(Torn)

VARIABLES
    bounds,     \* the scene of this behaviour
    file,       \* file["floors"], file["tmp"]: Absent, Torn, or a record of some categories
    outcomes,   \* route_outcomes.jsonl
    rpc, rop,   \* step and local variables of each call of record_outcome
    handle,     \* the name by which the file is now known that the call has open
    recKills,
    replay,     \* history: replay[c]: the floor that the rule of the head of route_floor.py
                \* gives, and the outcomes since it last moved
    disturbed   \* history: two calls overlapped, or one was killed

floorVars == <<bounds, file, outcomes, rpc, rop, handle, recKills, replay, disturbed>>

Window(floor, total) == [floor |-> floor, wins |-> 0, losses |-> 0, streak |-> 0,
                         lossStreak |-> 0, changed |-> total, total |-> total]
NoCategories == [c \in {} |-> 0]
NoRecording == [cat |-> Absent, outcome |-> "none", state |-> NoCategories]

FloorInit ==
    /\ bounds \in FloorScenes
    /\ file = [n \in {"floors", "tmp"} |-> Absent]
    /\ outcomes = <<>>
    /\ rpc = [p \in Recorders |-> "idle"]
    /\ rop = [p \in Recorders |-> NoRecording]
    /\ handle = [p \in Recorders |-> "none"]
    /\ recKills = 0
    /\ replay = [c \in Categories |-> [floor |-> BaseFloor[c], since |-> <<>>]]
    /\ disturbed = FALSE

\* _load_state: a file that is missing, or no JSON, counts as no state at all.
Loaded(text) == IF text \in {Absent, Torn} THEN NoCategories ELSE text

CategoryOf(state, c) == IF c \in DOMAIN state THEN state[c] ELSE Window(BaseFloor[c], 0)

\* classify_outcome: what the request ended with, the first claim or a later one, a
\* verdict of a reviewer that was required, and a reason that blames the task.
Reports == [status : {"done", "dead"}, first : BOOLEAN, verdict : BOOLEAN, taskFault : BOOLEAN]

Classify(report) ==
    CASE report.status = "done" /\ report.first /\ report.verdict -> "win"
      [] report.status = "dead" /\ ~report.taskFault -> "loss"
      [] OTHER -> "neutral"

Bug_Counted(st, outcome) ==
    LET next == [st EXCEPT !.total = @ + 1] IN
    CASE outcome = "win" -> [next EXCEPT !.wins = @ + 1, !.streak = @ + 1, !.lossStreak = 0]
      [] outcome = "loss" -> [next EXCEPT !.losses = @ + 1, !.lossStreak = @ + 1, !.streak = 0]
      [] OTHER -> next

\* A neutral outcome ends a streak of wins, not one of losses.
Counted(st, outcome) ==
    LET next == [st EXCEPT !.total = @ + 1] IN
    CASE outcome = "win" -> [next EXCEPT !.wins = @ + 1, !.streak = @ + 1, !.lossStreak = 0]
      [] outcome = "loss" -> [next EXCEPT !.losses = @ + 1, !.lossStreak = @ + 1, !.streak = 0]
      [] OTHER -> [next EXCEPT !.streak = 0]

Escalates(st) == st.lossStreak >= UpLosses /\ st.floor < MaxTier

Smoothed(wins, losses) == 100 * (wins + 1) >= SmoothedMin * (wins + losses + 2)

Deescalates(st) ==
    /\ st.floor > 0 /\ st.streak >= DownWins
    /\ st.wins + st.losses >= MinN /\ Smoothed(st.wins, st.losses)
    /\ st.total - st.changed >= Cooldown

Bug_MovedTo(st, floor) == [st EXCEPT !.floor = floor, !.changed = st.total]

\* The new floor has to prove itself: the window begins anew.
MovedTo(st, floor) == Window(floor, st.total)

\* route_decide
Decided(st) ==
    CASE Escalates(st) -> MovedTo(st, st.floor + 1)
      [] ~Escalates(st) /\ Deescalates(st) -> MovedTo(st, st.floor - 1)
      [] OTHER -> st

\* The rule as the head of route_floor.py states it, over the outcomes themselves, since
\* being those since the last change of the floor: UP_LOSSES losses with no win between
\* them, or DOWN_WINS wins with nothing between them.
Rule(at, outcome) ==
    LET since == Append(at.since, outcome)
        n == Len(since)
        Ended(y) == {i \in 1..n : since[i] = y}
        run == {i \in Ended("loss") : \A j \in Ended("win") : j < i}
    IN IF Cardinality(run) >= UpLosses /\ at.floor < MaxTier
       THEN [floor |-> at.floor + 1, since |-> <<>>]
       ELSE IF /\ n >= DownWins /\ (n - DownWins + 1)..n \subseteq Ended("win") /\ at.floor > 0
               /\ Smoothed(Cardinality(Ended("win")), Cardinality(Ended("loss")))
       THEN [floor |-> at.floor - 1, since |-> <<>>]
       ELSE [floor |-> at.floor, since |-> since]

-----------------------------------------------------------------------------
(* record_outcome *)

Recording(p) == rpc[p] # "idle"

RecordGoto(p, step) == rpc' = [rpc EXCEPT ![p] = step]

\* The state is loaded, and changed for the outcome of one request.
Load(p, c, report) ==
    /\ ~Recording(p) /\ p \in bounds.who /\ c \in bounds.cats
    /\ Len(outcomes) + Cardinality({q \in Recorders : rpc[q] = "log"}) < bounds.outcomes
    /\ LET state == Loaded(file["floors"])
           outcome == Classify(report)
           st == Decided(Counted(CategoryOf(state, c), outcome))
       IN rop' = [rop EXCEPT ![p] =
            [cat |-> c, outcome |-> outcome,
             state |-> [x \in DOMAIN state \cup {c} |-> IF x = c THEN st ELSE state[x]]]]
    /\ RecordGoto(p, "log")
    /\ disturbed' = (disturbed \/ \E q \in Recorders : Recording(q))
    /\ UNCHANGED <<bounds, file, outcomes, handle, recKills, replay>>

AppendOutcome(p) ==
    /\ rpc[p] = "log"
    /\ outcomes' = Append(outcomes, [cat |-> rop[p].cat, outcome |-> rop[p].outcome])
    /\ replay' = [replay EXCEPT ![rop[p].cat] = Rule(@, rop[p].outcome)]
    /\ RecordGoto(p, "open")
    /\ UNCHANGED <<bounds, file, rop, handle, recKills, disturbed>>

\* _write_state: the temporary file, the same one for all, is opened and truncated,
TmpOpen(p) ==
    /\ rpc[p] = "open"
    /\ file' = [file EXCEPT !["tmp"] = Torn]
    /\ handle' = [handle EXCEPT ![p] = "tmp"]
    /\ RecordGoto(p, "write")
    /\ UNCHANGED <<bounds, outcomes, rop, recKills, replay, disturbed>>

\* written, wherever it is by now, and over whatever another call wrote into it,
TmpWrite(p, whole) ==
    /\ rpc[p] = "write"
    /\ whole \/ (handle[p] # "gone" /\ file[handle[p]] # Torn)
    /\ file' = IF handle[p] = "gone" THEN file
               ELSE [file EXCEPT ![handle[p]] = IF whole THEN rop[p].state ELSE Torn]
    /\ RecordGoto(p, "replace")
    /\ UNCHANGED <<bounds, outcomes, rop, handle, recKills, replay, disturbed>>

\* and renamed, if it is there: handles keep to their file.
Replace(p) ==
    /\ rpc[p] = "replace"
    /\ IF file["tmp"] = Absent
       THEN UNCHANGED file /\ handle' = [handle EXCEPT ![p] = "none"]
       ELSE /\ file' = [file EXCEPT !["floors"] = file["tmp"], !["tmp"] = Absent]
            /\ handle' = [q \in Recorders |->
                  CASE q = p -> "none"
                    [] q # p /\ handle[q] = "tmp" -> "floors"
                    [] q # p /\ handle[q] = "floors" -> "gone"
                    [] OTHER -> handle[q]]
    /\ RecordGoto(p, "idle") /\ rop' = [rop EXCEPT ![p] = NoRecording]
    /\ UNCHANGED <<bounds, outcomes, recKills, replay, disturbed>>

RecorderKilled(p) ==
    /\ Recording(p) /\ recKills < bounds.kills
    /\ recKills' = recKills + 1 /\ disturbed' = TRUE
    /\ RecordGoto(p, "idle") /\ rop' = [rop EXCEPT ![p] = NoRecording]
    /\ handle' = [handle EXCEPT ![p] = "none"]
    /\ UNCHANGED <<bounds, file, outcomes, replay>>

FloorNext ==
    \E p \in Recorders :
        \/ \E c \in Categories, report \in Reports : Load(p, c, report)
        \/ AppendOutcome(p) \/ TmpOpen(p) \/ Replace(p) \/ RecorderKilled(p)
        \/ \E whole \in BOOLEAN : TmpWrite(p, whole)

FloorSpec == FloorInit /\ [][FloorNext]_floorVars

-----------------------------------------------------------------------------
(* Properties *)

\* effective_floor, which loopd reads
EffectiveFloor(c) == CategoryOf(Loaded(file["floors"]), c).floor

Number(c, outcome) ==
    Cardinality({i \in DOMAIN outcomes : outcomes[i] = [cat |-> c, outcome |-> outcome]})

\* The floor that dispatch reads is always paid for by outcomes on record: UP_LOSSES
\* losses for each tier above the base, DOWN_WINS wins for each below it; whatever
\* calls overlapped, overwrote each other's temporary file or died.
FloorPaid ==
    \A c \in Categories : LET raised == EffectiveFloor(c) - BaseFloor[c] IN
        /\ UpLosses * raised <= Number(c, "loss")
        /\ DownWins * (-raised) <= Number(c, "win")

\* When no two calls overlap and none is killed, the floor is what the outcomes on
\* record give under that rule, between any two calls.
FloorFollowsRule ==
    ~disturbed /\ (\A p \in Recorders : ~Recording(p)) =>
        \A c \in Categories : EffectiveFloor(c) = replay[c].floor
=============================================================================
