---------------------------- MODULE RouteFloorProofs ----------------------------
(***************************************************************************)
(* The learned floor, for any categories, outcomes and calls: it is paid   *)
(* for by outcomes on record however calls overlap, and it is what the     *)
(* rule of the head of route_floor.py gives as long as they do not.        *)
(***************************************************************************)
EXTENDS RouteFloor, FiniteSetTheorems, TLAPS

-----------------------------------------------------------------------------
(* Sequences of outcomes *)

Outcomes == {"win", "loss", "neutral"}

\* The places of y in q; and the losses after the last win.
Where(q, y) == {i \in 1..Len(q) : q[i] = y}
LossRun(q) == {i \in Where(q, "loss") : \A j \in Where(q, "win") : j < i}

LEMMA WhereFinite ==
    ASSUME NEW S, NEW q \in Seq(S), NEW y, NEW T \in SUBSET Where(q, y)
    PROVE  /\ IsFiniteSet(T) /\ Cardinality(T) \in Nat
<1>1. Len(q) \in Nat
  OBVIOUS
<1>2. IsFiniteSet(1..Len(q))
  BY <1>1, FS_Interval
<1>3. T \subseteq 1..Len(q)
  BY DEF Where
<1> QED BY <1>2, <1>3, FS_Subset, FS_CardinalityType

LEMMA WhereAppend ==
    ASSUME NEW S, NEW q \in Seq(S), NEW x \in S, NEW y
    PROVE  /\ Where(Append(q, x), y)
                = IF x = y THEN Where(q, y) \cup {Len(q) + 1} ELSE Where(q, y)
           /\ Len(q) + 1 \notin Where(q, y)
<1>1. /\ Append(q, x) \in Seq(S) /\ Len(Append(q, x)) = Len(q) + 1 /\ Len(q) \in Nat
      /\ \A i \in 1..Len(q) : Append(q, x)[i] = q[i]
      /\ Append(q, x)[Len(q) + 1] = x
  OBVIOUS
<1>2. 1..(Len(q) + 1) = (1..Len(q)) \cup {Len(q) + 1} /\ Len(q) + 1 \notin 1..Len(q)
  BY <1>1
<1> QED BY <1>1, <1>2 DEF Where

LEMMA WhereCount ==
    ASSUME NEW S, NEW q \in Seq(S), NEW x \in S, NEW y
    PROVE  /\ Cardinality(Where(q, y)) \in Nat
           /\ Cardinality(Where(Append(q, x), y))
                = IF x = y THEN Cardinality(Where(q, y)) + 1 ELSE Cardinality(Where(q, y))
<1>1. IsFiniteSet(Where(q, y)) /\ Cardinality(Where(q, y)) \in Nat
  BY WhereFinite
<1> QED BY <1>1, WhereAppend, FS_AddElement

LEMMA LossRunCount ==
    ASSUME NEW q \in Seq(Outcomes), NEW x \in Outcomes
    PROVE  /\ Cardinality(LossRun(q)) \in Nat
           /\ Cardinality(LossRun(Append(q, x)))
                = IF x = "loss" THEN Cardinality(LossRun(q)) + 1
                  ELSE IF x = "win" THEN 0 ELSE Cardinality(LossRun(q))
<1> DEFINE n == Len(q)
<1>1. IsFiniteSet(LossRun(q)) /\ Cardinality(LossRun(q)) \in Nat
  BY WhereFinite DEF LossRun
<1>2. /\ n \in Nat /\ \A y : Where(q, y) \subseteq 1..n /\ n + 1 \notin LossRun(q)
  <2>1. \A y : n + 1 \notin Where(q, y)
    BY WhereAppend
  <2> QED BY <2>1 DEF Where, LossRun
<1>3. CASE x = "loss"
  <2>1. /\ Where(Append(q, x), "loss") = Where(q, "loss") \cup {n + 1}
        /\ Where(Append(q, x), "win") = Where(q, "win")
    BY <1>3, WhereAppend DEF Outcomes
  <2>2. LossRun(Append(q, x)) = LossRun(q) \cup {n + 1}
    BY <1>2, <2>1 DEF LossRun
  <2> QED BY <1>1, <1>2, <1>3, <2>2, FS_AddElement
<1>4. CASE x = "win"
  <2>1. /\ Where(Append(q, x), "loss") = Where(q, "loss")
        /\ Where(Append(q, x), "win") = Where(q, "win") \cup {n + 1}
    BY <1>4, WhereAppend DEF Outcomes
  <2>2. LossRun(Append(q, x)) = {}
    BY <1>2, <2>1 DEF LossRun
  <2> QED BY <1>1, <1>4, <2>2, FS_EmptySet
<1>5. CASE x = "neutral"
  <2>1. /\ Where(Append(q, x), "loss") = Where(q, "loss")
        /\ Where(Append(q, x), "win") = Where(q, "win")
    BY <1>5, WhereAppend DEF Outcomes
  <2>2. LossRun(Append(q, x)) = LossRun(q)
    BY <2>1 DEF LossRun
  <2> QED BY <1>1, <1>5, <2>2
<1> QED BY <1>3, <1>4, <1>5 DEF Outcomes

-----------------------------------------------------------------------------
(* What is known of a category *)

LEMMA CategoryIs ==
    ASSUME NEW state, IsState(state), NEW c \in Categories
    PROVE  CategoryOf(state, c) \in Windows
BY FloorLimitsAssumption DEF IsState, CategoryOf, Windows, Window

LEMMA LoadedIs ==
    ASSUME NEW text, text \in {Absent, Torn} \/ IsState(text)
    PROVE  IsState(Loaded(text))
<1>1. IsState(NoCategories)
  <2>1. NoCategories \in [{} -> Windows] /\ {} \in SUBSET Categories
    BY DEF NoCategories
  <2> QED BY <2>1 DEF IsState
<1> QED BY <1>1 DEF Loaded

LEMMA UpdateIs ==
    ASSUME NEW state, IsState(state), NEW c \in Categories, NEW st \in Windows,
           NEW new, new = [x \in DOMAIN state \cup {c} |-> IF x = c THEN st ELSE state[x]]
    PROVE  /\ IsState(new) /\ CategoryOf(new, c) = st
           /\ \A x \in Categories \ {c} : CategoryOf(new, x) = CategoryOf(state, x)
<1>1. PICK C \in SUBSET Categories : state \in [C -> Windows]
  BY DEF IsState
<1>2. DOMAIN state = C
  BY <1>1
<1>3. new \in [C \cup {c} -> Windows] /\ C \cup {c} \in SUBSET Categories
  BY <1>1, <1>2
<1>4. IsState(new)
  BY <1>3 DEF IsState
<1>5. CategoryOf(new, c) = st
  BY <1>2 DEF CategoryOf
<1>6. \A x \in Categories \ {c} : CategoryOf(new, x) = CategoryOf(state, x)
  BY <1>2 DEF CategoryOf
<1> QED BY <1>4, <1>5, <1>6

LEMMA CountedIs ==
    ASSUME NEW st \in Windows, NEW x \in Outcomes, NEW new, new = Counted(st, x)
    PROVE  /\ new \in Windows /\ new.floor = st.floor
           /\ new.total = st.total + 1 /\ new.changed = st.changed
           /\ new.wins = IF x = "win" THEN st.wins + 1 ELSE st.wins
           /\ new.losses = IF x = "loss" THEN st.losses + 1 ELSE st.losses
           /\ new.streak = IF x = "win" THEN st.streak + 1 ELSE 0
           /\ new.lossStreak = IF x = "loss" THEN st.lossStreak + 1
                              ELSE IF x = "win" THEN 0 ELSE st.lossStreak
<1> DEFINE next == [st EXCEPT !.total = @ + 1]
<1>0. /\ next \in Windows /\ next.floor = st.floor /\ next.total = st.total + 1
      /\ next.changed = st.changed /\ next.wins = st.wins /\ next.losses = st.losses
      /\ next.streak = st.streak /\ next.lossStreak = st.lossStreak
  BY DEF Windows
<1>1. CASE x = "win"
  <2>1. new = [next EXCEPT !.wins = @ + 1, !.streak = @ + 1, !.lossStreak = 0]
    BY <1>1 DEF Counted
  <2> HIDE DEF next
  <2>2. new = [floor |-> next.floor, wins |-> next.wins + 1, losses |-> next.losses, streak |-> next.streak + 1,
             lossStreak |-> 0,
             changed |-> next.changed, total |-> next.total]
    BY <1>0, <2>1 DEF Windows
  <2> QED BY <1>0, <1>1, <2>2 DEF Windows
<1>2. CASE x = "loss"
  <2>1. new = [next EXCEPT !.losses = @ + 1, !.lossStreak = @ + 1, !.streak = 0]
    BY <1>2 DEF Counted
  <2> HIDE DEF next
  <2>2. new = [floor |-> next.floor, wins |-> next.wins, losses |-> next.losses + 1, streak |-> 0,
             lossStreak |-> next.lossStreak + 1,
             changed |-> next.changed, total |-> next.total]
    BY <1>0, <2>1 DEF Windows
  <2> QED BY <1>0, <1>2, <2>2 DEF Windows
<1>3. CASE x = "neutral"
  <2>1. new = [next EXCEPT !.streak = 0]
    BY <1>3 DEF Counted
  <2> HIDE DEF next
  <2> QED BY <1>0, <1>3, <2>1 DEF Windows
<1> QED BY <1>1, <1>2, <1>3 DEF Outcomes

LEMMA DecidedIs ==
    ASSUME NEW st \in Windows, NEW new, new = Decided(st)
    PROVE  /\ new \in Windows
           /\ \/ Escalates(st) /\ new = Window(st.floor + 1, st.total)
              \/ ~Escalates(st) /\ Deescalates(st) /\ new = Window(st.floor - 1, st.total)
              \/ ~Escalates(st) /\ ~Deescalates(st) /\ new = st
<1>0. MaxTier \in Nat /\ st.floor \in 0..MaxTier /\ st.total \in Nat
  BY FloorLimitsAssumption DEF Windows
<1>1. CASE Escalates(st)
  <2>1. new = Window(st.floor + 1, st.total)
    BY <1>1 DEF Decided, MovedTo
  <2>2. st.floor + 1 \in 0..MaxTier
    BY <1>0, <1>1 DEF Escalates
  <2> QED BY <1>0, <1>1, <2>1, <2>2 DEF Window, Windows
<1>2. CASE ~Escalates(st) /\ Deescalates(st)
  <2>1. new = Window(st.floor - 1, st.total)
    BY <1>2 DEF Decided, MovedTo
  <2>2. st.floor - 1 \in 0..MaxTier
    BY <1>0, <1>2 DEF Deescalates
  <2> QED BY <1>0, <1>2, <2>1, <2>2 DEF Window, Windows
<1>3. CASE ~Escalates(st) /\ ~Deescalates(st)
  BY <1>3 DEF Decided
<1> QED BY <1>1, <1>2, <1>3

-----------------------------------------------------------------------------
(* Types *)

Names == {"floors", "tmp"}
Entries == [cat : Categories, outcome : Outcomes]

FloorTypes ==
    /\ file = [n \in Names |-> file[n]]
    /\ \A n \in Names : file[n] \in {Absent, Torn} \/ IsState(file[n])
    /\ outcomes \in Seq(Entries)
    /\ rpc \in [Recorders -> {"idle", "log", "open", "write", "replace"}]
    /\ rop = [p \in Recorders |-> rop[p]]
    /\ \A p \in Recorders : /\ IsState(rop[p].state)
                            /\ rpc[p] = "log" => /\ rop[p].cat \in Categories
                                                 /\ rop[p].outcome \in Outcomes

LEMMA NoRecordingIs ==
    /\ NoRecording.state = NoCategories /\ IsState(NoCategories)
    /\ \A c \in Categories : CategoryOf(NoCategories, c) = Window(BaseFloor[c], 0)
<1>1. NoCategories \in [{} -> Windows] /\ {} \in SUBSET Categories /\ DOMAIN NoCategories = {}
  BY DEF NoCategories
<1> QED BY <1>1 DEF IsState, NoRecording, CategoryOf

LEMMA FloorTypesInit == FloorInit => FloorTypes
BY NoRecordingIs DEF FloorInit, FloorTypes, Names

\* What a call of Load computes.
NewState(c, outcome) ==
    LET state == Loaded(file["floors"]) IN
    [x \in DOMAIN state \cup {c} |->
        IF x = c THEN Decided(Counted(CategoryOf(state, c), outcome)) ELSE state[x]]

LEMMA LoadIs ==
    ASSUME FloorTypes, NEW p \in Recorders, NEW c \in Categories, NEW report \in Reports,
           Load(p, c, report)
    PROVE  \E x \in Outcomes :
             /\ rpc[p] = "idle" /\ rpc' = [rpc EXCEPT ![p] = "log"]
             /\ rop' = [rop EXCEPT ![p] = [cat |-> c, outcome |-> x, state |-> NewState(c, x)]]
             /\ UNCHANGED <<file, outcomes, handle, replay>>
<1>1. Classify(report) \in Outcomes
  BY DEF Classify, Outcomes
<1> QED BY <1>1, Zenon DEF Load, RecordGoto, Recording, NewState

LEMMA NewStateIs ==
    ASSUME FloorTypes, NEW c \in Categories, NEW x \in Outcomes
    PROVE  LET old == Loaded(file["floors"]) IN
           /\ IsState(old) /\ IsState(NewState(c, x))
           /\ CategoryOf(NewState(c, x), c) = Decided(Counted(CategoryOf(old, c), x))
           /\ \A y \in Categories \ {c} : CategoryOf(NewState(c, x), y) = CategoryOf(old, y)
<1> DEFINE old == Loaded(file["floors"])
           st == Decided(Counted(CategoryOf(old, c), x))
<1>1. IsState(old)
  BY LoadedIs DEF FloorTypes, Names
<1>2. CategoryOf(old, c) \in Windows
  BY <1>1, CategoryIs
<1>3. Counted(CategoryOf(old, c), x) \in Windows
  BY <1>2, CountedIs
<1>4. st \in Windows
  BY <1>3, DecidedIs
<1>5. NewState(c, x) = [y \in DOMAIN old \cup {c} |-> IF y = c THEN st ELSE old[y]]
  BY DEF NewState
<1> HIDE DEF st, old
<1>6. /\ IsState(NewState(c, x)) /\ CategoryOf(NewState(c, x), c) = st
      /\ \A y \in Categories \ {c} : CategoryOf(NewState(c, x), y) = CategoryOf(old, y)
  BY <1>1, <1>4, <1>5, UpdateIs
<1> QED BY <1>1, <1>6 DEF st, old

LEMMA FloorTypesStep == FloorTypes /\ [FloorNext]_floorVars => FloorTypes'
<1> SUFFICES ASSUME FloorTypes, [FloorNext]_floorVars PROVE FloorTypes'
  OBVIOUS
<1>1. ASSUME NEW p \in Recorders, NEW c \in Categories, NEW report \in Reports,
             Load(p, c, report)
      PROVE  FloorTypes'
  <2>1. PICK x \in Outcomes :
             /\ rpc[p] = "idle" /\ rpc' = [rpc EXCEPT ![p] = "log"]
             /\ rop' = [rop EXCEPT ![p] = [cat |-> c, outcome |-> x, state |-> NewState(c, x)]]
             /\ UNCHANGED <<file, outcomes, handle, replay>>
    BY <1>1, LoadIs
  <2>2. PICK new : new = NewState(c, x)
    OBVIOUS
  <2>3. IsState(new)
    BY <2>2, NewStateIs
  <2> QED BY <2>1, <2>2, <2>3 DEF FloorTypes
<1>2. ASSUME NEW p \in Recorders, AppendOutcome(p) PROVE FloorTypes'
  <2>1. [cat |-> rop[p].cat, outcome |-> rop[p].outcome] \in Entries
    BY <1>2 DEF AppendOutcome, FloorTypes, Entries
  <2>2. outcomes' \in Seq(Entries)
    BY <1>2, <2>1 DEF AppendOutcome, FloorTypes
  <2>3. rpc' = [rpc EXCEPT ![p] = "open"] /\ UNCHANGED <<file, rop, handle>>
    BY <1>2 DEF AppendOutcome, RecordGoto
  <2> QED BY <2>2, <2>3 DEF FloorTypes
<1>3. ASSUME NEW p \in Recorders, TmpOpen(p) PROVE FloorTypes'
  BY <1>3 DEF TmpOpen, RecordGoto, FloorTypes, Names
<1>4. ASSUME NEW p \in Recorders, NEW whole \in BOOLEAN, TmpWrite(p, whole) PROVE FloorTypes'
  BY <1>4 DEF TmpWrite, RecordGoto, FloorTypes, Names
<1>5. ASSUME NEW p \in Recorders, Replace(p) PROVE FloorTypes'
  <2>1. /\ rpc' = [rpc EXCEPT ![p] = "idle"] /\ rop' = [rop EXCEPT ![p] = NoRecording]
        /\ outcomes' = outcomes
        /\ \/ file' = file
           \/ file' = [file EXCEPT !["floors"] = file["tmp"], !["tmp"] = Absent]
    BY <1>5 DEF Replace, RecordGoto
  <2> QED BY <2>1, NoRecordingIs DEF FloorTypes, Names
<1>6. ASSUME NEW p \in Recorders, RecorderKilled(p) PROVE FloorTypes'
  BY <1>6, NoRecordingIs DEF RecorderKilled, RecordGoto, FloorTypes
<1>7. CASE UNCHANGED floorVars
  BY <1>7 DEF floorVars, FloorTypes
<1> QED BY <1>1, <1>2, <1>3, <1>4, <1>5, <1>6, <1>7 DEF FloorNext

-----------------------------------------------------------------------------
(* Paid by outcomes on record *)

\* Each tier up is paid for by UP_LOSSES losses, and the run of losses that pays for the
\* next one is on record too; the same for tiers down and wins.
Paid(st, c, losses, wins) ==
    /\ UpLosses * (st.floor - BaseFloor[c]) + st.lossStreak <= losses
    /\ DownWins * (BaseFloor[c] - st.floor) + st.streak <= wins

\* The outcome of a call that has loaded the state is about to be on record.
Pending(p, c, outcome) ==
    IF rpc[p] = "log" /\ rop[p].cat = c /\ rop[p].outcome = outcome THEN 1 ELSE 0

PaidInv ==
    /\ \A n \in Names, c \in Categories :
         Paid(CategoryOf(Loaded(file[n]), c), c, Number(c, "loss"), Number(c, "win"))
    /\ \A p \in Recorders, c \in Categories :
         Paid(CategoryOf(rop[p].state, c), c, Number(c, "loss") + Pending(p, c, "loss"),
              Number(c, "win") + Pending(p, c, "win"))

LEMMA BasePaid ==
    ASSUME NEW c \in Categories, NEW losses \in Nat, NEW wins \in Nat
    PROVE  Paid(CategoryOf(NoCategories, c), c, losses, wins)
<1>1. CategoryOf(NoCategories, c) = Window(BaseFloor[c], 0) /\ BaseFloor[c] \in Int
  BY NoRecordingIs, FloorLimitsAssumption
<1> QED BY <1>1, FloorLimitsAssumption DEF Paid, Window

LEMMA PaidMore ==
    ASSUME NEW c \in Categories, NEW st \in Windows, NEW losses \in Nat, NEW wins \in Nat,
           NEW losses2 \in Nat, NEW wins2 \in Nat, losses <= losses2, wins <= wins2,
           Paid(st, c, losses, wins)
    PROVE  Paid(st, c, losses2, wins2)
<1>1. /\ UpLosses * (st.floor - BaseFloor[c]) + st.lossStreak \in Int
      /\ DownWins * (BaseFloor[c] - st.floor) + st.streak \in Int
  BY FloorLimitsAssumption DEF Windows
<1> QED BY <1>1 DEF Paid

LEMMA Times ==
    ASSUME NEW k \in Nat, NEW a \in Int
    PROVE  k * (a + 1) = k * a + k /\ k * (a - 1) = k * a - k /\ k * a \in Int
OBVIOUS

LEMMA CountedPaid ==
    ASSUME NEW c \in Categories, NEW st \in Windows, NEW x \in Outcomes,
           NEW losses \in Nat, NEW wins \in Nat, Paid(st, c, losses, wins)
    PROVE  Paid(Counted(st, x), c, losses + (IF x = "loss" THEN 1 ELSE 0),
                wins + (IF x = "win" THEN 1 ELSE 0))
<1>1. PICK new : new = Counted(st, x)
  OBVIOUS
<1>2. /\ new \in Windows /\ new.floor = st.floor
      /\ new.streak = IF x = "win" THEN st.streak + 1 ELSE 0
      /\ new.lossStreak = IF x = "loss" THEN st.lossStreak + 1
                              ELSE IF x = "win" THEN 0 ELSE st.lossStreak
  BY <1>1, CountedIs
<1>3. PICK up, down \in Int : /\ up = UpLosses * (st.floor - BaseFloor[c])
                              /\ down = DownWins * (BaseFloor[c] - st.floor)
  BY FloorLimitsAssumption DEF Windows
<1>4. up + st.lossStreak <= losses /\ down + st.streak <= wins
  BY <1>3 DEF Paid
<1>5. st.lossStreak \in Nat /\ st.streak \in Nat
  BY DEF Windows
<1>6. /\ up + new.lossStreak <= losses + (IF x = "loss" THEN 1 ELSE 0)
      /\ down + new.streak <= wins + (IF x = "win" THEN 1 ELSE 0)
  BY <1>2, <1>4, <1>5 DEF Outcomes
<1> QED BY <1>1, <1>2, <1>3, <1>6 DEF Paid

LEMMA DecidedPaid ==
    ASSUME NEW c \in Categories, NEW st \in Windows, NEW losses \in Nat, NEW wins \in Nat,
           Paid(st, c, losses, wins)
    PROVE  Paid(Decided(st), c, losses, wins)
<1>1. PICK new : new = Decided(st)
  OBVIOUS
<1>2. /\ new \in Windows
      /\ \/ Escalates(st) /\ new = Window(st.floor + 1, st.total)
         \/ ~Escalates(st) /\ Deescalates(st) /\ new = Window(st.floor - 1, st.total)
         \/ ~Escalates(st) /\ ~Deescalates(st) /\ new = st
  BY <1>1, DecidedIs
<1>3. PICK gap \in Int : gap = st.floor - BaseFloor[c]
  BY FloorLimitsAssumption DEF Windows
<1>4. BaseFloor[c] - st.floor = 0 - gap /\ st.floor \in Int /\ BaseFloor[c] \in Int
  BY <1>3, FloorLimitsAssumption DEF Windows
<1>5. /\ UpLosses * gap + st.lossStreak <= losses
      /\ DownWins * (0 - gap) + st.streak <= wins
  BY <1>3, <1>4 DEF Paid
<1>6. /\ UpLosses \in Nat /\ DownWins \in Nat /\ st.lossStreak \in Nat /\ st.streak \in Nat
  BY FloorLimitsAssumption DEF Windows
<1>7. CASE Escalates(st) /\ new = Window(st.floor + 1, st.total)
  <2>1. /\ new.floor - BaseFloor[c] = gap + 1 /\ BaseFloor[c] - new.floor = (0 - gap) - 1
        /\ new.lossStreak = 0 /\ new.streak = 0
    BY <1>3, <1>4, <1>7 DEF Window
  <2>2. UpLosses <= st.lossStreak
    BY <1>6, <1>7 DEF Escalates
  <2>3. /\ UpLosses * (gap + 1) = UpLosses * gap + UpLosses /\ UpLosses * gap \in Int
        /\ DownWins * ((0 - gap) - 1) = DownWins * (0 - gap) - DownWins
        /\ DownWins * (0 - gap) \in Int
    BY <1>6, Times
  <2>4. /\ UpLosses * (gap + 1) + 0 <= losses
        /\ DownWins * ((0 - gap) - 1) + 0 <= wins
    BY <1>5, <1>6, <2>2, <2>3
  <2> QED BY <1>1, <2>1, <2>4 DEF Paid
<1>8. CASE Deescalates(st) /\ new = Window(st.floor - 1, st.total)
  <2>1. /\ new.floor - BaseFloor[c] = gap - 1 /\ BaseFloor[c] - new.floor = (0 - gap) + 1
        /\ new.lossStreak = 0 /\ new.streak = 0
    BY <1>3, <1>4, <1>8 DEF Window
  <2>2. DownWins <= st.streak
    BY <1>6, <1>8 DEF Deescalates
  <2>3. /\ UpLosses * (gap - 1) = UpLosses * gap - UpLosses /\ UpLosses * gap \in Int
        /\ DownWins * ((0 - gap) + 1) = DownWins * (0 - gap) + DownWins
        /\ DownWins * (0 - gap) \in Int
    BY <1>6, Times
  <2>4. /\ UpLosses * (gap - 1) + 0 <= losses
        /\ DownWins * ((0 - gap) + 1) + 0 <= wins
    BY <1>5, <1>6, <2>2, <2>3
  <2> QED BY <1>1, <2>1, <2>4 DEF Paid
<1> QED BY <1>1, <1>2, <1>7, <1>8

LEMMA PlacesAre ==
    ASSUME NEW q \in Seq(Entries), NEW y
    PROVE  {i \in DOMAIN q : q[i] = y} = Where(q, y)
<1>1. DOMAIN q = 1..Len(q)
  OBVIOUS
<1> QED BY <1>1 DEF Where

LEMMA NumberGrows ==
    ASSUME FloorTypes, NEW p \in Recorders, AppendOutcome(p), NEW c, NEW x
    PROVE  /\ Number(c, x) \in Nat
           /\ Number(c, x)' = Number(c, x) + Pending(p, c, x)
           /\ Pending(p, c, x)' = 0
<1> DEFINE e == [cat |-> rop[p].cat, outcome |-> rop[p].outcome]
           y == [cat |-> c, outcome |-> x]
<1>1. e \in Entries /\ outcomes \in Seq(Entries) /\ outcomes' = Append(outcomes, e)
  BY DEF AppendOutcome, FloorTypes, Entries
<1>2. Number(c, x) = Cardinality(Where(outcomes, y))
  BY <1>1, PlacesAre DEF Number
<1>3. outcomes' \in Seq(Entries)
  BY <1>1
<1>4. Number(c, x)' = Cardinality(Where(outcomes', y))
  BY <1>3, PlacesAre DEF Number
<1>5. e = y <=> rop[p].cat = c /\ rop[p].outcome = x
  OBVIOUS
<1>6. rpc[p] = "log" /\ rpc' = [rpc EXCEPT ![p] = "open"] /\ rop' = rop
  BY DEF AppendOutcome, RecordGoto
<1> HIDE DEF e, y
<1>7. /\ Cardinality(Where(outcomes, y)) \in Nat
      /\ Cardinality(Where(outcomes', y))
           = IF e = y THEN Cardinality(Where(outcomes, y)) + 1 ELSE Cardinality(Where(outcomes, y))
  BY <1>1, WhereCount
<1>8. rpc'[p] = "open"
  BY <1>6 DEF FloorTypes
<1> QED BY <1>2, <1>4, <1>5, <1>6, <1>7, <1>8 DEF Pending

LEMMA NumberStays ==
    ASSUME FloorTypes, NEW c, NEW x
    PROVE  Number(c, x) \in Nat /\ \A p \in Recorders : Pending(p, c, x) \in {0, 1}
<1> DEFINE y == [cat |-> c, outcome |-> x]
<1>1. Number(c, x) = Cardinality(Where(outcomes, y)) /\ outcomes \in Seq(Entries)
  BY PlacesAre DEF Number, FloorTypes
<1> HIDE DEF y
<1>2. Cardinality(Where(outcomes, y)) \in Nat
  BY <1>1, WhereFinite
<1> QED BY <1>1, <1>2 DEF Pending

LEMMA PaidInit == FloorInit => PaidInv
<1> SUFFICES ASSUME FloorInit PROVE PaidInv
  OBVIOUS
<1>1. FloorTypes
  BY FloorTypesInit
<1>2. \A c, x : Number(c, x) \in Nat
  BY <1>1, NumberStays
<1>3. /\ \A n \in Names : Loaded(file[n]) = NoCategories
      /\ \A p \in Recorders : rop[p].state = NoCategories /\ rpc[p] = "idle"
  BY NoRecordingIs DEF FloorInit, Loaded, Names
<1>4. \A p \in Recorders : \A c, x : Pending(p, c, x) = 0
  BY <1>3 DEF Pending
<1> QED BY <1>2, <1>3, <1>4, BasePaid DEF PaidInv

\* What is saved in a step was saved before, was the state of a call that has put its
\* outcome on record, or is nothing.
LEMMA FilesPaid ==
    ASSUME FloorTypes, PaidInv, UNCHANGED outcomes, NEW n \in Names,
           \/ \E m \in Names : file'[n] = file[m]
           \/ file'[n] \in {Absent, Torn}
           \/ \E p \in Recorders : rpc[p] # "log" /\ file'[n] = rop[p].state
    PROVE  \A c \in Categories :
              Paid(CategoryOf(Loaded(file'[n]), c), c, Number(c, "loss"), Number(c, "win"))
<1>1. \A c, x : Number(c, x) \in Nat
  BY NumberStays
<1>2. CASE \E m \in Names : file'[n] = file[m]
  BY <1>2 DEF PaidInv
<1>3. CASE file'[n] \in {Absent, Torn}
  BY <1>1, <1>3, BasePaid DEF Loaded
<1>4. CASE \E p \in Recorders : rpc[p] # "log" /\ file'[n] = rop[p].state
  <2>1. PICK p \in Recorders : rpc[p] # "log" /\ file'[n] = rop[p].state
    BY <1>4
  <2>2. \A c, x : Pending(p, c, x) = 0
    BY <2>1 DEF Pending
  <2>3. \A c \in Categories :
           Paid(CategoryOf(rop[p].state, c), c, Number(c, "loss"), Number(c, "win"))
    BY <1>1, <2>2 DEF PaidInv
  <2> QED BY <1>1, <2>1, <2>3, BasePaid DEF Loaded
<1> QED BY <1>2, <1>3, <1>4

\* A step in which no outcome is put on record and no call begins.
LEMMA PaidStays ==
    ASSUME FloorTypes, PaidInv, UNCHANGED outcomes,
           \A n \in Names : \/ \E m \in Names : file'[n] = file[m]
                            \/ file'[n] \in {Absent, Torn}
                            \/ \E p \in Recorders : rpc[p] # "log" /\ file'[n] = rop[p].state,
           \A p \in Recorders : \/ rop'[p] = rop[p] /\ (rpc'[p] = "log" <=> rpc[p] = "log")
                                \/ rop'[p] = NoRecording /\ rpc'[p] = "idle"
    PROVE  PaidInv'
<1>1. \A c, x : Number(c, x) \in Nat /\ Number(c, x)' = Number(c, x)
  BY NumberStays DEF Number
<1>2. \A n \in Names, c \in Categories :
         Paid(CategoryOf(Loaded(file'[n]), c), c, Number(c, "loss")', Number(c, "win")')
  BY <1>1, FilesPaid
<1>3. ASSUME NEW p \in Recorders, NEW c \in Categories
      PROVE  Paid(CategoryOf(rop'[p].state, c), c, Number(c, "loss")' + Pending(p, c, "loss")',
                  Number(c, "win")' + Pending(p, c, "win")')
  <2>1. CASE rop'[p] = rop[p] /\ (rpc'[p] = "log" <=> rpc[p] = "log")
    <3>1. \A x : Pending(p, c, x)' = Pending(p, c, x)
      BY <2>1 DEF Pending
    <3> QED BY <1>1, <2>1, <3>1 DEF PaidInv
  <2>2. CASE rop'[p] = NoRecording /\ rpc'[p] = "idle"
    <3>1. \A x : Pending(p, c, x)' = 0
      BY <2>2 DEF Pending
    <3> QED BY <1>1, <2>2, <3>1, BasePaid, NoRecordingIs
  <2> QED BY <1>3, <2>1, <2>2
<1> QED BY <1>2, <1>3 DEF PaidInv

LEMMA LoadPaid ==
    ASSUME FloorTypes, PaidInv, NEW p \in Recorders, NEW c \in Categories, NEW report \in Reports,
           Load(p, c, report)
    PROVE  PaidInv'
<1>1. PICK x \in Outcomes :
           /\ rpc[p] = "idle" /\ rpc' = [rpc EXCEPT ![p] = "log"]
           /\ rop' = [rop EXCEPT ![p] = [cat |-> c, outcome |-> x, state |-> NewState(c, x)]]
           /\ UNCHANGED <<file, outcomes, handle, replay>>
  BY LoadIs
<1>2. PICK new, old : new = NewState(c, x) /\ old = Loaded(file["floors"])
  OBVIOUS
<1>3. /\ IsState(old)
      /\ CategoryOf(new, c) = Decided(Counted(CategoryOf(old, c), x))
      /\ \A y \in Categories \ {c} : CategoryOf(new, y) = CategoryOf(old, y)
  BY <1>2, NewStateIs
<1>4. /\ rop'[p] = [cat |-> c, outcome |-> x, state |-> new] /\ rpc'[p] = "log"
      /\ \A q \in Recorders \ {p} : rop'[q] = rop[q] /\ rpc'[q] = rpc[q]
  BY <1>1, <1>2 DEF FloorTypes
<1>5. \A y, z : Number(y, z) \in Nat /\ Number(y, z)' = Number(y, z)
  BY <1>1, NumberStays DEF Number
<1>6. \A y \in Categories : Paid(CategoryOf(old, y), y, Number(y, "loss"), Number(y, "win"))
  BY <1>2 DEF PaidInv, Names
<1>7. \A y \in Categories : CategoryOf(old, y) \in Windows
  BY <1>3, CategoryIs
<1>8. Paid(CategoryOf(new, c), c, Number(c, "loss") + (IF x = "loss" THEN 1 ELSE 0),
           Number(c, "win") + (IF x = "win" THEN 1 ELSE 0))
  <2> DEFINE st == Counted(CategoryOf(old, c), x)
             losses == Number(c, "loss") + (IF x = "loss" THEN 1 ELSE 0)
             wins == Number(c, "win") + (IF x = "win" THEN 1 ELSE 0)
  <2>1. losses \in Nat /\ wins \in Nat
    BY <1>5
  <2>2. st \in Windows
    BY <1>7, CountedIs
  <2>3. Paid(st, c, losses, wins)
    BY <1>5, <1>6, <1>7, CountedPaid
  <2> HIDE DEF st, losses, wins
  <2>4. Paid(Decided(st), c, losses, wins)
    BY <2>1, <2>2, <2>3, DecidedPaid
  <2> QED BY <1>3, <2>4 DEF st, losses, wins
<1>9. ASSUME NEW y \in Categories
      PROVE  Paid(CategoryOf(new, y), y, Number(y, "loss") + Pending(p, y, "loss")',
                  Number(y, "win") + Pending(p, y, "win")')
  <2>1. CASE y = c
    <3>1. /\ Pending(p, c, "loss")' = IF x = "loss" THEN 1 ELSE 0
          /\ Pending(p, c, "win")' = IF x = "win" THEN 1 ELSE 0
      BY <1>4 DEF Pending
    <3> QED BY <1>8, <2>1, <3>1
  <2>2. CASE y # c
    <3>1. Pending(p, y, "loss")' = 0 /\ Pending(p, y, "win")' = 0
      BY <1>4, <2>2 DEF Pending
    <3> QED BY <1>3, <1>5, <1>6, <2>2, <3>1
  <2> QED BY <2>1, <2>2
<1>10. \A q \in Recorders \ {p} : \A y, z : Pending(q, y, z)' = Pending(q, y, z)
  BY <1>4 DEF Pending
<1>11. \A q \in Recorders, y \in Categories :
          Paid(CategoryOf(rop'[q].state, y), y, Number(y, "loss")' + Pending(q, y, "loss")',
               Number(y, "win")' + Pending(q, y, "win")')
  <2>1. \A y \in Categories :
          Paid(CategoryOf(rop'[p].state, y), y, Number(y, "loss")' + Pending(p, y, "loss")',
               Number(y, "win")' + Pending(p, y, "win")')
    BY <1>4, <1>5, <1>9
  <2>2. \A q \in Recorders \ {p}, y \in Categories :
          Paid(CategoryOf(rop'[q].state, y), y, Number(y, "loss")' + Pending(q, y, "loss")',
               Number(y, "win")' + Pending(q, y, "win")')
    BY <1>4, <1>5, <1>10 DEF PaidInv
  <2> QED BY <2>1, <2>2
<1>12. \A n \in Names, y \in Categories :
         Paid(CategoryOf(Loaded(file'[n]), y), y, Number(y, "loss")', Number(y, "win")')
  BY <1>1, <1>5 DEF PaidInv
<1> QED BY <1>11, <1>12 DEF PaidInv

LEMMA AppendPaid ==
    ASSUME FloorTypes, PaidInv, NEW p \in Recorders, AppendOutcome(p)
    PROVE  PaidInv'
<1>1. rpc[p] = "log" /\ rpc' = [rpc EXCEPT ![p] = "open"] /\ rop' = rop /\ file' = file
  BY DEF AppendOutcome, RecordGoto
<1>2. \A c, x : /\ Number(c, x) \in Nat /\ Number(c, x)' = Number(c, x) + Pending(p, c, x)
                /\ Pending(p, c, x)' = 0
  BY NumberGrows
<1>3. \A q \in Recorders : \A c, x : Pending(q, c, x) \in {0, 1}
  BY NumberStays
<1>4. \A q \in Recorders \ {p} : \A c, x : Pending(q, c, x)' = Pending(q, c, x)
  BY <1>1 DEF Pending, FloorTypes
<1>5. \A c, x : Number(c, x)' \in Nat /\ Number(c, x) <= Number(c, x)'
  BY <1>2, <1>3
<1>6. ASSUME NEW n \in Names, NEW c \in Categories
      PROVE  Paid(CategoryOf(Loaded(file'[n]), c), c, Number(c, "loss")', Number(c, "win")')
  <2>1. CategoryOf(Loaded(file[n]), c) \in Windows
    BY LoadedIs, CategoryIs DEF FloorTypes
  <2>2. Paid(CategoryOf(Loaded(file[n]), c), c, Number(c, "loss"), Number(c, "win"))
    BY DEF PaidInv
  <2> QED BY <1>1, <1>2, <1>5, <2>1, <2>2, PaidMore
<1>7. ASSUME NEW c \in Categories
      PROVE  Paid(CategoryOf(rop'[p].state, c), c, Number(c, "loss")' + Pending(p, c, "loss")',
                  Number(c, "win")' + Pending(p, c, "win")')
  <2>1. Paid(CategoryOf(rop[p].state, c), c, Number(c, "loss") + Pending(p, c, "loss"),
             Number(c, "win") + Pending(p, c, "win"))
    BY DEF PaidInv
  <2>2. \A x : Number(c, x)' + Pending(p, c, x)' = Number(c, x) + Pending(p, c, x)
    BY <1>2, <1>3
  <2> QED BY <1>1, <2>1, <2>2
<1>8. ASSUME NEW q \in Recorders \ {p}, NEW c \in Categories
      PROVE  Paid(CategoryOf(rop'[q].state, c), c, Number(c, "loss")' + Pending(q, c, "loss")',
                  Number(c, "win")' + Pending(q, c, "win")')
  <2>1. CategoryOf(rop[q].state, c) \in Windows
    BY CategoryIs DEF FloorTypes
  <2>2. Paid(CategoryOf(rop[q].state, c), c, Number(c, "loss") + Pending(q, c, "loss"),
             Number(c, "win") + Pending(q, c, "win"))
    BY DEF PaidInv
  <2>3. \A x : /\ Number(c, x) + Pending(q, c, x) \in Nat
               /\ Number(c, x)' + Pending(q, c, x)' \in Nat
               /\ Number(c, x) + Pending(q, c, x) <= Number(c, x)' + Pending(q, c, x)'
    BY <1>2, <1>3, <1>4, <1>5
  <2>4. rop'[q].state = rop[q].state
    BY <1>1
  <2> QED BY <2>1, <2>2, <2>3, <2>4, PaidMore
<1> QED BY <1>6, <1>7, <1>8 DEF PaidInv

LEMMA PaidStep == FloorTypes /\ PaidInv /\ [FloorNext]_floorVars => PaidInv'
<1> SUFFICES ASSUME FloorTypes, PaidInv, [FloorNext]_floorVars PROVE PaidInv'
  OBVIOUS
<1>1. ASSUME NEW p \in Recorders, TmpOpen(p) PROVE PaidInv'
  <2>1. /\ UNCHANGED <<outcomes, rop>> /\ rpc[p] = "open" /\ rpc' = [rpc EXCEPT ![p] = "write"]
        /\ file' = [file EXCEPT !["tmp"] = Torn]
    BY <1>1 DEF TmpOpen, RecordGoto
  <2>2. \A n \in Names : file'[n] = file[n] \/ file'[n] = Torn
    BY <2>1 DEF FloorTypes
  <2>3. \A q \in Recorders : rop'[q] = rop[q] /\ (rpc'[q] = "log" <=> rpc[q] = "log")
    BY <2>1 DEF FloorTypes
  <2> QED BY <2>1, <2>2, <2>3, PaidStays
<1>2. ASSUME NEW p \in Recorders, NEW whole \in BOOLEAN, TmpWrite(p, whole) PROVE PaidInv'
  <2>1. /\ UNCHANGED <<outcomes, rop>> /\ rpc[p] = "write"
        /\ rpc' = [rpc EXCEPT ![p] = "replace"]
        /\ \/ file' = file
           \/ \E name : \/ file' = [file EXCEPT ![name] = rop[p].state]
                        \/ file' = [file EXCEPT ![name] = Torn]
    BY <1>2 DEF TmpWrite, RecordGoto
  <2>2. \A n \in Names : file'[n] = file[n] \/ file'[n] = Torn \/ file'[n] = rop[p].state
    BY <2>1 DEF FloorTypes
  <2>3. \A q \in Recorders : rop'[q] = rop[q] /\ (rpc'[q] = "log" <=> rpc[q] = "log")
    BY <2>1 DEF FloorTypes
  <2> QED BY <2>1, <2>2, <2>3, PaidStays
<1>3. ASSUME NEW p \in Recorders, Replace(p) PROVE PaidInv'
  <2>1. /\ rpc' = [rpc EXCEPT ![p] = "idle"] /\ rop' = [rop EXCEPT ![p] = NoRecording]
        /\ outcomes' = outcomes
        /\ \/ file' = file
           \/ file' = [file EXCEPT !["floors"] = file["tmp"], !["tmp"] = Absent]
    BY <1>3 DEF Replace, RecordGoto
  <2>2. \A n \in Names : file'[n] = file[n] \/ file'[n] = file["tmp"] \/ file'[n] = Absent
    BY <2>1 DEF FloorTypes, Names
  <2>3. \A q \in Recorders : \/ rop'[q] = rop[q] /\ rpc'[q] = rpc[q]
                             \/ rop'[q] = NoRecording /\ rpc'[q] = "idle"
    BY <2>1 DEF FloorTypes
  <2> QED BY <2>1, <2>2, <2>3, PaidStays DEF Names
<1>4. ASSUME NEW p \in Recorders, RecorderKilled(p) PROVE PaidInv'
  <2>1. /\ rpc' = [rpc EXCEPT ![p] = "idle"] /\ rop' = [rop EXCEPT ![p] = NoRecording]
        /\ UNCHANGED <<outcomes, file>>
    BY <1>4 DEF RecorderKilled, RecordGoto
  <2>2. \A q \in Recorders : \/ rop'[q] = rop[q] /\ rpc'[q] = rpc[q]
                             \/ rop'[q] = NoRecording /\ rpc'[q] = "idle"
    BY <2>1 DEF FloorTypes
  <2> QED BY <2>1, <2>2, PaidStays
<1>5. CASE UNCHANGED floorVars
  BY <1>5, PaidStays DEF floorVars
<1> QED BY <1>1, <1>2, <1>3, <1>4, <1>5, LoadPaid, AppendPaid DEF FloorNext

\* The floor that dispatch reads is paid for by outcomes on record: for any number of calls
\* that overlap, overwrite each other's temporary file or are killed.
THEOREM FloorOnRecord == FloorSpec => []FloorPaid
<1>1. FloorTypes /\ PaidInv => FloorPaid
  <2> SUFFICES ASSUME FloorTypes, PaidInv, NEW c \in Categories
               PROVE  /\ UpLosses * (EffectiveFloor(c) - BaseFloor[c]) <= Number(c, "loss")
                      /\ DownWins * (-(EffectiveFloor(c) - BaseFloor[c])) <= Number(c, "win")
    BY DEF FloorPaid
  <2> DEFINE st == CategoryOf(Loaded(file["floors"]), c)
  <2>1. Paid(st, c, Number(c, "loss"), Number(c, "win"))
    BY DEF PaidInv, Names
  <2>2. st \in Windows
    BY LoadedIs, CategoryIs DEF FloorTypes, Names
  <2>3. Number(c, "loss") \in Nat /\ Number(c, "win") \in Nat
    BY NumberStays
  <2>4. EffectiveFloor(c) = st.floor
    BY DEF EffectiveFloor
  <2> HIDE DEF st
  <2>5. /\ st.floor \in Int /\ BaseFloor[c] \in Int /\ UpLosses \in Nat /\ DownWins \in Nat
        /\ st.streak \in Nat /\ st.lossStreak \in Nat
    BY <2>2, FloorLimitsAssumption DEF Windows
  <2>6. -(st.floor - BaseFloor[c]) = BaseFloor[c] - st.floor
    BY <2>5
  <2>7. /\ UpLosses * (st.floor - BaseFloor[c]) \in Int
        /\ DownWins * (BaseFloor[c] - st.floor) \in Int
    BY <2>5
  <2>8. /\ UpLosses * (st.floor - BaseFloor[c]) <= Number(c, "loss")
        /\ DownWins * (BaseFloor[c] - st.floor) <= Number(c, "win")
    BY <2>1, <2>3, <2>5, <2>7 DEF Paid
  <2> QED BY <2>4, <2>6, <2>8
<1> QED BY <1>1, FloorTypesInit, PaidInit, FloorTypesStep, PaidStep, PTL DEF FloorSpec

-----------------------------------------------------------------------------
(* The counters and the rule *)

\* The counters of a category say what the rule sees in the outcomes since the last move.
Agrees(st, at) ==
    /\ at.since \in Seq(Outcomes) /\ st.floor = at.floor
    /\ st.wins = Cardinality(Where(at.since, "win"))
    /\ st.losses = Cardinality(Where(at.since, "loss"))
    /\ st.lossStreak = Cardinality(LossRun(at.since))
    /\ st.streak <= Len(at.since) /\ st.streak <= st.wins
    /\ \A i \in (Len(at.since) - st.streak + 1)..Len(at.since) : at.since[i] = "win"
    /\ st.streak < Len(at.since) => at.since[Len(at.since) - st.streak] # "win"
    /\ st.total = st.changed + Len(at.since)

\* The two conditions of the rule.
Up(q, floor) == Cardinality(LossRun(q)) >= UpLosses /\ floor < MaxTier
Down(q, floor) ==
    /\ Len(q) >= DownWins /\ (Len(q) - DownWins + 1)..Len(q) \subseteq Where(q, "win")
    /\ floor > 0 /\ Smoothed(Cardinality(Where(q, "win")), Cardinality(Where(q, "loss")))

LEMMA RuleIs ==
    ASSUME NEW at, NEW x, NEW q, q = Append(at.since, x)
    PROVE  Rule(at, x) = IF Up(q, at.floor) THEN [floor |-> at.floor + 1, since |-> <<>>]
                         ELSE IF Down(q, at.floor) THEN [floor |-> at.floor - 1, since |-> <<>>]
                         ELSE [floor |-> at.floor, since |-> q]
BY DEF Rule, Up, Down, LossRun, Where

LEMMA FreshAgrees ==
    ASSUME NEW floor, NEW total \in Nat
    PROVE  Agrees(Window(floor, total), [floor |-> floor, since |-> <<>>])
<1>1. \A y : Where(<<>>, y) = {}
  BY DEF Where
<1>2. LossRun(<<>>) = {}
  BY <1>1 DEF LossRun
<1>3. Cardinality({}) = 0
  BY FS_EmptySet
<1>4. PICK st, at : st = Window(floor, total) /\ at = [floor |-> floor, since |-> <<>>]
  OBVIOUS
<1>5. /\ st.floor = floor /\ st.wins = 0 /\ st.losses = 0 /\ st.streak = 0 /\ st.lossStreak = 0
      /\ st.changed = total /\ st.total = total /\ at.floor = floor /\ at.since = <<>>
  BY <1>4 DEF Window
<1>6. at.since \in Seq(Outcomes) /\ Len(at.since) = 0
  BY <1>5
<1>7. /\ \A i \in (Len(at.since) - st.streak + 1)..Len(at.since) : at.since[i] = "win"
      /\ ~(st.streak < Len(at.since)) /\ st.streak <= Len(at.since) /\ st.streak <= st.wins
      /\ st.total = st.changed + Len(at.since)
  BY <1>5, <1>6
<1>8. /\ Where(at.since, "win") = {} /\ Where(at.since, "loss") = {} /\ LossRun(at.since) = {}
  BY <1>1, <1>2, <1>5
<1>9. /\ st.wins = Cardinality({}) /\ st.losses = Cardinality({})
      /\ st.lossStreak = Cardinality({}) /\ st.floor = at.floor
  BY <1>3, <1>5
<1>10. Agrees(st, at)
  BY <1>6, <1>7, <1>8, <1>9 DEF Agrees
<1> QED BY <1>4, <1>10

LEMMA CountedAgrees ==
    ASSUME NEW st \in Windows, NEW at, NEW x \in Outcomes, Agrees(st, at),
           NEW q, q = Append(at.since, x)
    PROVE  Agrees(Counted(st, x), [floor |-> at.floor, since |-> q])
<1>1. PICK new, old : new = Counted(st, x) /\ old = at.since
  OBVIOUS
<1>2. /\ new \in Windows /\ new.floor = st.floor
      /\ new.total = st.total + 1 /\ new.changed = st.changed
      /\ new.wins = IF x = "win" THEN st.wins + 1 ELSE st.wins
      /\ new.losses = IF x = "loss" THEN st.losses + 1 ELSE st.losses
      /\ new.streak = IF x = "win" THEN st.streak + 1 ELSE 0
      /\ new.lossStreak = IF x = "loss" THEN st.lossStreak + 1
                          ELSE IF x = "win" THEN 0 ELSE st.lossStreak
  BY <1>1, CountedIs
<1>3. /\ old \in Seq(Outcomes) /\ q = Append(old, x) /\ q \in Seq(Outcomes)
      /\ Len(q) = Len(old) + 1 /\ Len(old) \in Nat /\ q[Len(q)] = x
      /\ \A i \in 1..Len(old) : q[i] = old[i]
  BY <1>1 DEF Agrees
<1>4. /\ st.wins = Cardinality(Where(old, "win")) /\ st.losses = Cardinality(Where(old, "loss"))
      /\ st.lossStreak = Cardinality(LossRun(old)) /\ st.total = st.changed + Len(old)
      /\ st.streak <= Len(old) /\ st.streak <= st.wins
      /\ \A i \in (Len(old) - st.streak + 1)..Len(old) : old[i] = "win"
      /\ st.streak < Len(old) => old[Len(old) - st.streak] # "win"
      /\ st.floor = at.floor
  BY <1>1 DEF Agrees
<1>5. st.streak \in Nat /\ st.wins \in Nat /\ st.total \in Nat /\ st.changed \in Nat
  BY DEF Windows
<1>6. /\ Cardinality(Where(q, "win")) = new.wins /\ Cardinality(Where(q, "loss")) = new.losses
      /\ Cardinality(LossRun(q)) = new.lossStreak
  BY <1>2, <1>3, <1>4, WhereCount, LossRunCount
<1>7. new.total = new.changed + Len(q)
  BY <1>2, <1>3, <1>4, <1>5
<1>8. new.streak <= Len(q) /\ new.streak <= new.wins
  BY <1>2, <1>3, <1>4, <1>5
<1>9. /\ \A i \in (Len(q) - new.streak + 1)..Len(q) : q[i] = "win"
      /\ new.streak < Len(q) => q[Len(q) - new.streak] # "win"
  <2>1. CASE x = "win"
    <3>1. new.streak = st.streak + 1 /\ Len(q) - new.streak = Len(old) - st.streak
      BY <1>2, <1>3, <1>5, <2>1
    <3>2. \A i \in (Len(q) - new.streak + 1)..Len(q) : q[i] = "win"
      <4> SUFFICES ASSUME NEW i \in (Len(q) - new.streak + 1)..Len(q) PROVE q[i] = "win"
        OBVIOUS
      <4>1. i = Len(q) \/ i \in (Len(old) - st.streak + 1)..Len(old)
        BY <1>3, <1>4, <1>5, <3>1
      <4>2. i \in (Len(old) - st.streak + 1)..Len(old) => i \in 1..Len(old)
        BY <1>3, <1>4, <1>5
      <4> QED BY <1>3, <1>4, <2>1, <4>1, <4>2
    <3>3. ASSUME new.streak < Len(q) PROVE q[Len(q) - new.streak] # "win"
      <4>1. st.streak < Len(old) /\ Len(old) - st.streak \in 1..Len(old)
        BY <1>3, <1>5, <3>1, <3>3
      <4> QED BY <1>3, <1>4, <3>1, <4>1
    <3> QED BY <3>2, <3>3
  <2>2. CASE x # "win"
    <3>1. new.streak = 0 /\ Len(q) - 0 = Len(q) /\ (Len(q) - 0 + 1)..Len(q) = {}
      BY <1>2, <1>3, <2>2
    <3> QED BY <1>3, <2>2, <3>1
  <2> QED BY <2>1, <2>2
<1>10. Agrees(new, [floor |-> at.floor, since |-> q])
  BY <1>2, <1>3, <1>4, <1>6, <1>7, <1>8, <1>9 DEF Agrees
<1> QED BY <1>1, <1>10

\* route_decide moves the floor when the rule does: the minimum sample and the cooldown are
\* never what keeps it.
LEMMA DecidesByRule ==
    ASSUME NEW st \in Windows, NEW floor, NEW q, Agrees(st, [floor |-> floor, since |-> q])
    PROVE  /\ Escalates(st) <=> Up(q, floor)
           /\ Deescalates(st) <=> Down(q, floor)
<1>1. /\ q \in Seq(Outcomes) /\ st.floor = floor
      /\ st.wins = Cardinality(Where(q, "win")) /\ st.losses = Cardinality(Where(q, "loss"))
      /\ st.lossStreak = Cardinality(LossRun(q)) /\ st.total = st.changed + Len(q)
      /\ st.streak <= Len(q) /\ st.streak <= st.wins
      /\ \A i \in (Len(q) - st.streak + 1)..Len(q) : q[i] = "win"
      /\ st.streak < Len(q) => q[Len(q) - st.streak] # "win"
  BY DEF Agrees
<1>2. /\ st.streak \in Nat /\ st.wins \in Nat /\ st.losses \in Nat /\ st.total \in Nat
      /\ st.changed \in Nat /\ Len(q) \in Nat /\ st.floor \in Nat
  BY <1>1, FloorLimitsAssumption DEF Windows
<1>3. DownWins \in Nat \ {0} /\ MinN \in Nat /\ Cooldown \in Nat
      /\ MinN <= DownWins /\ Cooldown <= DownWins
  BY FloorLimitsAssumption, FloorKnobsAssumption
<1>4. Escalates(st) <=> Up(q, floor)
  BY <1>1 DEF Escalates, Up
<1>5. st.streak >= DownWins <=> /\ Len(q) >= DownWins
                                /\ (Len(q) - DownWins + 1)..Len(q) \subseteq Where(q, "win")
  <2>1. ASSUME st.streak >= DownWins
        PROVE  /\ Len(q) >= DownWins
               /\ (Len(q) - DownWins + 1)..Len(q) \subseteq Where(q, "win")
    <3>1. Len(q) >= DownWins
      BY <1>1, <1>2, <1>3, <2>1
    <3>2. ASSUME NEW i \in (Len(q) - DownWins + 1)..Len(q) PROVE i \in Where(q, "win")
      <4>1. i \in (Len(q) - st.streak + 1)..Len(q) /\ i \in 1..Len(q)
        BY <1>2, <1>3, <2>1, <3>1
      <4> QED BY <1>1, <4>1 DEF Where
    <3> QED BY <3>1, <3>2
  <2>2. ASSUME Len(q) >= DownWins, (Len(q) - DownWins + 1)..Len(q) \subseteq Where(q, "win"),
               ~(st.streak >= DownWins)
        PROVE  FALSE
    <3>1. Len(q) - st.streak \in (Len(q) - DownWins + 1)..Len(q) /\ st.streak < Len(q)
      BY <1>2, <1>3, <2>2
    <3> QED BY <1>1, <2>2, <3>1 DEF Where
  <2> QED BY <2>1, <2>2
<1>6. st.streak >= DownWins => st.wins + st.losses >= MinN /\ st.total - st.changed >= Cooldown
  BY <1>1, <1>2, <1>3, SMTT(30)
<1>7. Deescalates(st) <=> Down(q, floor)
  BY <1>1, <1>5, <1>6 DEF Deescalates, Down
<1> QED BY <1>4, <1>7

LEMMA RuleAgrees ==
    ASSUME NEW st \in Windows, NEW at, NEW x \in Outcomes, Agrees(st, at)
    PROVE  Agrees(Decided(Counted(st, x)), Rule(at, x))
<1>1. PICK mid, q, new : mid = Counted(st, x) /\ q = Append(at.since, x) /\ new = Decided(mid)
  OBVIOUS
<1>2. mid \in Windows
  BY <1>1, CountedIs
<1>3. Agrees(mid, [floor |-> at.floor, since |-> q])
  BY <1>1, CountedAgrees
<1>4. mid.floor = at.floor /\ mid.total \in Nat
  BY <1>2, <1>3 DEF Agrees, Windows
<1>5. (Escalates(mid) <=> Up(q, at.floor)) /\ (Deescalates(mid) <=> Down(q, at.floor))
  BY <1>2, <1>3, DecidesByRule
<1>6. \/ Escalates(mid) /\ new = Window(mid.floor + 1, mid.total)
      \/ ~Escalates(mid) /\ Deescalates(mid) /\ new = Window(mid.floor - 1, mid.total)
      \/ ~Escalates(mid) /\ ~Deescalates(mid) /\ new = mid
  BY <1>1, <1>2, DecidedIs
<1>7. Rule(at, x) = IF Up(q, at.floor) THEN [floor |-> at.floor + 1, since |-> <<>>]
                    ELSE IF Down(q, at.floor) THEN [floor |-> at.floor - 1, since |-> <<>>]
                    ELSE [floor |-> at.floor, since |-> q]
  BY <1>1, RuleIs
<1>8. Agrees(new, Rule(at, x))
  BY <1>3, <1>4, <1>5, <1>6, <1>7, FreshAgrees
<1> QED BY <1>1, <1>8

-----------------------------------------------------------------------------
(* Between calls that do not overlap, the state is what the rule gives *)

Current(state) == \A c \in Categories : Agrees(CategoryOf(state, c), replay[c])

\* What the state of a call has to say of a category once its outcome is on record.
Due(p, c) == IF c = rop[p].cat THEN Rule(replay[c], rop[p].outcome) ELSE replay[c]

\* Only one call is at work, so the temporary file is its own.
StepInv(p) ==
    /\ rpc[p] = "log" => \A c \in Categories : Agrees(CategoryOf(rop[p].state, c), Due(p, c))
    /\ rpc[p] \in {"open", "write", "replace"} => Current(rop[p].state)
    /\ rpc[p] = "write" => handle[p] = "tmp" /\ file["tmp"] = Torn
    /\ rpc[p] = "replace" => file["tmp"] = rop[p].state

ReplayTypes == replay = [c \in Categories |-> replay[c]] /\ handle = [p \in Recorders |-> handle[p]]

FollowsInv ==
    /\ ReplayTypes
    /\ ~disturbed =>
         /\ \A p, q \in Recorders : Recording(p) /\ Recording(q) => p = q
         /\ (\A p \in Recorders : ~Recording(p)) => Current(Loaded(file["floors"]))
         /\ \A p \in Recorders : StepInv(p)

LEMMA FollowsInit == FloorInit => FollowsInv
<1> SUFFICES ASSUME FloorInit PROVE FollowsInv
  OBVIOUS
<1>1. \A p \in Recorders : rpc[p] = "idle"
  BY DEF FloorInit
<1>2. ReplayTypes
  BY DEF FloorInit, ReplayTypes
<1>3. Loaded(file["floors"]) = NoCategories
  BY DEF FloorInit, Loaded
<1>4. ASSUME NEW c \in Categories PROVE Agrees(CategoryOf(NoCategories, c), replay[c])
  <2>1. CategoryOf(NoCategories, c) = Window(BaseFloor[c], 0)
    BY NoRecordingIs
  <2>2. replay[c] = [floor |-> BaseFloor[c], since |-> <<>>]
    BY DEF FloorInit
  <2> QED BY <2>1, <2>2, FreshAgrees
<1> QED BY <1>1, <1>2, <1>3, <1>4 DEF FollowsInv, StepInv, Recording, Current

LEMMA LoadFollows ==
    ASSUME FloorTypes, FollowsInv, NEW p \in Recorders, NEW c \in Categories,
           NEW report \in Reports, Load(p, c, report)
    PROVE  FollowsInv'
<1>1. PICK x \in Outcomes :
           /\ rpc[p] = "idle" /\ rpc' = [rpc EXCEPT ![p] = "log"]
           /\ rop' = [rop EXCEPT ![p] = [cat |-> c, outcome |-> x, state |-> NewState(c, x)]]
           /\ UNCHANGED <<file, outcomes, handle, replay>>
  BY LoadIs
<1>2. ReplayTypes'
  BY <1>1 DEF FollowsInv, ReplayTypes
<1> SUFFICES ASSUME ~disturbed'
             PROVE  /\ \A q, r \in Recorders : Recording(q)' /\ Recording(r)' => q = r
                    /\ (\A q \in Recorders : ~Recording(q)') => Current(Loaded(file["floors"]))'
                    /\ \A q \in Recorders : StepInv(q)'
  BY <1>2 DEF FollowsInv
<1>3. ~disturbed /\ \A q \in Recorders : rpc[q] = "idle"
  BY DEF Load, Recording
<1>4. PICK new, old : new = NewState(c, x) /\ old = Loaded(file["floors"])
  OBVIOUS
<1>5. /\ rop'[p] = [cat |-> c, outcome |-> x, state |-> new] /\ rpc'[p] = "log"
      /\ \A q \in Recorders \ {p} : rpc'[q] = "idle"
  BY <1>1, <1>3, <1>4 DEF FloorTypes
<1>6. /\ IsState(old)
      /\ CategoryOf(new, c) = Decided(Counted(CategoryOf(old, c), x))
      /\ \A y \in Categories \ {c} : CategoryOf(new, y) = CategoryOf(old, y)
  BY <1>4, NewStateIs
<1>7. \A y \in Categories : Agrees(CategoryOf(old, y), replay[y])
  BY <1>3, <1>4 DEF FollowsInv, Current, Recording
<1>8. Agrees(CategoryOf(new, c), Rule(replay[c], x))
  <2>1. CategoryOf(old, c) \in Windows
    BY <1>6, CategoryIs
  <2> QED BY <1>6, <1>7, <2>1, RuleAgrees
<1>9. \A y \in Categories : Agrees(CategoryOf(new, y), IF y = c THEN Rule(replay[y], x) ELSE replay[y])
  BY <1>6, <1>7, <1>8
<1>10. StepInv(p)'
  <2>1. rop'[p].state = new /\ rop'[p].cat = c /\ rop'[p].outcome = x
    BY <1>5
  <2>2. \A y : Due(p, y)' = IF y = c THEN Rule(replay[y], x) ELSE replay[y]
    BY <1>1, <2>1 DEF Due
  <2> QED BY <1>5, <1>9, <2>1, <2>2 DEF StepInv
<1>11. \A q \in Recorders \ {p} : StepInv(q)'
  BY <1>5 DEF StepInv
<1> QED BY <1>5, <1>10, <1>11 DEF Recording

LEMMA AppendFollows ==
    ASSUME FloorTypes, FollowsInv, NEW p \in Recorders, AppendOutcome(p)
    PROVE  FollowsInv'
<1>1. /\ rpc[p] = "log" /\ rpc' = [rpc EXCEPT ![p] = "open"]
      /\ replay' = [replay EXCEPT ![rop[p].cat] = Rule(replay[rop[p].cat], rop[p].outcome)]
      /\ UNCHANGED <<file, rop, handle, disturbed>>
  BY DEF AppendOutcome, RecordGoto
<1>2. ReplayTypes /\ ReplayTypes'
  BY <1>1 DEF FollowsInv, ReplayTypes
<1> SUFFICES ASSUME ~disturbed
             PROVE  /\ \A q, r \in Recorders : Recording(q)' /\ Recording(r)' => q = r
                    /\ (\A q \in Recorders : ~Recording(q)') => Current(Loaded(file["floors"]))'
                    /\ \A q \in Recorders : StepInv(q)'
  BY <1>1, <1>2 DEF FollowsInv
<1>3. /\ \A q \in Recorders \ {p} : rpc[q] = "idle" /\ rpc'[q] = "idle"
      /\ rpc'[p] = "open"
  BY <1>1 DEF FollowsInv, Recording, FloorTypes
<1>4. \A c \in Categories : replay'[c] = Due(p, c)
  BY <1>1, <1>2 DEF Due, ReplayTypes
<1>5. \A c \in Categories : Agrees(CategoryOf(rop[p].state, c), Due(p, c))
  BY <1>1 DEF FollowsInv, StepInv
<1>6. Current(rop[p].state)'
  BY <1>1, <1>4, <1>5 DEF Current
<1>7. StepInv(p)'
  BY <1>3, <1>6 DEF StepInv
<1>8. \A q \in Recorders \ {p} : StepInv(q)'
  BY <1>3 DEF StepInv
<1> QED BY <1>3, <1>7, <1>8 DEF Recording

LEMMA OpenFollows ==
    ASSUME FloorTypes, FollowsInv, NEW p \in Recorders, TmpOpen(p)
    PROVE  FollowsInv'
<1>1. /\ rpc[p] = "open" /\ rpc' = [rpc EXCEPT ![p] = "write"]
      /\ file' = [file EXCEPT !["tmp"] = Torn] /\ handle' = [handle EXCEPT ![p] = "tmp"]
      /\ UNCHANGED <<rop, replay, disturbed>>
  BY DEF TmpOpen, RecordGoto
<1>2. ReplayTypes /\ ReplayTypes'
  BY <1>1 DEF FollowsInv, ReplayTypes
<1> SUFFICES ASSUME ~disturbed
             PROVE  /\ \A q, r \in Recorders : Recording(q)' /\ Recording(r)' => q = r
                    /\ (\A q \in Recorders : ~Recording(q)') => Current(Loaded(file["floors"]))'
                    /\ \A q \in Recorders : StepInv(q)'
  BY <1>1, <1>2 DEF FollowsInv
<1>3. /\ \A q \in Recorders \ {p} : rpc[q] = "idle" /\ rpc'[q] = "idle"
      /\ rpc'[p] = "write"
  BY <1>1 DEF FollowsInv, Recording, FloorTypes
<1>4. Current(rop[p].state)
  BY <1>1 DEF FollowsInv, StepInv
<1>5. file'["tmp"] = Torn /\ handle'[p] = "tmp"
  BY <1>1, <1>2 DEF FloorTypes, ReplayTypes, Names
<1>6. StepInv(p)'
  BY <1>1, <1>3, <1>4, <1>5 DEF StepInv, Current
<1>7. \A q \in Recorders \ {p} : StepInv(q)'
  BY <1>3 DEF StepInv
<1> QED BY <1>3, <1>6, <1>7 DEF Recording

\* The file of a call that is alone is the one it opened, and is torn until it is written whole.
LEMMA WriteFollows ==
    ASSUME FloorTypes, FollowsInv, NEW p \in Recorders, NEW whole \in BOOLEAN, TmpWrite(p, whole)
    PROVE  FollowsInv'
<1>1. /\ rpc[p] = "write" /\ rpc' = [rpc EXCEPT ![p] = "replace"]
      /\ whole \/ (handle[p] # "gone" /\ file[handle[p]] # Torn)
      /\ handle[p] # "gone" => file' = [file EXCEPT ![handle[p]] = IF whole THEN rop[p].state ELSE Torn]
      /\ UNCHANGED <<rop, handle, replay, disturbed>>
  BY DEF TmpWrite, RecordGoto
<1>2. ReplayTypes'
  BY <1>1 DEF FollowsInv, ReplayTypes
<1> SUFFICES ASSUME ~disturbed
             PROVE  /\ \A q, r \in Recorders : Recording(q)' /\ Recording(r)' => q = r
                    /\ (\A q \in Recorders : ~Recording(q)') => Current(Loaded(file["floors"]))'
                    /\ \A q \in Recorders : StepInv(q)'
  BY <1>1, <1>2 DEF FollowsInv
<1>3. /\ \A q \in Recorders \ {p} : rpc[q] = "idle" /\ rpc'[q] = "idle"
      /\ rpc'[p] = "replace"
  BY <1>1 DEF FollowsInv, Recording, FloorTypes
<1>4. Current(rop[p].state) /\ handle[p] = "tmp" /\ file["tmp"] = Torn
  BY <1>1 DEF FollowsInv, StepInv
<1>5. whole
  BY <1>1, <1>4
<1>6. file'["tmp"] = rop[p].state
  BY <1>1, <1>4, <1>5 DEF FloorTypes, Names
<1>7. StepInv(p)'
  BY <1>1, <1>3, <1>4, <1>6 DEF StepInv, Current
<1>8. \A q \in Recorders \ {p} : StepInv(q)'
  BY <1>3 DEF StepInv
<1> QED BY <1>3, <1>7, <1>8 DEF Recording

LEMMA ReplaceFollows ==
    ASSUME FloorTypes, FollowsInv, NEW p \in Recorders, Replace(p)
    PROVE  FollowsInv'
<1>1. /\ rpc[p] = "replace" /\ rpc' = [rpc EXCEPT ![p] = "idle"]
      /\ file["tmp"] # Absent
           => file' = [file EXCEPT !["floors"] = file["tmp"], !["tmp"] = Absent]
      /\ UNCHANGED <<replay, disturbed>>
  BY DEF Replace, RecordGoto
<1>2. handle' = [q \in Recorders |-> handle'[q]]
  <2>1. CASE file["tmp"] = Absent
    <3>1. handle' = [handle EXCEPT ![p] = "none"]
      BY <2>1 DEF Replace
    <3> QED BY <3>1 DEF FollowsInv, ReplayTypes
  <2>2. CASE file["tmp"] # Absent
    <3>1. \E f : handle' = [q \in Recorders |-> f[q]]
      <4> DEFINE f == [q \in Recorders |->
                  CASE q = p -> "none"
                    [] q # p /\ handle[q] = "tmp" -> "floors"
                    [] q # p /\ handle[q] = "floors" -> "gone"
                    [] OTHER -> handle[q]]
      <4>1. handle' = f
        BY <2>2 DEF Replace
      <4>2. f = [q \in Recorders |-> f[q]]
        OBVIOUS
      <4> HIDE DEF f
      <4> QED BY <4>1, <4>2
    <3> QED BY <3>1
  <2> QED BY <2>1, <2>2
<1>3. ReplayTypes'
  BY <1>1, <1>2 DEF FollowsInv, ReplayTypes
<1> SUFFICES ASSUME ~disturbed
             PROVE  /\ \A q, r \in Recorders : Recording(q)' /\ Recording(r)' => q = r
                    /\ (\A q \in Recorders : ~Recording(q)') => Current(Loaded(file["floors"]))'
                    /\ \A q \in Recorders : StepInv(q)'
  BY <1>1, <1>3 DEF FollowsInv
<1>4. \A q \in Recorders : rpc'[q] = "idle"
  BY <1>1 DEF FollowsInv, Recording, FloorTypes
<1>5. Current(rop[p].state) /\ file["tmp"] = rop[p].state
  BY <1>1 DEF FollowsInv, StepInv
<1>6. rop[p].state # Absent /\ rop[p].state # Torn
  BY FloorNamesAssumption DEF FloorTypes
<1>7. file'["floors"] = rop[p].state
  BY <1>1, <1>5, <1>6 DEF FloorTypes, Names
<1>8. Loaded(file'["floors"]) = rop[p].state
  BY <1>6, <1>7 DEF Loaded
<1>9. Current(Loaded(file["floors"]))'
  BY <1>1, <1>5, <1>8 DEF Current
<1> QED BY <1>4, <1>9 DEF StepInv, Recording

LEMMA FollowsStep == FloorTypes /\ FollowsInv /\ [FloorNext]_floorVars => FollowsInv'
<1> SUFFICES ASSUME FloorTypes, FollowsInv, [FloorNext]_floorVars PROVE FollowsInv'
  OBVIOUS
<1>1. ASSUME NEW p \in Recorders, RecorderKilled(p) PROVE FollowsInv'
  BY <1>1 DEF RecorderKilled, FollowsInv, ReplayTypes
<1>2. CASE UNCHANGED floorVars
  BY <1>2 DEF floorVars, FollowsInv, ReplayTypes, Recording, StepInv, Current, Due
<1> QED BY <1>1, <1>2, LoadFollows, AppendFollows, OpenFollows, WriteFollows, ReplaceFollows
        DEF FloorNext

\* When no two calls overlap and none is killed, the counters and the moves of route_decide give
\* the floor that the rule at the head of route_floor.py gives for the outcomes themselves: for
\* any numbers of losses, wins and tiers, and any thresholds the module allows.
THEOREM FloorByRule == FloorSpec => []FloorFollowsRule
<1>1. FloorTypes /\ FollowsInv => FloorFollowsRule
  <2> SUFFICES ASSUME FollowsInv, ~disturbed, \A p \in Recorders : ~Recording(p),
                      NEW c \in Categories
               PROVE  EffectiveFloor(c) = replay[c].floor
    BY DEF FloorFollowsRule
  <2>1. Agrees(CategoryOf(Loaded(file["floors"]), c), replay[c])
    BY DEF FollowsInv, Current
  <2> QED BY <2>1 DEF Agrees, EffectiveFloor
<1> QED BY <1>1, FloorTypesInit, FollowsInit, FloorTypesStep, FollowsStep, PTL DEF FloorSpec
=============================================================================
