------------------------- MODULE WorkerDispatchProofs --------------------------
(***************************************************************************)
(* For any number of requests, workers and processes that dispatch,        *)
(* recover and are killed: no two workers are told the same lease          *)
(* (WorkersNeverCollide), and a worker the registry shows busy was told of *)
(* its request (BusyWasTold).  With one dispatcher, and one process that   *)
(* recovers, a worker is handed a request only when it holds no other but  *)
(* one that the registry was never told of (NobodyDoubleBooked).           *)
(***************************************************************************)
EXTENDS WorkerDispatch, FiniteSetTheorems, TLAPS

Directories == {"absent", "inbox", "processing"} \cup Settled

CallShape(c) == {"todo", "seen", "task", "lease", "worker", "rec", "next"} \subseteq DOMAIN c

\* A caller keeps the request it goes to claim, and a step to come back to.
CallInv ==
    /\ task \in [Tasks -> [in : Directories, claims : Nat]]
    /\ told \in [Workers -> SUBSET (Tasks \X Nat)]
    /\ at = [p \in Callers |-> at[p]] /\ call = [p \in Callers |-> call[p]]
    /\ \A p \in Callers :
         /\ CallShape(call[p])
         /\ at[p] \in {"claim", "inject"} => call[p].task \in Tasks
         /\ at[p] = "append" => call[p].next \in {"beat", "recover", "release"}

\* Leases are numbered by the claims of their request.  One that a process is about to
\* type was typed by nobody and is about to be typed by nobody else.
LeaseInv ==
    /\ \A p \in Callers : at[p] = "inject" =>
         /\ call[p].lease \in Nat /\ call[p].lease <= task[call[p].task].claims
         /\ \A w \in Workers : <<call[p].task, call[p].lease>> \notin told[w]
    /\ \A p, q \in Callers : at[p] = "inject" /\ at[q] = "inject" /\ p # q =>
         <<call[p].task, call[p].lease>> # <<call[q].task, call[q].lease>>
    /\ \A w \in Workers, r \in Tasks, lease \in Nat :
         <<r, lease>> \in told[w] => lease <= task[r].claims

Inv == CallInv /\ LeaseInv /\ NoCollision

-----------------------------------------------------------------------------

LEMMA InvInit == DispatchInit => Inv
<1> SUFFICES ASSUME DispatchInit PROVE Inv
  OBVIOUS
<1>1. CallInv
  BY DEF DispatchInit, CallInv, CallShape, NoCall, Directories
<1>2. LeaseInv /\ NoCollision
  BY DEF DispatchInit, LeaseInv, NoCollision
<1> QED BY <1>1, <1>2 DEF Inv

\* A step of p that types nothing, claims nothing and does not go to do so.
Quiet(p) ==
    /\ told' = told
    /\ task' \in [Tasks -> [in : Directories, claims : Nat]]
    /\ \A r \in Tasks : task'[r].claims = task[r].claims
    /\ \E step : step \notin {"claim", "inject"} /\ at' = [at EXCEPT ![p] = step]
    /\ \E c : /\ call' = [call EXCEPT ![p] = c] /\ CallShape(c)
              /\ at'[p] = "append" => c.next \in {"beat", "recover", "release"}

LEMMA QuietKeeps ==
    ASSUME Inv, NEW p \in Callers, Quiet(p)
    PROVE  Inv'
<1> PICK step, c :
        /\ step \notin {"claim", "inject"} /\ at' = [at EXCEPT ![p] = step]
        /\ call' = [call EXCEPT ![p] = c] /\ CallShape(c)
        /\ at'[p] = "append" => c.next \in {"beat", "recover", "release"}
  BY DEF Quiet
<1>1. CallInv'
  BY DEF Inv, CallInv, Quiet
<1>2. LeaseInv'
  <2>1. \A q \in Callers : at'[q] = "inject" =>
          /\ at[q] = "inject" /\ call'[q] = call[q] /\ call[q].task \in Tasks
          /\ task'[call[q].task].claims = task[call[q].task].claims
    BY DEF Inv, CallInv, Quiet
  <2>2. /\ told' = told
        /\ \A x \in Tasks : task'[x].claims = task[x].claims
    BY DEF Quiet
  <2>3. \A q \in Callers : at'[q] = "inject" =>
          /\ call'[q].lease \in Nat
          /\ call'[q].lease <= task'[call'[q].task].claims
          /\ \A w \in Workers : <<call'[q].task, call'[q].lease>> \notin told'[w]
    BY <2>1, <2>2 DEF Inv, LeaseInv
  <2>4. \A q, y \in Callers : at'[q] = "inject" /\ at'[y] = "inject" /\ q # y =>
          <<call'[q].task, call'[q].lease>> # <<call'[y].task, call'[y].lease>>
    BY <2>1 DEF Inv, LeaseInv
  <2>5. \A w \in Workers, x \in Tasks, lease \in Nat :
          <<x, lease>> \in told'[w] => lease <= task'[x].claims
    BY <2>2 DEF Inv, LeaseInv
  <2> QED BY <2>3, <2>4, <2>5 DEF LeaseInv
<1>3. NoCollision'
  BY DEF Inv, NoCollision, Quiet
<1> QED BY <1>1, <1>2, <1>3 DEF Inv

LEMMA RecoveredKeeps ==
    ASSUME CallInv, NEW E
    PROVE  /\ Recovered(E) \in [Tasks -> [in : Directories, claims : Nat]]
           /\ \A r \in Tasks : Recovered(E)[r].claims = task[r].claims
BY DEF CallInv, Recovered, Directories, Settled

-----------------------------------------------------------------------------

LEMMA SelectKeeps ==
    ASSUME Inv, NEW d \in Loopds, NEW r \in Tasks, NEW w \in Workers, Select(d, r, w)
    PROVE  Inv'
<1>a. /\ d \in Callers /\ at' = [at EXCEPT ![d] = "claim"]
      /\ task' = task /\ told' = told
  BY DEF Select, Step, Callers
<1>b. PICK c : call' = [call EXCEPT ![d] = c] /\ CallShape(c) /\ c.task = r
  <2> DEFINE c == [call[d] EXCEPT !.todo = @ \ {r}, !.task = r, !.worker = w]
  <2>1. call' = [call EXCEPT ![d] = c]
    BY DEF Select
  <2>2. CallShape(call[d])
    BY <1>a DEF Inv, CallInv
  <2>3. CallShape(c) /\ c.task = r
    BY <2>2 DEF CallShape
  <2> QED BY <2>1, <2>3
<1>1. CallInv'
  BY <1>a, <1>b DEF Inv, CallInv
<1>2. LeaseInv'
  <2>1. \A q \in Callers : at'[q] = "inject" => at[q] = "inject" /\ call'[q] = call[q]
    BY <1>a, <1>b DEF Inv, CallInv
  <2> QED BY <1>a, <2>1 DEF Inv, LeaseInv
<1>3. NoCollision'
  BY DEF Inv, NoCollision, Select
<1> QED BY <1>1, <1>2, <1>3 DEF Inv

LEMMA ClaimKeeps ==
    ASSUME Inv, NEW d \in Loopds, NEW E, Claim(d, E)
    PROVE  Inv'
<1> DEFINE r == call[d].task
           there == Recovered(E)
<1>1. /\ d \in Callers /\ r \in Tasks /\ told' = told /\ at[d] = "claim"
      /\ there \in [Tasks -> [in : Directories, claims : Nat]]
      /\ \A x \in Tasks : there[x].claims = task[x].claims
  BY RecoveredKeeps DEF Inv, CallInv, Claim, Callers
<1>2. CASE there[r].in = "inbox"
  <2>1. /\ task' = [there EXCEPT ![r] = [in |-> "processing", claims |-> there[r].claims + 1]]
        /\ call' = [call EXCEPT ![d].lease = task'[r].claims]
        /\ at' = [at EXCEPT ![d] = "inject"]
    BY <1>2 DEF Claim, Step
  <2> HIDE DEF there
  <2>2. /\ task' \in [Tasks -> [in : Directories, claims : Nat]]
        /\ task'[r].claims = task[r].claims + 1
        /\ \A x \in Tasks : task'[x].claims >= task[x].claims
    BY <1>1, <2>1 DEF Inv, CallInv, Directories
  <2>3. /\ call'[d].task = r /\ call'[d].lease = task[r].claims + 1
        /\ CallShape(call'[d]) /\ call' = [p \in Callers |-> call'[p]]
        /\ \A p \in Callers \ {d} : call'[p] = call[p]
    <3> DEFINE c == [call[d] EXCEPT !.lease = task'[r].claims]
    <3>1. call' = [call EXCEPT ![d] = c]
      BY <2>1
    <3>2. CallShape(call[d]) /\ call = [p \in Callers |-> call[p]]
      BY <1>1 DEF Inv, CallInv
    <3>3. CallShape(c) /\ c.task = r /\ c.lease = task[r].claims + 1
      BY <2>2, <3>2 DEF CallShape
    <3> QED BY <1>1, <3>1, <3>2, <3>3
  <2>4. CallInv'
    BY <1>1, <2>1, <2>2, <2>3 DEF Inv, CallInv
  <2>5. \A p \in Callers \ {d} : at'[p] = "inject" =>
          /\ at[p] = "inject" /\ call[p].task \in Tasks
          /\ call[p].lease \in Nat /\ call[p].lease <= task[call[p].task].claims
    BY <1>1, <2>1 DEF Inv, CallInv, LeaseInv
  <2>6. LeaseInv'
    <3>1. \A w \in Workers, x \in Tasks, lease \in Nat :
            <<x, lease>> \in told[w] => lease <= task[x].claims /\ lease <= task'[x].claims
      <4> TAKE w \in Workers, x \in Tasks, lease \in Nat
      <4>1. task[x].claims \in Nat /\ task'[x].claims \in Nat
        BY <2>2 DEF Inv, CallInv
      <4>2. task'[x].claims >= task[x].claims
        BY <2>2
      <4>3. <<x, lease>> \in told[w] => lease <= task[x].claims
        BY DEF Inv, LeaseInv
      <4> QED BY <4>1, <4>2, <4>3
    <3>2. task[r].claims \in Nat /\ task'[r].claims = task[r].claims + 1
      BY <1>1, <2>2 DEF Inv, CallInv
    <3>3. \A w \in Workers : <<r, task[r].claims + 1>> \notin told[w]
      BY <1>1, <3>1, <3>2
    <3>4. \A p \in Callers \ {d} : at'[p] = "inject" =>
            /\ call'[p] = call[p] /\ call[p].lease \in Nat
            /\ call[p].lease <= task[call[p].task].claims
            /\ call[p].lease <= task'[call[p].task].claims
            /\ \A w \in Workers : <<call[p].task, call[p].lease>> \notin told[w]
            /\ <<call[p].task, call[p].lease>> # <<r, task[r].claims + 1>>
      <4> TAKE p \in Callers \ {d}
      <4> HAVE at'[p] = "inject"
      <4>1. call[p].task \in Tasks /\ call[p].lease \in Nat
            /\ call[p].lease <= task[call[p].task].claims
        BY <2>5
      <4>2. task[call[p].task].claims \in Nat /\ task'[call[p].task].claims \in Nat
            /\ task'[call[p].task].claims >= task[call[p].task].claims
        BY <2>2, <4>1 DEF Inv, CallInv
      <4>3. \A w \in Workers : <<call[p].task, call[p].lease>> \notin told[w]
        BY <2>5 DEF Inv, LeaseInv
      <4>4. call[p].task = r => call[p].lease # task[r].claims + 1
        BY <3>2, <4>1
      <4> QED BY <2>3, <4>1, <4>2, <4>3, <4>4
    <3>5. \A p, q \in Callers \ {d} : at'[p] = "inject" /\ at'[q] = "inject" /\ p # q =>
            <<call[p].task, call[p].lease>> # <<call[q].task, call[q].lease>>
      BY <2>5 DEF Inv, LeaseInv
    <3>6. \A p \in Callers : at'[p] = "inject" =>
            /\ call'[p].lease \in Nat /\ call'[p].lease <= task'[call'[p].task].claims
            /\ \A w \in Workers : <<call'[p].task, call'[p].lease>> \notin told[w]
      BY <2>3, <3>2, <3>3, <3>4
    <3>7. \A p, q \in Callers : at'[p] = "inject" /\ at'[q] = "inject" /\ p # q =>
            <<call'[p].task, call'[p].lease>> # <<call'[q].task, call'[q].lease>>
      BY <2>3, <3>4, <3>5
    <3> QED BY <1>1, <3>1, <3>6, <3>7 DEF LeaseInv
  <2>7. NoCollision'
    BY <1>1 DEF Inv, NoCollision
  <2> QED BY <2>4, <2>6, <2>7 DEF Inv
<1>3. CASE there[r].in # "inbox"
  <2>1. task' = there /\ call' = call /\ at' = [at EXCEPT ![d] = "dispatch"]
    BY <1>3 DEF Claim, Step
  <2>2. call' = [call EXCEPT ![d] = call[d]] /\ CallShape(call[d])
    BY <1>1, <2>1 DEF Inv, CallInv
  <2>3. Quiet(d)
    BY <1>1, <2>1, <2>2 DEF Quiet, Inv, CallInv
  <2> QED BY <1>1, <2>3, QuietKeeps
<1> QED BY <1>2, <1>3

LEMMA InjectKeeps ==
    ASSUME Inv, NEW d \in Loopds, Inject(d) \/ EnterFails(d)
    PROVE  Inv'
<1> DEFINE x == <<call[d].task, call[d].lease>>
<1> PICK step \in {"book", "dispatch"} : at' = [at EXCEPT ![d] = step]
  BY DEF Inject, EnterFails, Step
<1>1. /\ d \in Callers /\ at[d] = "inject" /\ at' = [at EXCEPT ![d] = step]
      /\ call' = call /\ task' = task
      /\ told' = [told EXCEPT ![call[d].worker] = @ \cup {x}]
  BY DEF Inject, EnterFails, Tell, Callers
<1>2. /\ x \in Tasks \X Nat /\ call[d].task \in Tasks /\ call[d].lease \in Nat
      /\ call[d].lease <= task[call[d].task].claims
      /\ \A w \in Workers : x \notin told[w]
  BY <1>1 DEF Inv, CallInv, LeaseInv
<1>3. \A w \in Workers : told'[w] = told[w] \cup {x} \/ told'[w] = told[w]
  BY <1>1 DEF Inv, CallInv
<1>4. told' \in [Workers -> SUBSET (Tasks \X Nat)]
  BY <1>1, <1>2 DEF Inv, CallInv
<1>5. CallInv'
  BY <1>1, <1>4 DEF Inv, CallInv
<1>6. LeaseInv'
  <2>1. \A p \in Callers : at'[p] = "inject" => at[p] = "inject" /\ p # d
    BY <1>1 DEF Inv, CallInv
  <2>2. \A p \in Callers : at'[p] = "inject" =>
          \A w \in Workers : <<call[p].task, call[p].lease>> \notin told'[w]
    BY <1>1, <1>3, <2>1 DEF Inv, LeaseInv
  <2>3. \A w \in Workers, r \in Tasks, lease \in Nat :
          <<r, lease>> \in told'[w] => lease <= task[r].claims
    BY <1>2, <1>3 DEF Inv, LeaseInv
  <2> QED BY <1>1, <2>1, <2>2, <2>3 DEF Inv, LeaseInv
<1>7. NoCollision'
  BY <1>1, <1>2, <1>3 DEF Inv, CallInv, NoCollision
<1> QED BY <1>5, <1>6, <1>7 DEF Inv

-----------------------------------------------------------------------------
(* The steps that are quiet. *)

\* p goes on at step with the local variables c; the queue and the panes are left alone.
Moves(p, step, c) ==
    /\ task' = task /\ told' = told
    /\ step \notin {"claim", "inject"} /\ at' = [at EXCEPT ![p] = step]
    /\ CallShape(c) /\ call' = [call EXCEPT ![p] = c]
    /\ step = "append" => c.next \in {"beat", "recover", "release"}

LEMMA MoveKeeps ==
    ASSUME Inv, NEW p \in Callers, NEW step, NEW c, Moves(p, step, c)
    PROVE  Inv'
<1>1. Quiet(p)
  BY DEF Moves, Quiet, Inv, CallInv
<1> QED BY <1>1, QuietKeeps

\* One that at most moves requests between the directories.
LEMMA StillKeeps ==
    ASSUME Inv, UNCHANGED <<told, at, call>>,
           task' \in [Tasks -> [in : Directories, claims : Nat]],
           \A r \in Tasks : task'[r].claims = task[r].claims
    PROVE  Inv'
BY DEF Inv, CallInv, LeaseInv, NoCollision

LEMMA NoCallShape == CallShape(NoCall)
BY DEF CallShape, NoCall

LEMMA CallerShape == ASSUME Inv, NEW p \in Callers PROVE CallShape(call[p])
BY DEF Inv, CallInv

LEMMA AppendKeeps == ASSUME Inv, NEW p \in Callers, AppendRecord(p) PROVE Inv'
<1> DEFINE c == [call[p] EXCEPT !.rec = NoRecord]
<1>1. call[p].next \in {"beat", "recover", "release"} /\ CallShape(c)
  BY CallerShape DEF AppendRecord, Inv, CallInv, CallShape
<1>2. Moves(p, call[p].next, c)
  BY <1>1 DEF Moves, AppendRecord, Step
<1> QED BY <1>2, MoveKeeps

LEMMA BeatKeeps == ASSUME Inv, NEW p \in Callers, Beat(p) PROVE Inv'
<1> DEFINE c == IF p \in Workers THEN NoCall ELSE [NoCall EXCEPT !.todo = call[p].todo]
           step == IF p \in Workers THEN "idle" ELSE "dispatch"
<1>1. CallShape(c)
  BY DEF CallShape, NoCall
<1>2. Moves(p, step, c)
  BY <1>1 DEF Moves, Beat, Step
<1> QED BY <1>2, MoveKeeps

LEMMA KillKeeps == ASSUME Inv, NEW p \in Callers, Kill(p) PROVE Inv'
<1>1. Moves(p, "idle", NoCall)
  BY NoCallShape DEF Moves, Kill, Step
<1> QED BY <1>1, MoveKeeps

LEMMA DispatchKeeps ==
    ASSUME Inv, NEW d \in Loopds,
           \/ DispatchBegin(d) \/ DispatchEnd(d) \/ InjectFails(d) \/ Book(d)
           \/ \E r \in Tasks : DispatchSkip(d, r)
    PROVE  Inv'
<1>1. d \in Callers /\ CallShape(call[d])
  BY CallerShape DEF Callers
<1>2. CASE DispatchBegin(d)
  <2> DEFINE c == [call[d] EXCEPT !.todo = In("inbox")]
  <2>1. CallShape(c)
    BY <1>1 DEF CallShape
  <2>2. Moves(d, "dispatch", c)
    BY <1>2, <2>1 DEF Moves, DispatchBegin, Step
  <2> QED BY <1>1, <2>2, MoveKeeps
<1>3. CASE DispatchEnd(d)
  <2>1. Moves(d, "idle", NoCall)
    BY <1>3, NoCallShape DEF Moves, DispatchEnd, Step
  <2> QED BY <1>1, <2>1, MoveKeeps
<1>4. CASE InjectFails(d)
  <2>1. call' = [call EXCEPT ![d] = call[d]]
    BY <1>1, <1>4 DEF InjectFails, Inv, CallInv
  <2>2. Moves(d, "dispatch", call[d])
    BY <1>1, <1>4, <2>1 DEF Moves, InjectFails, Step
  <2> QED BY <1>1, <2>2, MoveKeeps
<1>5. CASE Book(d)
  <2> DEFINE w == call[d].worker
             c == [call[d] EXCEPT !.worker = w, !.next = "beat",
                     !.rec = [state |-> "assigned", cur |-> Cleared(w, "assigned", call[d].task)]]
  <2>1. CallShape(c) /\ c.next = "beat"
    BY <1>1 DEF CallShape
  <2>2. Moves(d, "append", c)
    BY <1>5, <2>1 DEF Moves, Book, FoldRecord, Step
  <2> QED BY <1>1, <2>2, MoveKeeps
<1>6. ASSUME NEW r \in Tasks, DispatchSkip(d, r) PROVE Inv'
  <2> DEFINE c == [call[d] EXCEPT !.todo = @ \ {r}]
  <2>1. CallShape(c)
    BY <1>1 DEF CallShape
  <2>2. at' = [at EXCEPT ![d] = "dispatch"]
    BY <1>1, <1>6 DEF DispatchSkip, Inv, CallInv
  <2>3. Moves(d, "dispatch", c)
    BY <1>6, <2>1, <2>2 DEF Moves, DispatchSkip
  <2> QED BY <1>1, <2>3, MoveKeeps
<1> QED BY <1>2, <1>3, <1>4, <1>5, <1>6

LEMMA RecoverKeeps ==
    ASSUME Inv, NEW d \in Loopds,
           RecoverBegin(d) \/ (\E w \in Workers : Judge(d, w)) \/ (\E E : RecoverEnd(d, E))
    PROVE  Inv'
<1>1. d \in Callers /\ CallShape(call[d])
  BY CallerShape DEF Callers
<1>2. CASE RecoverBegin(d)
  <2> DEFINE c == [call[d] EXCEPT !.todo = {w \in Workers : registry[w].state \in Busy},
                                  !.seen = registry]
  <2>1. CallShape(c)
    BY <1>1 DEF CallShape
  <2>2. Moves(d, "recover", c)
    BY <1>2, <2>1 DEF Moves, RecoverBegin, Step
  <2> QED BY <1>1, <2>2, MoveKeeps
<1>3. ASSUME NEW w \in Workers, Judge(d, w) PROVE Inv'
  <2>1. CASE Over(d, w) \/ w \in beatOld
    <3> DEFINE state == IF Over(d, w) THEN "idle" ELSE "stale"
               c == [call[d] EXCEPT !.todo = @ \ {w}, !.worker = w, !.next = "recover",
                       !.rec = [state |-> state, cur |-> Cleared(w, state, None)]]
    <3>1. CallShape(c) /\ c.next = "recover"
      BY <1>1 DEF CallShape
    <3>2. Moves(d, "append", c)
      BY <1>3, <2>1, <3>1 DEF Moves, Judge, Step
    <3> QED BY <1>1, <3>2, MoveKeeps
  <2>2. CASE ~(Over(d, w) \/ w \in beatOld)
    <3> DEFINE c == [call[d] EXCEPT !.todo = @ \ {w}]
    <3>1. CallShape(c)
      BY <1>1 DEF CallShape
    <3>2. at' = [at EXCEPT ![d] = "recover"]
      BY <1>1, <1>3, <2>2 DEF Judge, Listed, Inv, CallInv
    <3>3. Moves(d, "recover", c)
      BY <1>3, <2>2, <3>1, <3>2 DEF Moves, Judge
    <3> QED BY <1>1, <3>3, MoveKeeps
  <2> QED BY <2>1, <2>2
<1>4. ASSUME NEW E, RecoverEnd(d, E) PROVE Inv'
  <2>1. /\ told' = told /\ task' = Recovered(E)
        /\ at' = [at EXCEPT ![d] = "idle"] /\ call' = [call EXCEPT ![d] = NoCall]
    BY <1>4 DEF RecoverEnd, Step
  <2>2. Quiet(d)
    BY <1>1, <2>1, NoCallShape, RecoveredKeeps DEF Quiet, Inv, CallInv
  <2> QED BY <1>1, <2>2, QuietKeeps
<1> QED BY <1>2, <1>3, <1>4

-----------------------------------------------------------------------------
(* The workers *)

LEMMA LaunchKeeps ==
    ASSUME Inv, NEW w \in Workers, Launch(w) \/ LaunchIdle(w)
    PROVE  Inv'
<1>1. w \in Callers /\ CallShape(call[w])
  BY CallerShape DEF Callers
<1>2. CASE Launch(w)
  <2>1. call' = [call EXCEPT ![w] = call[w]]
    BY <1>1, <1>2 DEF Launch, Inv, CallInv
  <2>2. Moves(w, "launched", call[w])
    BY <1>1, <1>2, <2>1 DEF Moves, Launch
  <2> QED BY <1>1, <2>2, MoveKeeps
<1>3. CASE LaunchIdle(w)
  <2> DEFINE c == [call[w] EXCEPT !.worker = w, !.next = "beat",
                     !.rec = [state |-> "idle", cur |-> Cleared(w, "idle", None)]]
  <2>1. CallShape(c) /\ c.next = "beat"
    BY <1>1 DEF CallShape
  <2>2. Moves(w, "append", c)
    BY <1>3, <2>1 DEF Moves, LaunchIdle, FoldRecord, Step
  <2> QED BY <1>1, <2>2, MoveKeeps
<1> QED BY <1>2, <1>3

LEMMA FinishKeeps ==
    ASSUME Inv, NEW w \in Workers, NEW x \in told[w],
           Settle(w, x[1], x[2]) \/ FailTransient(w, x[1], x[2])
    PROVE  Inv'
<1> DEFINE r == x[1]
<1>1. w \in Callers /\ CallShape(call[w]) /\ r \in Tasks
  <2>1. told[w] \subseteq Tasks \X Nat
    BY DEF Inv, CallInv
  <2>2. x \in Tasks \X Nat
    BY <2>1
  <2>3. w \in Callers
    BY DEF Callers
  <2> QED BY <2>2, <2>3, CallerShape
<1>2. ASSUME NEW d \in Directories, task' = [task EXCEPT ![r].in = d]
      PROVE  /\ task' \in [Tasks -> [in : Directories, claims : Nat]]
             /\ \A y \in Tasks : task'[y].claims = task[y].claims
  BY <1>1, <1>2 DEF Inv, CallInv
<1>3. {"inbox", "dead"} \cup Settled \subseteq Directories
  BY DEF Directories, Settled
<1>4. CASE Settle(w, x[1], x[2])
  BY <1>2, <1>3, <1>4, StillKeeps DEF Settle
<1>5. CASE FailTransient(w, x[1], x[2]) /\ task[r].claims < ClaimLimit
  <2> DEFINE c == [call[w] EXCEPT !.task = r]
  <2>1. CallShape(c)
    BY <1>1 DEF CallShape
  <2>2. /\ task' = [task EXCEPT ![r].in = "inbox"] /\ told' = told
        /\ at' = [at EXCEPT ![w] = "requeued"] /\ call' = [call EXCEPT ![w] = c]
    BY <1>5 DEF FailTransient, Step
  <2>3. Quiet(w)
    BY <1>1, <1>2, <1>3, <2>1, <2>2 DEF Quiet, Inv, CallInv
  <2> QED BY <1>1, <2>3, QuietKeeps
<1>6. CASE FailTransient(w, x[1], x[2]) /\ ~(task[r].claims < ClaimLimit)
  BY <1>2, <1>3, <1>6, StillKeeps DEF FailTransient
<1> QED BY <1>4, <1>5, <1>6

LEMMA ReleaseKeeps ==
    ASSUME Inv, NEW w \in Workers,
           ReleaseList(w) \/ ReleaseEnd(w) \/ \E x \in Workers : ReleaseOne(w, x)
    PROVE  Inv'
<1>1. w \in Callers /\ CallShape(call[w])
  BY CallerShape DEF Callers
<1>2. CASE ReleaseList(w)
  <2> DEFINE c == [call[w] EXCEPT !.todo = {x \in Workers : registry[x].cur = call[w].task}]
  <2>1. CallShape(c)
    BY <1>1 DEF CallShape
  <2>2. Moves(w, "release", c)
    BY <1>2, <2>1 DEF Moves, ReleaseList, Step
  <2> QED BY <1>1, <2>2, MoveKeeps
<1>3. CASE ReleaseEnd(w)
  <2>1. Moves(w, "idle", NoCall)
    BY <1>3, NoCallShape DEF Moves, ReleaseEnd, Step
  <2> QED BY <1>1, <2>1, MoveKeeps
<1>4. ASSUME NEW x \in Workers, ReleaseOne(w, x) PROVE Inv'
  <2> DEFINE c == [call[w] EXCEPT !.todo = @ \ {x}, !.worker = x, !.next = "release",
                     !.rec = [state |-> "idle", cur |-> None]]
  <2>1. CallShape(c) /\ c.next = "release"
    BY <1>1 DEF CallShape
  <2>2. Moves(w, "append", c)
    BY <1>4, <2>1, ZenonT(30) DEF Moves, ReleaseOne, Step
  <2> QED BY <1>1, <2>2, MoveKeeps
<1> QED BY <1>2, <1>3, <1>4

LEMMA RestKeeps ==
    ASSUME Inv, UNCHANGED <<task, told, at, call>>
    PROVE  Inv'
BY StillKeeps DEF Inv, CallInv

-----------------------------------------------------------------------------

LEMMA InvStep == Inv /\ [DispatchNext]_dispatchVars => Inv'
<1> SUFFICES ASSUME Inv, [DispatchNext]_dispatchVars PROVE Inv'
  OBVIOUS
<1>1. ASSUME NEW d \in Loopds, Loopd(d) PROVE Inv'
  BY <1>1, DispatchKeeps, InjectKeeps, SelectKeeps, ClaimKeeps, RecoverKeeps DEF Loopd
<1>2. ASSUME NEW w \in Workers, Worker(w) PROVE Inv'
  <2>1. CASE WorkerBeats(w) \/ BeatAges(w)
    BY <2>1, RestKeeps DEF WorkerBeats, BeatAges
  <2> QED BY <1>2, <2>1, LaunchKeeps, FinishKeeps, ReleaseKeeps DEF Worker
<1>3. ASSUME NEW p \in Callers, AppendRecord(p) \/ Beat(p) \/ Kill(p) PROVE Inv'
  BY <1>3, AppendKeeps, BeatKeeps, KillKeeps
<1>4. CASE UNCHANGED dispatchVars
  BY <1>4, RestKeeps DEF dispatchVars
<1> QED BY <1>1, <1>2, <1>3, <1>4 DEF DispatchNext

\* No lease is typed into the panes of two workers: the claim before the injection keeps
\* them apart, however many processes dispatch, recover, give up or are killed at once.
THEOREM WorkersNeverCollide == DispatchSpec => []NoCollision
<1>1. Inv => NoCollision
  BY DEF Inv
<1> QED BY <1>1, InvInit, InvStep, PTL DEF DispatchSpec

-----------------------------------------------------------------------------
(* The records are true: what a caller is about to append was told before. *)

TrueRecord(w, rec, t) ==
    rec.state \in Busy => \E lease \in 1..ClaimLimit : <<rec.cur, lease>> \in t[w]

\* A caller that places a request, or that is about to append a record.
TrueCall(step, c, t) ==
    /\ step \in {"claim", "inject", "book", "append"} => c.worker \in Workers
    /\ step \in {"inject", "book"} => c.lease \in 1..ClaimLimit
    /\ step = "book" => <<c.task, c.lease>> \in t[c.worker]
    /\ step = "append" => TrueRecord(c.worker, c.rec, t)

\* A request in the inbox has a claim left.
ClaimsInv ==
    \A r \in Tasks : /\ task[r].claims <= ClaimLimit
                     /\ task[r].in = "inbox" => task[r].claims < ClaimLimit

ToldInv ==
    /\ ClaimsInv
    /\ registry = [w \in Workers |-> registry[w]]
    /\ \A p \in Callers : TrueCall(at[p], call[p], told)
    /\ \A w \in Workers : TrueRecord(w, registry[w], told)

LEMMA ToldInit == DispatchInit => ToldInv
<1> SUFFICES ASSUME DispatchInit PROVE ToldInv
  OBVIOUS
<1>1. ClaimsInv
  BY DispatchNamesAssumption DEF DispatchInit, ClaimsInv
<1>2. \A w \in Workers : registry[w].state \notin Busy
  BY DEF DispatchInit, NoRecord, Busy
<1> QED BY <1>1, <1>2 DEF DispatchInit, ToldInv, TrueCall, TrueRecord

\* What was told stays told: only what is new has to be shown true.
LEMMA TellKeeps ==
    ASSUME ToldInv, ClaimsInv', registry' = [w \in Workers |-> registry'[w]],
           \A w \in Workers : told[w] \subseteq told'[w],
           \A p \in Callers : \/ at'[p] = at[p] /\ call'[p] = call[p]
                              \/ TrueCall(at'[p], call'[p], told'),
           \A w \in Workers : \/ registry'[w] = registry[w]
                              \/ TrueRecord(w, registry'[w], told')
    PROVE  ToldInv'
<1>1. \A w \in Workers : \A rec : TrueRecord(w, rec, told) => TrueRecord(w, rec, told')
  BY DEF TrueRecord
<1>2. \A step, c : TrueCall(step, c, told) => TrueCall(step, c, told')
  BY <1>1 DEF TrueCall
<1>3. \A p \in Callers : TrueCall(at'[p], call'[p], told')
  BY <1>2 DEF ToldInv
<1>4. \A w \in Workers : TrueRecord(w, registry'[w], told')
  BY <1>1 DEF ToldInv
<1> QED BY <1>3, <1>4 DEF ToldInv

\* A step of p that tells nothing and writes no record.
LEMMA GoKeeps ==
    ASSUME Inv, ToldInv, ClaimsInv', NEW p \in Callers, NEW step, NEW c,
           UNCHANGED <<registry, told>>,
           at' = [at EXCEPT ![p] = step], call' = [call EXCEPT ![p] = c],
           TrueCall(step, c, told)
    PROVE  ToldInv'
<1>1. \A q \in Callers : \/ at'[q] = at[q] /\ call'[q] = call[q]
                         \/ TrueCall(at'[q], call'[q], told')
  <2>1. at'[p] = step /\ call'[p] = c
    BY DEF Inv, CallInv
  <2>2. \A q \in Callers \ {p} : at'[q] = at[q] /\ call'[q] = call[q]
    BY DEF Inv, CallInv
  <2> QED BY <2>1, <2>2
<1> QED BY <1>1, TellKeeps DEF ToldInv

LEMMA SilentKeeps ==
    ASSUME Inv, ToldInv, ClaimsInv', NEW p \in Callers, NEW step, NEW c,
           UNCHANGED <<registry, told>>,
           at' = [at EXCEPT ![p] = step], call' = [call EXCEPT ![p] = c],
           step \notin {"claim", "inject", "book", "append"}
    PROVE  ToldInv'
<1>1. TrueCall(step, c, told)
  BY DEF TrueCall
<1> QED BY <1>1, GoKeeps

LEMMA ClaimsStay == ASSUME ClaimsInv, task' = task PROVE ClaimsInv'
BY DEF ClaimsInv

LEMMA ClaimsRecovered ==
    ASSUME Inv, ClaimsInv, NEW E
    PROVE  \A r \in Tasks : /\ Recovered(E)[r].claims <= ClaimLimit
                            /\ Recovered(E)[r].in = "inbox" => Recovered(E)[r].claims < ClaimLimit
BY DispatchNamesAssumption DEF Inv, CallInv, ClaimsInv, Recovered

-----------------------------------------------------------------------------

LEMMA SelectTold ==
    ASSUME Inv, ToldInv, NEW d \in Loopds, NEW r \in Tasks, NEW w \in Workers, Select(d, r, w)
    PROVE  ToldInv'
<1> DEFINE c == [call[d] EXCEPT !.todo = @ \ {r}, !.task = r, !.worker = w]
<1>1. d \in Callers /\ c.worker = w
  BY CallerShape DEF CallShape, Callers
<1>2. TrueCall("claim", c, told)
  BY <1>1 DEF TrueCall
<1>3. /\ at' = [at EXCEPT ![d] = "claim"] /\ call' = [call EXCEPT ![d] = c]
      /\ task' = task /\ UNCHANGED <<registry, told>>
  BY DEF Select, Step
<1> HIDE DEF c
<1> QED BY <1>1, <1>2, <1>3, GoKeeps, ClaimsStay DEF ToldInv

LEMMA ClaimTold ==
    ASSUME Inv, ToldInv, NEW d \in Loopds, NEW E, Claim(d, E)
    PROVE  ToldInv'
<1> DEFINE r == call[d].task
           there == Recovered(E)
<1>1. /\ d \in Callers /\ r \in Tasks /\ CallShape(call[d]) /\ call[d].worker \in Workers
      /\ told' = told /\ registry' = registry
      /\ there \in [Tasks -> [in : Directories, claims : Nat]]
  BY RecoveredKeeps, CallerShape DEF Inv, CallInv, Claim, Callers, ToldInv, TrueCall
<1>2. CASE there[r].in = "inbox"
  <2>1. /\ task' = [there EXCEPT ![r] = [in |-> "processing", claims |-> there[r].claims + 1]]
        /\ call' = [call EXCEPT ![d].lease = task'[r].claims]
        /\ at' = [at EXCEPT ![d] = "inject"]
    BY <1>2 DEF Claim, Step
  <2>2. there[r].claims < ClaimLimit /\ ClaimsInv
    BY <1>1, <1>2, ClaimsRecovered DEF ToldInv
  <2>3. \A x \in Tasks : /\ there[x].claims <= ClaimLimit
                         /\ there[x].in = "inbox" => there[x].claims < ClaimLimit
    BY <2>2, ClaimsRecovered
  <2> HIDE DEF there
  <2>4. /\ task'[r] = [in |-> "processing", claims |-> there[r].claims + 1]
        /\ \A x \in Tasks \ {r} : task'[x] = there[x]
    BY <1>1, <2>1
  <2>5. there[r].claims + 1 \in 1..ClaimLimit
    BY <1>1, <2>2, DispatchNamesAssumption
  <2>6. ClaimsInv'
    BY <2>3, <2>4, <2>5 DEF ClaimsInv
  <2> DEFINE c == [call[d] EXCEPT !.lease = task'[r].claims]
  <2>7. call' = [call EXCEPT ![d] = c] /\ c.lease \in 1..ClaimLimit /\ c.worker \in Workers
    BY <1>1, <2>1, <2>4, <2>5 DEF CallShape
  <2> HIDE DEF c
  <2>8. TrueCall("inject", c, told)
    BY <2>7 DEF TrueCall
  <2> QED BY <1>1, <2>1, <2>6, <2>7, <2>8, GoKeeps
<1>3. CASE there[r].in # "inbox"
  <2>1. task' = there /\ call' = [call EXCEPT ![d] = call[d]] /\ at' = [at EXCEPT ![d] = "dispatch"]
    BY <1>3 DEF Claim, Step, Inv, CallInv
  <2>2. ClaimsInv'
    BY <2>1, ClaimsRecovered DEF ToldInv, ClaimsInv
  <2> QED BY <1>1, <2>1, <2>2, SilentKeeps
<1> QED BY <1>2, <1>3

LEMMA InjectTold ==
    ASSUME Inv, ToldInv, NEW d \in Loopds, Inject(d) \/ EnterFails(d)
    PROVE  ToldInv'
<1> DEFINE x == <<call[d].task, call[d].lease>>
<1> PICK step \in {"book", "dispatch"} : at' = [at EXCEPT ![d] = step]
  BY DEF Inject, EnterFails, Step
<1>1. /\ d \in Callers /\ at[d] = "inject" /\ at' = [at EXCEPT ![d] = step]
      /\ call' = call /\ task' = task /\ registry' = registry
      /\ told' = [told EXCEPT ![call[d].worker] = @ \cup {x}]
      /\ call[d].worker \in Workers /\ call[d].lease \in 1..ClaimLimit
  BY DEF Inject, EnterFails, Tell, Callers, ToldInv, TrueCall
<1>2. x \in told'[call[d].worker] /\ \A w \in Workers : told[w] \subseteq told'[w]
  BY <1>1 DEF Inv, CallInv
<1>3. TrueCall(at'[d], call'[d], told')
  <2>1. at'[d] = step /\ call'[d] = call[d]
    BY <1>1 DEF Inv, CallInv
  <2> QED BY <1>1, <1>2, <2>1 DEF TrueCall
<1>4. \A p \in Callers \ {d} : at'[p] = at[p] /\ call'[p] = call[p]
  BY <1>1 DEF Inv, CallInv
<1>5. registry' = [w \in Workers |-> registry'[w]] /\ ClaimsInv'
  BY <1>1, ClaimsStay DEF ToldInv
<1> QED BY <1>1, <1>2, <1>3, <1>4, <1>5, TellKeeps

LEMMA BookTold ==
    ASSUME Inv, ToldInv, NEW d \in Loopds, Book(d)
    PROVE  ToldInv'
<1> DEFINE w == call[d].worker
           rec == [state |-> "assigned", cur |-> Cleared(w, "assigned", call[d].task)]
           c == [call[d] EXCEPT !.worker = w, !.next = "beat", !.rec = rec]
<1>1. /\ d \in Callers /\ w \in Workers /\ call[d].lease \in 1..ClaimLimit
      /\ <<call[d].task, call[d].lease>> \in told[w]
  BY DEF Book, Callers, ToldInv, TrueCall
<1>2. rec.cur = call[d].task
  BY DEF Cleared, Busy
<1>3. c.worker = w /\ c.rec = rec
  BY <1>1, CallerShape DEF CallShape
<1>4. TrueRecord(w, rec, told)
  BY <1>1, <1>2 DEF TrueRecord
<1>5. TrueCall("append", c, told)
  BY <1>1, <1>3, <1>4 DEF TrueCall
<1>6. /\ at' = [at EXCEPT ![d] = "append"] /\ call' = [call EXCEPT ![d] = c]
      /\ task' = task /\ UNCHANGED <<registry, told>>
  BY DEF Book, FoldRecord, Step
<1> HIDE DEF c
<1> QED BY <1>1, <1>5, <1>6, GoKeeps, ClaimsStay DEF ToldInv

\* A record whose state is not busy claims nothing.
LEMMA IdleTold ==
    ASSUME Inv, ToldInv, NEW p \in Callers, NEW c, task' = task, UNCHANGED <<registry, told>>,
           at' = [at EXCEPT ![p] = "append"], call' = [call EXCEPT ![p] = c],
           c.worker \in Workers, c.rec.state \notin Busy
    PROVE  ToldInv'
<1>1. TrueCall("append", c, told)
  BY DEF TrueCall, TrueRecord
<1> QED BY <1>1, GoKeeps, ClaimsStay DEF ToldInv

LEMMA AppendTold == ASSUME Inv, ToldInv, NEW p \in Callers, AppendRecord(p) PROVE ToldInv'
<1> DEFINE w == call[p].worker
           c == [call[p] EXCEPT !.rec = NoRecord]
<1>1. /\ w \in Workers /\ TrueRecord(w, call[p].rec, told) /\ told' = told /\ task' = task
      /\ registry' = [registry EXCEPT ![w] = call[p].rec]
      /\ call[p].next \notin {"claim", "inject", "book", "append"}
      /\ at' = [at EXCEPT ![p] = call[p].next] /\ call' = [call EXCEPT ![p] = c]
  BY DEF AppendRecord, Step, ToldInv, TrueCall, Inv, CallInv
<1>2. /\ registry' = [v \in Workers |-> registry'[v]] /\ registry'[w] = call[p].rec
      /\ \A v \in Workers \ {w} : registry'[v] = registry[v]
  BY <1>1 DEF ToldInv
<1>3. \A q \in Callers : \/ at'[q] = at[q] /\ call'[q] = call[q]
                         \/ TrueCall(at'[q], call'[q], told')
  <2>1. at'[p] = call[p].next
    BY <1>1 DEF Inv, CallInv
  <2>2. TrueCall(at'[p], call'[p], told')
    BY <1>1, <2>1 DEF TrueCall
  <2>3. \A q \in Callers \ {p} : at'[q] = at[q] /\ call'[q] = call[q]
    BY <1>1 DEF Inv, CallInv
  <2> QED BY <2>2, <2>3
<1>4. ClaimsInv'
  BY <1>1, ClaimsStay DEF ToldInv
<1> QED BY <1>1, <1>2, <1>3, <1>4, TellKeeps

LEMMA LaunchTold ==
    ASSUME Inv, ToldInv, NEW w \in Workers, Launch(w) \/ LaunchIdle(w)
    PROVE  ToldInv'
<1>1. w \in Callers /\ CallShape(call[w])
  BY CallerShape DEF Callers
<1>2. CASE Launch(w)
  <2>1. /\ told' = told /\ task' = task /\ call' = call /\ at' = [at EXCEPT ![w] = "launched"]
        /\ registry' = [registry EXCEPT ![w] = [NoRecord EXCEPT !.state = "booting"]]
    BY <1>2 DEF Launch
  <2>2. /\ registry' = [v \in Workers |-> registry'[v]] /\ registry'[w].state = "booting"
        /\ \A v \in Workers \ {w} : registry'[v] = registry[v]
    BY <2>1 DEF ToldInv, NoRecord
  <2>3. TrueRecord(w, registry'[w], told')
    BY <2>2 DEF TrueRecord, Busy
  <2>4. TrueCall(at'[w], call'[w], told')
    BY <1>1, <2>1 DEF Inv, CallInv, TrueCall
  <2>5. \A q \in Callers \ {w} : at'[q] = at[q] /\ call'[q] = call[q]
    BY <2>1 DEF Inv, CallInv
  <2>6. ClaimsInv'
    BY <2>1, ClaimsStay DEF ToldInv
  <2> QED BY <2>1, <2>2, <2>3, <2>4, <2>5, <2>6, TellKeeps
<1>3. CASE LaunchIdle(w)
  <2> DEFINE c == [call[w] EXCEPT !.worker = w, !.next = "beat",
                     !.rec = [state |-> "idle", cur |-> Cleared(w, "idle", None)]]
  <2>1. c.worker = w /\ c.rec.state \notin Busy
    BY <1>1 DEF CallShape, Busy
  <2>2. /\ at' = [at EXCEPT ![w] = "append"] /\ call' = [call EXCEPT ![w] = c]
        /\ task' = task /\ UNCHANGED <<registry, told>>
    BY <1>3 DEF LaunchIdle, FoldRecord, Step
  <2> HIDE DEF c
  <2> QED BY <1>1, <2>1, <2>2, IdleTold
<1> QED BY <1>2, <1>3

LEMMA JudgeTold ==
    ASSUME Inv, ToldInv, NEW d \in Loopds, NEW w \in Workers, Judge(d, w)
    PROVE  ToldInv'
<1>1. d \in Callers /\ CallShape(call[d])
  BY CallerShape DEF Callers
<1>2. CASE Over(d, w) \/ w \in beatOld
  <2> DEFINE state == IF Over(d, w) THEN "idle" ELSE "stale"
             c == [call[d] EXCEPT !.todo = @ \ {w}, !.worker = w, !.next = "recover",
                     !.rec = [state |-> state, cur |-> Cleared(w, state, None)]]
  <2>1. c.worker = w /\ c.rec.state \notin Busy
    BY <1>1 DEF CallShape, Busy
  <2>2. /\ at' = [at EXCEPT ![d] = "append"] /\ call' = [call EXCEPT ![d] = c]
        /\ task' = task /\ UNCHANGED <<registry, told>>
    BY <1>2 DEF Judge, Step
  <2> HIDE DEF c
  <2> QED BY <1>1, <2>1, <2>2, IdleTold
<1>3. CASE ~(Over(d, w) \/ w \in beatOld)
  <2> DEFINE c == [call[d] EXCEPT !.todo = @ \ {w}]
  <2>1. /\ at' = [at EXCEPT ![d] = "recover"] /\ call' = [call EXCEPT ![d] = c]
        /\ task' = task /\ UNCHANGED <<registry, told>>
    BY <1>1, <1>3 DEF Judge, Listed, Inv, CallInv
  <2> HIDE DEF c
  <2> QED BY <1>1, <2>1, SilentKeeps, ClaimsStay DEF ToldInv
<1> QED BY <1>2, <1>3

LEMMA FinishTold ==
    ASSUME Inv, ToldInv, NEW w \in Workers, NEW x \in told[w],
           Settle(w, x[1], x[2]) \/ FailTransient(w, x[1], x[2])
    PROVE  ToldInv'
<1> DEFINE r == x[1]
<1>1. w \in Callers /\ x \in Tasks \X Nat
  BY DEF Callers, Inv, CallInv
<1>2. ASSUME NEW dir, dir = "inbox" => task[r].claims < ClaimLimit,
             task' = [task EXCEPT ![r].in = dir]
      PROVE  ClaimsInv'
  <2>1. task \in [Tasks -> [in : Directories, claims : Nat]]
    BY DEF Inv, CallInv
  <2>2. \A y \in Tasks \ {r} : task'[y] = task[y]
    BY <1>2, <2>1
  <2>3. task'[r] = [task[r] EXCEPT !.in = dir] /\ task[r] \in [in : Directories, claims : Nat]
    BY <1>1, <1>2, <2>1
  <2>4. task'[r].in = dir /\ task'[r].claims = task[r].claims
    BY <2>3
  <2> QED BY <1>2, <2>2, <2>4 DEF ToldInv, ClaimsInv
<1>3. CASE Settle(w, x[1], x[2])
  <2>1. ClaimsInv' /\ UNCHANGED <<registry, told, at, call>>
    BY <1>2, <1>3 DEF Settle, Settled
  <2> QED BY <2>1, TellKeeps DEF ToldInv
<1>4. CASE FailTransient(w, x[1], x[2]) /\ task[r].claims < ClaimLimit
  <2>1. ClaimsInv'
    BY <1>2, <1>4 DEF FailTransient
  <2>2. /\ at' = [at EXCEPT ![w] = "requeued"] /\ UNCHANGED <<registry, told>>
        /\ call' = [call EXCEPT ![w] = [call[w] EXCEPT !.task = r]]
    BY <1>4 DEF FailTransient, Step
  <2> QED BY <1>1, <2>1, <2>2, SilentKeeps
<1>5. CASE FailTransient(w, x[1], x[2]) /\ ~(task[r].claims < ClaimLimit)
  <2>1. ClaimsInv' /\ UNCHANGED <<registry, told, at, call>>
    BY <1>2, <1>5 DEF FailTransient
  <2> QED BY <2>1, TellKeeps DEF ToldInv
<1> QED BY <1>3, <1>4, <1>5

LEMMA ReleaseTold ==
    ASSUME Inv, ToldInv, NEW w \in Workers,
           ReleaseList(w) \/ ReleaseEnd(w) \/ \E x \in Workers : ReleaseOne(w, x)
    PROVE  ToldInv'
<1>1. w \in Callers /\ CallShape(call[w])
  BY CallerShape DEF Callers
<1>2. CASE ReleaseList(w)
  <2> DEFINE c == [call[w] EXCEPT !.todo = {x \in Workers : registry[x].cur = call[w].task}]
  <2>1. /\ at' = [at EXCEPT ![w] = "release"] /\ call' = [call EXCEPT ![w] = c]
        /\ task' = task /\ UNCHANGED <<registry, told>>
    BY <1>2 DEF ReleaseList, Step
  <2> HIDE DEF c
  <2> QED BY <1>1, <2>1, SilentKeeps, ClaimsStay DEF ToldInv
<1>3. CASE ReleaseEnd(w)
  BY <1>1, <1>3, SilentKeeps, ClaimsStay DEF ReleaseEnd, Step, ToldInv
<1>4. ASSUME NEW x \in Workers, ReleaseOne(w, x) PROVE ToldInv'
  <2> DEFINE c == [call[w] EXCEPT !.todo = @ \ {x}, !.worker = x, !.next = "release",
                     !.rec = [state |-> "idle", cur |-> None]]
  <2>1. c.worker = x /\ c.rec.state \notin Busy
    BY <1>1 DEF CallShape, Busy
  <2>2. /\ at' = [at EXCEPT ![w] = "append"] /\ call' = [call EXCEPT ![w] = c]
        /\ task' = task /\ UNCHANGED <<registry, told>>
    BY <1>4, ZenonT(30) DEF ReleaseOne, Step
  <2> HIDE DEF c
  <2> QED BY <1>1, <2>1, <2>2, IdleTold
<1> QED BY <1>2, <1>3, <1>4

\* The steps that only move on.
LEMMA PlainTold ==
    ASSUME Inv, ToldInv, NEW p \in Callers,
           \/ DispatchBegin(p) \/ DispatchEnd(p) \/ InjectFails(p) \/ RecoverBegin(p)
           \/ \E r \in Tasks : DispatchSkip(p, r)
           \/ \E E : RecoverEnd(p, E)
           \/ Beat(p) \/ Kill(p)
    PROVE  ToldInv'
<1>1. /\ UNCHANGED <<registry, told>>
      /\ \E step : /\ step \notin {"claim", "inject", "book", "append"}
                   /\ at' = [at EXCEPT ![p] = step]
  <2>1. CASE \E r \in Tasks : DispatchSkip(p, r)
    <3>1. UNCHANGED <<registry, told>> /\ at' = [at EXCEPT ![p] = "dispatch"]
      BY <2>1 DEF DispatchSkip, Inv, CallInv
    <3> QED BY <3>1
  <2>2. CASE Beat(p)
    BY <2>2 DEF Beat, Step
  <2> QED BY <2>1, <2>2 DEF DispatchBegin, DispatchEnd, InjectFails, RecoverBegin,
                            RecoverEnd, Kill, Step
<1>2. \E c : call' = [call EXCEPT ![p] = c]
  <2>1. CASE InjectFails(p)
    <3>1. call' = [call EXCEPT ![p] = call[p]]
      BY <2>1 DEF InjectFails, Inv, CallInv
    <3> QED BY <3>1
  <2>2. CASE DispatchBegin(p)
    BY <2>2 DEF DispatchBegin
  <2>3. CASE RecoverBegin(p)
    <3>1. call' = [call EXCEPT ![p] =
                     [call[p] EXCEPT !.todo = {w \in Workers : registry[w].state \in Busy},
                                     !.seen = registry]]
      BY <2>3 DEF RecoverBegin
    <3> QED BY <3>1
  <2>4. ASSUME NEW r \in Tasks, DispatchSkip(p, r) PROVE \E c : call' = [call EXCEPT ![p] = c]
    <3>1. call' = [call EXCEPT ![p] = [call[p] EXCEPT !.todo = @ \ {r}]]
      BY <2>4 DEF DispatchSkip
    <3> QED BY <3>1
  <2> QED BY <2>1, <2>2, <2>3, <2>4 DEF DispatchEnd, RecoverEnd, Beat, Kill
<1>3. ClaimsInv'
  <2>1. CASE \E E : RecoverEnd(p, E)
    BY <2>1, ClaimsRecovered DEF RecoverEnd, ToldInv, ClaimsInv
  <2>2. CASE task' = task
    BY <2>2, ClaimsStay DEF ToldInv
  <2> QED BY <2>1, <2>2 DEF DispatchBegin, DispatchEnd, InjectFails, RecoverBegin,
                            DispatchSkip, Beat, Kill
<1> QED BY <1>1, <1>2, <1>3, SilentKeeps

LEMMA ToldStep == Inv /\ ToldInv /\ [DispatchNext]_dispatchVars => ToldInv'
<1> SUFFICES ASSUME Inv, ToldInv, [DispatchNext]_dispatchVars PROVE ToldInv'
  OBVIOUS
<1>1. ASSUME UNCHANGED <<task, registry, told, at, call>> PROVE ToldInv'
  BY <1>1, ClaimsStay, TellKeeps DEF ToldInv
<1>2. ASSUME NEW d \in Loopds, Loopd(d) PROVE ToldInv'
  <2>1. d \in Callers
    BY DEF Callers
  <2> QED BY <1>2, <2>1, PlainTold, InjectTold, SelectTold, ClaimTold, BookTold, JudgeTold
          DEF Loopd
<1>3. ASSUME NEW w \in Workers, Worker(w) PROVE ToldInv'
  <2>1. CASE WorkerBeats(w) \/ BeatAges(w)
    BY <1>1, <2>1 DEF WorkerBeats, BeatAges
  <2> QED BY <1>3, <2>1, LaunchTold, FinishTold, ReleaseTold DEF Worker
<1>4. ASSUME NEW p \in Callers, AppendRecord(p) \/ Beat(p) \/ Kill(p) PROVE ToldInv'
  BY <1>4, AppendTold, PlainTold
<1>5. CASE UNCHANGED dispatchVars
  BY <1>1, <1>5 DEF dispatchVars
<1> QED BY <1>2, <1>3, <1>4, <1>5 DEF DispatchNext

\* A worker the registry shows busy was told of the request it is shown with: every
\* record that a caller is about to append is true before it is appended.
THEOREM BusyWasTold == DispatchSpec => []BusyMeansTold
<1>1. ToldInv => BusyMeansTold
  BY DEF ToldInv, TrueRecord, BusyMeansTold
<1> QED BY <1>1, InvInit, InvStep, ToldInit, ToldStep, PTL DEF DispatchSpec

-----------------------------------------------------------------------------
(* One dispatcher, one process that recovers and no transient fault: the      *)
(* order of the records is the order of the assignments, but for the leases   *)
(* that no record was written of.                                             *)

Alone ==
    /\ ~setting.transient
    /\ \A d, e \in setting.dispatch : d = e
    /\ \A d, e \in setting.recover : d = e

Placing(step, c) == step \in {"claim", "inject"} \/ Booking(step, c)
Judging(step, c) == step = "append" /\ c.next = "recover"

\* The leases each worker holds that a record was written of, or is about to be; and
\* the workers about to be shown with a request.
Hold == [w \in Workers |-> Holds(w) \ unbooked]
Booked == {call[d].worker : d \in {e \in Loopds : Booking(at[e], call[e])}}

\* A worker is given a request, and shown with it, while it is idle; one that is judged
\* is busy with what the judge has seen, and becomes idle only if it holds nothing.
LoopdOk(d, step, c, reg, hold, set) ==
    /\ step \notin {"launched", "requeued", "release"}
    /\ step = "append" => c.next \in {"beat", "recover"}
    /\ step \in {"dispatch", "beat"} \/ Placing(step, c) => d \in set.dispatch
    /\ step = "recover" \/ Judging(step, c) => d \in set.recover
    /\ Placing(step, c) => reg[c.worker].state = "idle"
    /\ Booking(step, c) =>
         /\ hold[c.worker] \subseteq {<<c.task, c.lease>>}
         /\ step = "append" => c.rec = [state |-> "assigned", cur |-> c.task]
    /\ step = "recover" \/ Judging(step, c) =>
         \A w \in c.todo : /\ w \in Workers /\ reg[w].state \in Busy
                           /\ c.seen[w] = reg[w]
    /\ Judging(step, c) =>
         /\ c.worker \notin c.todo /\ reg[c.worker].state \in Busy
         /\ c.rec.state \in {"idle", "stale"}
         /\ c.rec.state = "idle" => hold[c.worker] = {}

\* A worker writes a record of its own only while it is launched.
WorkerOk(w, step, c, reg) ==
    /\ step \in {"idle", "launched", "append", "beat"}
    /\ step \in {"launched", "append"} => reg[w].state = "booting"
    /\ step = "append" => c.worker = w /\ c.rec.state = "idle" /\ c.next = "beat"

\* A worker that is idle in the registry holds nothing, unless it is about to be shown
\* with it; a busy one holds at most the request it is shown with.
RecordOk(w, rec, held, booked) ==
    /\ rec.state \in {"none", "booting"} => held = {}
    /\ rec.state = "idle" => held = {} \/ w \in booked
    /\ rec.state \in Busy => \A x \in held : x[1] = rec.cur

OrderInv ==
    /\ \A d \in Loopds : LoopdOk(d, at[d], call[d], registry, Hold, setting)
    /\ \A w \in Workers : WorkerOk(w, at[w], call[w], registry)
    /\ \A w \in Workers : RecordOk(w, registry[w], Hold[w], Booked)

SettingInv == setting \in Settings /\ (Alone => OrderInv)

-----------------------------------------------------------------------------

LEMMA SettingInit == DispatchInit => SettingInv
<1> SUFFICES ASSUME DispatchInit PROVE SettingInv
  OBVIOUS
<1>1. \A w \in Workers : Hold[w] = {}
  BY DEF DispatchInit, Hold, Holds
<1>2. \A p \in Callers : at[p] = "idle" /\ Loopds \subseteq Callers /\ Workers \subseteq Callers
  BY DEF DispatchInit, Callers
<1>3. \A d \in Loopds : LoopdOk(d, at[d], call[d], registry, Hold, setting)
  BY <1>2 DEF LoopdOk, Placing, Booking, Judging, Callers
<1>4. \A w \in Workers : WorkerOk(w, at[w], call[w], registry)
  BY <1>2 DEF WorkerOk, Callers
<1>5. \A w \in Workers : RecordOk(w, registry[w], Hold[w], Booked)
  BY <1>1 DEF RecordOk
<1> QED BY <1>3, <1>4, <1>5 DEF DispatchInit, SettingInv, OrderInv

\* A lease that is given up, settled or overtaken by a newer claim is held by nobody.
LEMMA HoldShrinks ==
    ASSUME Inv, told' = told, unbooked' = unbooked,
           \A r \in Tasks : \/ task'[r] = task[r] \/ task'[r].in # "processing"
                            \/ task'[r].claims = task[r].claims + 1
    PROVE  \A w \in Workers : Hold'[w] \subseteq Hold[w]
<1> SUFFICES ASSUME NEW w \in Workers, NEW x \in Hold'[w] PROVE x \in Hold[w]
  OBVIOUS
<1>1. /\ x \in told[w] /\ task'[x[1]].in = "processing" /\ task'[x[1]].claims = x[2]
      /\ x \notin unbooked
  BY DEF Hold, Holds
<1>2. PICK r \in Tasks, lease \in Nat : x = <<r, lease>>
  BY <1>1 DEF Inv, CallInv
<1>3. x[1] = r /\ x[2] = lease /\ lease <= task[r].claims /\ task[r].claims \in Nat
  BY <1>1, <1>2 DEF Inv, CallInv, LeaseInv
<1>4. task'[r] = task[r]
  BY <1>1, <1>3
<1> QED BY <1>1, <1>3, <1>4 DEF Hold, Holds

\* A step of p that leaves the registry alone, gives nobody a lease and ends no booking.
LEMMA OrderKeeps ==
    ASSUME Inv, OrderInv, ToldInv', UNCHANGED <<setting, registry>>,
           NEW p \in Callers, NEW step, NEW c,
           at' = [at EXCEPT ![p] = step], call' = [call EXCEPT ![p] = c],
           \A w \in Workers : Hold'[w] \subseteq Hold[w],
           p \in Loopds => LoopdOk(p, step, c, registry, Hold, setting),
           p \in Workers => WorkerOk(p, step, c, registry),
           p \in Loopds /\ Booking(at[p], call[p]) =>
              Booking(step, c) /\ c.worker = call[p].worker
    PROVE  OrderInv'
<1> USE DEF Callers
<1>1. /\ at'[p] = step /\ call'[p] = c
      /\ \A q \in Callers \ {p} : at'[q] = at[q] /\ call'[q] = call[q]
  BY DEF Inv, CallInv
<1>2. ASSUME NEW d \in Loopds, LoopdOk(d, at'[d], call'[d], registry, Hold, setting),
             Booking(at'[d], call'[d]) \/ Judging(at'[d], call'[d]) => call'[d].worker \in Workers
      PROVE  LoopdOk(d, at'[d], call'[d], registry', Hold', setting')
  BY <1>2 DEF LoopdOk
<1>3. \A d \in Loopds :
         /\ LoopdOk(d, at'[d], call'[d], registry, Hold, setting)
         /\ at'[d] \in {"book", "append"} => call'[d].worker \in Workers
  BY <1>1 DEF OrderInv, ToldInv, TrueCall
<1>4. \A w \in Workers : WorkerOk(w, at'[w], call'[w], registry')
  BY <1>1 DEF OrderInv
<1>5. Booked \subseteq Booked'
  BY <1>1 DEF Booked
<1>6. \A w \in Workers : RecordOk(w, registry'[w], Hold'[w], Booked')
  BY <1>5 DEF OrderInv, RecordOk
<1>7. \A d \in Loopds : LoopdOk(d, at'[d], call'[d], registry', Hold', setting')
  BY <1>2, <1>3 DEF Booking, Judging
<1> QED BY <1>4, <1>6, <1>7 DEF OrderInv

\* A step of p that writes a record of w, which no other caller is about to do.
LEMMA WriteKeeps ==
    ASSUME Inv, OrderInv, ToldInv, ToldInv', UNCHANGED <<setting, task, told, unbooked>>,
           NEW p \in Callers, NEW step, NEW c, NEW w \in Workers, NEW rec,
           at' = [at EXCEPT ![p] = step], call' = [call EXCEPT ![p] = c],
           registry' = [registry EXCEPT ![w] = rec],
           p \in Loopds => LoopdOk(p, step, c, registry', Hold, setting),
           p \in Workers => WorkerOk(p, step, c, registry'),
           p \in Loopds /\ Booking(at[p], call[p]) => call[p].worker = w,
           \A d \in Loopds \ {p} : Placing(at[d], call[d]) => call[d].worker # w,
           \A d \in Loopds \ {p} : at[d] = "recover" \/ Judging(at[d], call[d]) =>
              w \notin call[d].todo /\ (Judging(at[d], call[d]) => call[d].worker # w),
           \A v \in Workers \ {p} : at[v] \in {"launched", "append"} => v # w,
           RecordOk(w, rec, Hold[w], {})
    PROVE  OrderInv'
<1> USE DEF Callers
<1>1. /\ at'[p] = step /\ call'[p] = c
      /\ \A q \in Callers \ {p} : at'[q] = at[q] /\ call'[q] = call[q]
  BY DEF Inv, CallInv
<1>2. registry'[w] = rec /\ \A v \in Workers \ {w} : registry'[v] = registry[v]
  BY DEF ToldInv
<1>3. Hold' = Hold
  BY DEF Hold, Holds
<1>4. ASSUME NEW d \in Loopds \ {p} PROVE LoopdOk(d, at[d], call[d], registry', Hold, setting)
  <2>1. LoopdOk(d, at[d], call[d], registry, Hold, setting)
    BY DEF OrderInv
  <2>2. at[d] \in {"claim", "inject", "book", "append"} => call[d].worker \in Workers
    BY DEF ToldInv, TrueCall
  <2>3. Placing(at[d], call[d]) => registry'[call[d].worker] = registry[call[d].worker]
    BY <1>2, <2>2 DEF Placing, Booking
  <2>4. Judging(at[d], call[d]) => registry'[call[d].worker] = registry[call[d].worker]
    BY <1>2, <2>2 DEF Judging
  <2>5. at[d] = "recover" \/ Judging(at[d], call[d]) =>
           \A v \in call[d].todo : v \in Workers /\ registry'[v] = registry[v]
    BY <1>2, <2>1 DEF LoopdOk
  <2> QED BY <2>1, <2>3, <2>4, <2>5 DEF LoopdOk
<1>5. \A d \in Loopds : LoopdOk(d, at'[d], call'[d], registry', Hold', setting')
  BY <1>1, <1>3, <1>4, ZenonT(30)
<1>6. \A v \in Workers : WorkerOk(v, at'[v], call'[v], registry')
  BY <1>1, <1>2 DEF OrderInv, WorkerOk
<1>7. ASSUME NEW v \in Workers PROVE RecordOk(v, registry'[v], Hold'[v], Booked')
  <2>1. CASE v = w
    BY <1>2, <1>3, <2>1 DEF RecordOk
  <2>2. CASE v # w
    <3>1. v \in Booked => v \in Booked'
      BY <1>1, <2>2 DEF Booked
    <3> QED BY <1>2, <1>3, <2>2, <3>1 DEF OrderInv, RecordOk
  <2> QED BY <2>1, <2>2
<1> QED BY <1>5, <1>6, <1>7 DEF OrderInv

-----------------------------------------------------------------------------
(* The dispatcher *)

LEMMA StillHeld ==
    ASSUME Inv, task' = task, told' = told, unbooked' = unbooked
    PROVE  \A w \in Workers : Hold'[w] \subseteq Hold[w]
BY DEF Hold, Holds

LEMMA LoopdIs ==
    ASSUME Inv, OrderInv, NEW d \in Loopds
    PROVE  /\ d \in Callers /\ d \notin Workers /\ CallShape(call[d])
           /\ LoopdOk(d, at[d], call[d], registry, Hold, setting)
BY CallerShape, DispatchNamesAssumption DEF OrderInv, Callers

\* A step to "idle" or "dispatch" promises nothing new.
LEMMA RestOk ==
    ASSUME NEW d \in Loopds, NEW step \in {"idle", "dispatch", "beat"}, NEW c,
           step \in {"dispatch", "beat"} => d \in setting.dispatch
    PROVE  LoopdOk(d, step, c, registry, Hold, setting)
BY DEF LoopdOk, Placing, Booking, Judging

LEMMA DispatchOrder ==
    ASSUME Inv, OrderInv, ToldInv, ToldInv', NEW d \in Loopds,
           \/ DispatchBegin(d) \/ DispatchEnd(d) \/ InjectFails(d)
           \/ \E r \in Tasks : DispatchSkip(d, r)
    PROVE  OrderInv'
<1> USE LoopdIs
<1>1. UNCHANGED <<setting, registry, task, told, unbooked>>
  BY DEF DispatchBegin, DispatchEnd, InjectFails, DispatchSkip
<1>2. \E step \in {"idle", "dispatch"} :
        /\ at' = [at EXCEPT ![d] = step]
        /\ step = "dispatch" => d \in setting.dispatch
  <2>1. at[d] \in {"dispatch", "inject"} => d \in setting.dispatch
    BY DEF LoopdOk, Placing
  <2>2. ASSUME NEW r \in Tasks, DispatchSkip(d, r)
        PROVE  at' = [at EXCEPT ![d] = "dispatch"] /\ d \in setting.dispatch
    BY <2>1, <2>2 DEF DispatchSkip, Inv, CallInv
  <2> QED BY <2>1, <2>2 DEF DispatchBegin, DispatchEnd, InjectFails, Step
<1>3. \E c : call' = [call EXCEPT ![d] = c]
  <2>1. CASE InjectFails(d)
    <3>1. call' = [call EXCEPT ![d] = call[d]]
      BY <2>1 DEF InjectFails, Inv, CallInv
    <3> QED BY <3>1
  <2>2. CASE DispatchBegin(d)
    BY <2>2 DEF DispatchBegin
  <2>3. ASSUME NEW r \in Tasks, DispatchSkip(d, r) PROVE \E c : call' = [call EXCEPT ![d] = c]
    <3>1. call' = [call EXCEPT ![d] = [call[d] EXCEPT !.todo = @ \ {r}]]
      BY <2>3 DEF DispatchSkip
    <3> QED BY <3>1
  <2> QED BY <2>1, <2>2, <2>3 DEF DispatchEnd
<1>4. ~Booking(at[d], call[d])
  BY DEF DispatchBegin, DispatchEnd, InjectFails, DispatchSkip, Booking
<1> QED BY <1>1, <1>2, <1>3, <1>4, RestOk, StillHeld, OrderKeeps

LEMMA SelectOrder ==
    ASSUME Inv, OrderInv, ToldInv, ToldInv', NEW d \in Loopds, NEW r \in Tasks,
           NEW w \in Workers, Select(d, r, w)
    PROVE  OrderInv'
<1> DEFINE c == [call[d] EXCEPT !.todo = @ \ {r}, !.task = r, !.worker = w]
<1>1. /\ at' = [at EXCEPT ![d] = "claim"] /\ call' = [call EXCEPT ![d] = c]
      /\ UNCHANGED <<setting, registry, task, told, unbooked>>
      /\ at[d] = "dispatch" /\ registry[w].state = "idle"
  BY DEF Select, Step, Assignable
<1>2. c.worker = w
  BY LoopdIs DEF CallShape
<1> HIDE DEF c
<1>3. d \in setting.dispatch
  BY <1>1, LoopdIs DEF LoopdOk
<1>4. LoopdOk(d, "claim", c, registry, Hold, setting) /\ ~Booking(at[d], call[d])
  BY <1>1, <1>2, <1>3 DEF LoopdOk, Placing, Booking, Judging
<1> QED BY <1>1, <1>4, LoopdIs, StillHeld, OrderKeeps

LEMMA ClaimOrder ==
    ASSUME Inv, OrderInv, ToldInv, ToldInv', NEW d \in Loopds, NEW E, Claim(d, E)
    PROVE  OrderInv'
<1> DEFINE r == call[d].task
           there == Recovered(E)
<1>1. /\ at[d] = "claim" /\ UNCHANGED <<setting, registry, told, unbooked>>
      /\ d \in Callers /\ d \notin Workers /\ CallShape(call[d]) /\ r \in Tasks
      /\ LoopdOk(d, at[d], call[d], registry, Hold, setting)
  BY LoopdIs DEF Claim, Inv, CallInv
<1>2. d \in setting.dispatch /\ registry[call[d].worker].state = "idle"
  BY <1>1 DEF LoopdOk, Placing
<1>3. ~Booking(at[d], call[d])
  BY <1>1 DEF Booking
<1>4. /\ there \in [Tasks -> [in : Directories, claims : Nat]]
      /\ \A x \in Tasks : /\ (there[x] = task[x] \/ there[x].in # "processing")
                           /\ there[x].claims = task[x].claims
  BY RecoveredKeeps DEF Inv, CallInv, Recovered
<1>5. CASE there[r].in = "inbox"
  <2>1. /\ task' = [there EXCEPT ![r] = [in |-> "processing", claims |-> there[r].claims + 1]]
        /\ call' = [call EXCEPT ![d].lease = task'[r].claims]
        /\ at' = [at EXCEPT ![d] = "inject"]
    BY <1>5 DEF Claim, Step
  <2> HIDE DEF there
  <2> DEFINE c == [call[d] EXCEPT !.lease = task'[r].claims]
  <2>2. call' = [call EXCEPT ![d] = c] /\ c.worker = call[d].worker
    BY <1>1, <2>1 DEF CallShape
  <2> HIDE DEF c
  <2>3. \A x \in Tasks : \/ task'[x] = task[x] \/ task'[x].in # "processing"
                         \/ task'[x].claims = task[x].claims + 1
    <3>1. task'[r] = [in |-> "processing", claims |-> there[r].claims + 1]
      BY <1>1, <1>4, <2>1
    <3>2. \A x \in Tasks \ {r} : task'[x] = there[x]
      BY <1>4, <2>1
    <3> QED BY <1>1, <1>4, <3>1, <3>2
  <2>4. \A w \in Workers : Hold'[w] \subseteq Hold[w]
    BY <1>1, <2>3, HoldShrinks
  <2>5. LoopdOk(d, "inject", c, registry, Hold, setting)
    BY <1>2, <2>2 DEF LoopdOk, Placing, Booking, Judging
  <2> QED BY <1>1, <1>3, <2>1, <2>2, <2>4, <2>5, OrderKeeps
<1>6. CASE there[r].in # "inbox"
  <2>1. /\ task' = there /\ call' = [call EXCEPT ![d] = call[d]]
        /\ at' = [at EXCEPT ![d] = "dispatch"]
    BY <1>6 DEF Claim, Step, Inv, CallInv
  <2>2. \A w \in Workers : Hold'[w] \subseteq Hold[w]
    BY <1>1, <1>4, <2>1, HoldShrinks
  <2>3. LoopdOk(d, "dispatch", call[d], registry, Hold, setting)
    BY <1>2, RestOk
  <2> QED BY <1>1, <1>3, <2>1, <2>2, <2>3, OrderKeeps
<1> QED BY <1>5, <1>6

\* The worker that is told a request holds nothing: only the one dispatcher could be
\* about to show it with another.
LEMMA InjectFree ==
    ASSUME Inv, ToldInv, Alone, OrderInv, NEW d \in Loopds, Tell(d)
    PROVE  Hold[call[d].worker] = {}
<1>1. /\ at[d] = "inject" /\ call[d].worker \in Workers
      /\ d \in setting.dispatch /\ registry[call[d].worker].state = "idle"
  BY LoopdIs DEF Tell, LoopdOk, Placing, ToldInv, TrueCall, Callers
<1>2. call[d].worker \notin Booked
  <2> SUFFICES ASSUME NEW e \in Loopds, Booking(at[e], call[e]) PROVE FALSE
    BY DEF Booked
  <2>1. e \in setting.dispatch
    BY LoopdIs DEF LoopdOk, Placing
  <2>2. e = d
    BY <1>1, <2>1 DEF Alone
  <2> QED BY <1>1, <2>2 DEF Booking
<1> QED BY <1>1, <1>2 DEF OrderInv, RecordOk

LEMMA InjectOrder ==
    ASSUME Inv, ToldInv, Alone, OrderInv, NEW d \in Loopds, Inject(d)
    PROVE  OrderInv'
<1> DEFINE w == call[d].worker
           x == <<call[d].task, call[d].lease>>
<1>1. /\ d \in Callers /\ at[d] = "inject" /\ at' = [at EXCEPT ![d] = "book"]
      /\ call' = call /\ UNCHANGED <<setting, registry, task, unbooked>>
      /\ told' = [told EXCEPT ![w] = @ \cup {x}]
      /\ w \in Workers /\ registry[w].state = "idle" /\ d \in setting.dispatch
  BY LoopdIs DEF Inject, Tell, Step, LoopdOk, Placing, ToldInv, TrueCall
<1>2. Hold[w] = {}
  BY InjectFree DEF Inject
<1>3. /\ \A v \in Workers \ {w} : Hold'[v] = Hold[v]
      /\ Hold'[w] \subseteq {x}
  <2>1. told'[w] = told[w] \cup {x} /\ \A v \in Workers \ {w} : told'[v] = told[v]
    BY <1>1 DEF Inv, CallInv
  <2> QED BY <1>1, <1>2, <2>1 DEF Hold, Holds
<1>4. /\ at'[d] = "book" /\ \A p \in Callers \ {d} : at'[p] = at[p]
  BY <1>1 DEF Inv, CallInv
<1>5. ASSUME NEW e \in Loopds \ {d} PROVE LoopdOk(e, at'[e], call'[e], registry', Hold', setting')
  <2>1. e \in Callers /\ LoopdOk(e, at[e], call[e], registry, Hold, setting)
    BY LoopdIs
  <2>2. e \notin setting.dispatch
    BY <1>1 DEF Alone
  <2>3. ~Placing(at[e], call[e])
    BY <2>1, <2>2 DEF LoopdOk
  <2>4. Judging(at[e], call[e]) => call[e].worker \in Workers \ {w}
    BY <1>1, <2>1 DEF LoopdOk, Judging, ToldInv, TrueCall, Busy
  <2>5. Judging(at[e], call[e]) => Hold'[call[e].worker] = Hold[call[e].worker]
    BY <1>3, <2>4
  <2>6. LoopdOk(e, at[e], call[e], registry, Hold', setting)
    BY <2>1, <2>3, <2>5 DEF LoopdOk, Placing
  <2> QED BY <1>1, <1>4, <2>1, <2>6
<1>6. LoopdOk(d, at'[d], call'[d], registry', Hold', setting')
  <2>1. Hold'[w] \subseteq {<<call[d].task, call[d].lease>>}
    BY <1>3
  <2> QED BY <1>1, <1>4, <2>1 DEF LoopdOk, Placing, Booking, Judging
<1>7. \A v \in Workers : WorkerOk(v, at'[v], call'[v], registry')
  BY <1>1, <1>4, DispatchNamesAssumption DEF OrderInv, Callers
<1>8. ASSUME NEW v \in Workers PROVE RecordOk(v, registry'[v], Hold'[v], Booked')
  <2>1. CASE v = w
    <3>1. w \in Booked'
      BY <1>1, <1>4 DEF Booked, Booking
    <3> QED BY <1>1, <2>1, <3>1 DEF RecordOk, Busy
  <2>2. CASE v # w
    <3>1. v \in Booked => v \in Booked'
      BY <1>1, <1>4, LoopdIs DEF Booked, Booking
    <3> QED BY <1>1, <1>3, <2>2, <3>1 DEF OrderInv, RecordOk
  <2> QED BY <2>1, <2>2
<1> QED BY <1>1, <1>5, <1>6, <1>7, <1>8 DEF OrderInv

\* A lease that is typed and is not going to be booked.
LEMMA EnterFailsOrder ==
    ASSUME Inv, ToldInv, ToldInv', OrderInv, NEW d \in Loopds, EnterFails(d)
    PROVE  OrderInv'
<1> DEFINE x == <<call[d].task, call[d].lease>>
<1>1. /\ d \in Callers /\ d \notin Workers /\ at[d] = "inject"
      /\ at' = [at EXCEPT ![d] = "dispatch"] /\ call' = [call EXCEPT ![d] = call[d]]
      /\ UNCHANGED <<setting, registry, task>> /\ d \in setting.dispatch
      /\ told' = [told EXCEPT ![call[d].worker] = @ \cup {x}] /\ unbooked' = unbooked \cup {x}
  BY LoopdIs DEF EnterFails, Tell, Step, LoopdOk, Placing, Inv, CallInv
<1>2. \A w \in Workers : Hold'[w] \subseteq Hold[w]
  <2>1. \A w \in Workers : told'[w] \subseteq told[w] \cup {x}
    BY <1>1 DEF Inv, CallInv
  <2> QED BY <1>1, <2>1 DEF Hold, Holds
<1>3. LoopdOk(d, "dispatch", call[d], registry, Hold, setting) /\ ~Booking(at[d], call[d])
  BY <1>1, RestOk DEF Booking
<1> QED BY <1>1, <1>2, <1>3, OrderKeeps

LEMMA BookOrder ==
    ASSUME Inv, ToldInv, ToldInv', OrderInv, NEW d \in Loopds, Book(d)
    PROVE  OrderInv'
<1> DEFINE w == call[d].worker
           rec == [state |-> "assigned", cur |-> Cleared(w, "assigned", call[d].task)]
           c == [call[d] EXCEPT !.worker = w, !.next = "beat", !.rec = rec]
<1>1. /\ at[d] = "book" /\ at' = [at EXCEPT ![d] = "append"] /\ call' = [call EXCEPT ![d] = c]
      /\ UNCHANGED <<setting, registry, task, told, unbooked>>
      /\ d \in Callers /\ d \notin Workers /\ CallShape(call[d])
      /\ LoopdOk(d, at[d], call[d], registry, Hold, setting)
  BY LoopdIs DEF Book, FoldRecord, Step
<1>2. rec = [state |-> "assigned", cur |-> call[d].task]
  BY DEF Cleared, Busy
<1>3. /\ c.worker = w /\ c.rec = rec /\ c.next = "beat"
      /\ c.task = call[d].task /\ c.lease = call[d].lease
  BY <1>1 DEF CallShape
<1> HIDE DEF c
<1>4. Booking(at[d], call[d]) /\ Booking("append", c) /\ ~Judging("append", c)
  BY <1>1, <1>3 DEF Booking, Judging
<1>5. LoopdOk(d, "append", c, registry, Hold, setting)
  BY <1>1, <1>2, <1>3, <1>4 DEF LoopdOk, Placing
<1> QED BY <1>1, <1>3, <1>4, <1>5, StillHeld, OrderKeeps

-----------------------------------------------------------------------------
(* A process that is killed: the lease it typed and did not book is all that *)
(* its worker held.                                                          *)

LEMMA KillOrder ==
    ASSUME Inv, ToldInv, OrderInv, NEW p \in Callers, Kill(p)
    PROVE  OrderInv'
<1> DEFINE x == <<call[p].task, call[p].lease>>
<1>1. /\ UNCHANGED <<setting, registry, task, told>>
      /\ at' = [at EXCEPT ![p] = "idle"] /\ call' = [call EXCEPT ![p] = NoCall]
      /\ unbooked \subseteq unbooked'
      /\ p \in Loopds /\ Booking(at[p], call[p]) => x \in unbooked'
  BY DEF Kill, Step
<1>2. /\ at'[p] = "idle"
      /\ \A q \in Callers \ {p} : at'[q] = at[q] /\ call'[q] = call[q]
  BY <1>1 DEF Inv, CallInv
<1>3. \A w \in Workers : Hold'[w] \subseteq Hold[w] /\ Hold'[w] \cap unbooked' = {}
  BY <1>1 DEF Hold, Holds
<1>4. ASSUME NEW d \in Loopds PROVE LoopdOk(d, at'[d], call'[d], registry', Hold', setting')
  <2>1. d \in Callers /\ LoopdOk(d, at[d], call[d], registry, Hold, setting)
    BY LoopdIs
  <2>2. CASE d = p
    BY <1>2, <2>2 DEF LoopdOk, Placing, Booking, Judging
  <2>3. CASE d # p
    <3>1. at[d] \in {"book", "append"} => call[d].worker \in Workers
      BY <2>1 DEF ToldInv, TrueCall
    <3>2. LoopdOk(d, at[d], call[d], registry, Hold', setting)
      BY <1>3, <2>1, <3>1 DEF LoopdOk, Booking, Judging
    <3> QED BY <1>1, <1>2, <2>1, <2>3, <3>2
  <2> QED BY <2>2, <2>3
<1>5. \A w \in Workers : WorkerOk(w, at'[w], call'[w], registry')
  BY <1>1, <1>2 DEF OrderInv, WorkerOk, Callers
<1>6. ASSUME NEW w \in Workers PROVE RecordOk(w, registry'[w], Hold'[w], Booked')
  <2>1. RecordOk(w, registry[w], Hold[w], Booked)
    BY DEF OrderInv
  <2>2. w \in Booked => w \in Booked' \/ Hold'[w] = {}
    <3> SUFFICES ASSUME NEW d \in Loopds, Booking(at[d], call[d]), call[d].worker = w
                 PROVE  w \in Booked' \/ Hold'[w] = {}
      BY DEF Booked
    <3>1. CASE d = p
      <4>1. Hold[w] \subseteq {x} /\ x \in unbooked'
        BY <1>1, <3>1 DEF OrderInv, LoopdOk
      <4> QED BY <1>3, <4>1
    <3>2. CASE d # p
      BY <1>2, <3>2 DEF Booked, Callers
    <3> QED BY <3>1, <3>2
  <2> QED BY <1>1, <1>3, <2>1, <2>2 DEF RecordOk
<1> QED BY <1>4, <1>5, <1>6 DEF OrderInv

-----------------------------------------------------------------------------
(* The process that recovers *)

LEMMA RecoverOrder ==
    ASSUME Inv, ToldInv, ToldInv', OrderInv, NEW d \in Loopds,
           RecoverBegin(d) \/ \E E : RecoverEnd(d, E)
    PROVE  OrderInv'
<1>1. d \in Callers /\ d \notin Workers /\ CallShape(call[d])
  BY LoopdIs
<1>2. CASE RecoverBegin(d)
  <2> DEFINE c == [call[d] EXCEPT !.todo = {w \in Workers : registry[w].state \in Busy},
                                  !.seen = registry]
  <2>1. /\ at[d] = "idle" /\ d \in setting.recover
        /\ at' = [at EXCEPT ![d] = "recover"] /\ call' = [call EXCEPT ![d] = c]
        /\ UNCHANGED <<setting, registry, task, told, unbooked>>
    BY <1>2 DEF RecoverBegin, Step
  <2>2. c.todo = {w \in Workers : registry[w].state \in Busy} /\ c.seen = registry
    BY <1>1 DEF CallShape
  <2> HIDE DEF c
  <2>3. LoopdOk(d, "recover", c, registry, Hold, setting) /\ ~Booking(at[d], call[d])
    BY <2>1, <2>2 DEF LoopdOk, Placing, Booking, Judging
  <2> QED BY <1>1, <2>1, <2>3, StillHeld, OrderKeeps
<1>3. ASSUME NEW E, RecoverEnd(d, E) PROVE OrderInv'
  <2>1. /\ at[d] = "recover" /\ task' = Recovered(E)
        /\ at' = [at EXCEPT ![d] = "idle"] /\ call' = [call EXCEPT ![d] = NoCall]
        /\ UNCHANGED <<setting, registry, told, unbooked>>
    BY <1>3 DEF RecoverEnd, Step
  <2>2. \A r \in Tasks : Recovered(E)[r] = task[r] \/ Recovered(E)[r].in # "processing"
    BY DEF Inv, CallInv, Recovered
  <2>3. \A w \in Workers : Hold'[w] \subseteq Hold[w]
    BY <2>1, <2>2, HoldShrinks
  <2>4. LoopdOk(d, "idle", NoCall, registry, Hold, setting) /\ ~Booking(at[d], call[d])
    BY <2>1, RestOk DEF Booking
  <2> QED BY <1>1, <2>1, <2>3, <2>4, OrderKeeps
<1> QED BY <1>2, <1>3

LEMMA JudgeOrder ==
    ASSUME Inv, ToldInv, ToldInv', OrderInv, NEW d \in Loopds, NEW w \in Workers, Judge(d, w)
    PROVE  OrderInv'
<1>1. /\ d \in Callers /\ d \notin Workers /\ CallShape(call[d]) /\ at[d] = "recover"
      /\ UNCHANGED <<setting, registry, task, told, unbooked>>
      /\ w \in call[d].todo /\ LoopdOk(d, at[d], call[d], registry, Hold, setting)
  BY LoopdIs DEF Judge, Listed
<1>2. /\ registry[w].state \in Busy /\ call[d].seen[w] = registry[w] /\ d \in setting.recover
      /\ ~Booking(at[d], call[d])
  BY <1>1 DEF LoopdOk, Booking
<1>3. Over(d, w) => Hold[w] = {}
  <2>1. \A x \in Hold[w] : x[1] = registry[w].cur /\ task[x[1]].in = "processing"
    BY <1>2 DEF OrderInv, RecordOk, Hold, Holds
  <2> QED BY <1>2, <2>1 DEF Over, Settled
<1>4. CASE Over(d, w) \/ w \in beatOld
  <2> DEFINE state == IF Over(d, w) THEN "idle" ELSE "stale"
             c == [call[d] EXCEPT !.todo = @ \ {w}, !.worker = w, !.next = "recover",
                     !.rec = [state |-> state, cur |-> Cleared(w, state, None)]]
  <2>1. /\ c.todo = call[d].todo \ {w} /\ c.worker = w /\ c.next = "recover"
        /\ c.rec.state = state /\ c.seen = call[d].seen
    BY <1>1 DEF CallShape
  <2>2. at' = [at EXCEPT ![d] = "append"] /\ call' = [call EXCEPT ![d] = c]
    BY <1>4 DEF Judge, Step
  <2> HIDE DEF c
  <2>3. LoopdOk(d, "append", c, registry, Hold, setting)
    <3>1. Judging("append", c) /\ ~Booking("append", c)
      BY <2>1 DEF Judging, Booking
    <3> QED BY <1>1, <1>2, <1>3, <2>1, <3>1 DEF LoopdOk, Placing
  <2> QED BY <1>1, <1>2, <2>2, <2>3, StillHeld, OrderKeeps
<1>5. CASE ~(Over(d, w) \/ w \in beatOld)
  <2> DEFINE c == [call[d] EXCEPT !.todo = @ \ {w}]
  <2>1. at' = [at EXCEPT ![d] = "recover"] /\ call' = [call EXCEPT ![d] = c]
    BY <1>1, <1>5 DEF Judge, Inv, CallInv
  <2>2. c.todo = call[d].todo \ {w} /\ c.seen = call[d].seen
    BY <1>1 DEF CallShape
  <2> HIDE DEF c
  <2>3. LoopdOk(d, "recover", c, registry, Hold, setting)
    BY <1>1, <1>2, <2>2 DEF LoopdOk, Placing, Booking, Judging
  <2> QED BY <1>1, <1>2, <2>1, <2>3, StillHeld, OrderKeeps
<1> QED BY <1>4, <1>5

-----------------------------------------------------------------------------
(* The appended records *)

LEMMA AppendOrder ==
    ASSUME Inv, ToldInv, ToldInv', Alone, OrderInv, NEW p \in Callers, AppendRecord(p)
    PROVE  OrderInv'
<1> DEFINE w == call[p].worker
           rec == call[p].rec
           c == [call[p] EXCEPT !.rec = NoRecord]
<1>1. /\ at[p] = "append" /\ UNCHANGED <<setting, task, told, unbooked>>
      /\ registry' = [registry EXCEPT ![w] = rec]
      /\ at' = [at EXCEPT ![p] = call[p].next] /\ call' = [call EXCEPT ![p] = c]
      /\ w \in Workers /\ CallShape(call[p])
  BY CallerShape DEF AppendRecord, Step, ToldInv, TrueCall
<1>2. c.todo = call[p].todo /\ c.seen = call[p].seen
  BY <1>1 DEF CallShape
<1> HIDE DEF c
<1>3. /\ registry'[w] = rec /\ \A v \in Workers \ {w} : registry'[v] = registry[v]
  BY <1>1 DEF ToldInv
<1>4. \A v \in Workers : at[v] \in {"launched", "append"} => registry[v].state = "booting"
  BY DEF OrderInv, WorkerOk
<1>5. \A d \in Loopds : LoopdOk(d, at[d], call[d], registry, Hold, setting)
  BY DEF OrderInv
<1>6. CASE p \in Workers
  <2>1. w = p /\ rec.state = "idle" /\ call[p].next = "beat" /\ registry[w].state = "booting"
    BY <1>1, <1>4, <1>6 DEF OrderInv, WorkerOk
  <2>2. RecordOk(w, rec, Hold[w], {})
    BY <1>1, <2>1 DEF OrderInv, RecordOk, Busy
  <2>3. p \notin Loopds /\ WorkerOk(p, call[p].next, c, registry')
    BY <1>6, <2>1, DispatchNamesAssumption DEF WorkerOk
  <2>4. \A d \in Loopds : Placing(at[d], call[d]) => call[d].worker # w
    BY <1>5, <2>1 DEF LoopdOk
  <2>5. \A d \in Loopds : at[d] = "recover" \/ Judging(at[d], call[d]) =>
           w \notin call[d].todo /\ (Judging(at[d], call[d]) => call[d].worker # w)
    BY <1>5, <2>1 DEF LoopdOk, Busy
  <2>6. \A v \in Workers \ {p} : at[v] \in {"launched", "append"} => v # w
    BY <2>1
  <2>7. /\ p \in Loopds => LoopdOk(p, call[p].next, c, registry', Hold, setting)
        /\ p \in Workers => WorkerOk(p, call[p].next, c, registry')
        /\ p \in Loopds /\ Booking(at[p], call[p]) => call[p].worker = w
        /\ \A d \in Loopds \ {p} : Placing(at[d], call[d]) => call[d].worker # w
        /\ \A d \in Loopds \ {p} : at[d] = "recover" \/ Judging(at[d], call[d]) =>
              w \notin call[d].todo /\ (Judging(at[d], call[d]) => call[d].worker # w)
        /\ \A v \in Workers \ {p} : at[v] \in {"launched", "append"} => v # w
    BY <2>3, <2>4, <2>5, <2>6
  <2> HIDE DEF w, rec
  <2> QED BY <1>1, <2>2, <2>7, WriteKeeps
<1>7. CASE p \in Loopds /\ call[p].next = "beat"
  <2>1. /\ registry[w].state = "idle" /\ rec = [state |-> "assigned", cur |-> call[p].task]
        /\ Hold[w] \subseteq {<<call[p].task, call[p].lease>>}
        /\ p \in setting.dispatch /\ p \notin Workers /\ Booking(at[p], call[p])
    BY <1>1, <1>5, <1>7, DispatchNamesAssumption DEF LoopdOk, Placing, Booking
  <2>2. RecordOk(w, rec, Hold[w], {})
    BY <2>1 DEF RecordOk
  <2>3. LoopdOk(p, call[p].next, c, registry', Hold, setting)
    BY <1>7, <2>1 DEF LoopdOk, Placing, Booking, Judging
  <2>4. \A d \in Loopds \ {p} : ~Placing(at[d], call[d])
    BY <1>5, <2>1 DEF LoopdOk, Alone
  <2>5. \A d \in Loopds : at[d] = "recover" \/ Judging(at[d], call[d]) =>
           w \notin call[d].todo /\ (Judging(at[d], call[d]) => call[d].worker # w)
    BY <1>5, <2>1 DEF LoopdOk, Busy
  <2>6. \A v \in Workers : at[v] \in {"launched", "append"} => v # w
    BY <1>4, <2>1
  <2>7. /\ p \in Loopds => LoopdOk(p, call[p].next, c, registry', Hold, setting)
        /\ p \in Workers => WorkerOk(p, call[p].next, c, registry')
        /\ p \in Loopds /\ Booking(at[p], call[p]) => call[p].worker = w
        /\ \A d \in Loopds \ {p} : Placing(at[d], call[d]) => call[d].worker # w
        /\ \A d \in Loopds \ {p} : at[d] = "recover" \/ Judging(at[d], call[d]) =>
              w \notin call[d].todo /\ (Judging(at[d], call[d]) => call[d].worker # w)
        /\ \A v \in Workers \ {p} : at[v] \in {"launched", "append"} => v # w
    BY <2>1, <2>2, <2>3, <2>4, <2>5, <2>6
  <2> HIDE DEF w, rec
  <2> QED BY <1>1, <2>2, <2>7, WriteKeeps
<1>8. CASE p \in Loopds /\ call[p].next = "recover"
  <2>1. /\ registry[w].state \in Busy /\ rec.state \in {"idle", "stale"}
        /\ rec.state = "idle" => Hold[w] = {}
        /\ p \in setting.recover /\ p \notin Workers /\ w \notin call[p].todo
        /\ \A v \in call[p].todo : /\ v \in Workers /\ registry[v].state \in Busy
                                  /\ call[p].seen[v] = registry[v]
    BY <1>1, <1>5, <1>8, DispatchNamesAssumption DEF LoopdOk, Judging
  <2>2. RecordOk(w, rec, Hold[w], {}) /\ ~Booking(at[p], call[p])
    BY <1>1, <1>8, <2>1 DEF RecordOk, Busy, Booking
  <2>3. LoopdOk(p, call[p].next, c, registry', Hold, setting)
    <3>1. \A v \in c.todo : /\ v \in Workers /\ registry'[v].state \in Busy
                            /\ c.seen[v] = registry'[v]
      BY <1>2, <1>3, <2>1
    <3> QED BY <1>8, <2>1, <3>1 DEF LoopdOk, Placing, Booking, Judging
  <2>4. \A d \in Loopds : Placing(at[d], call[d]) => call[d].worker # w
    BY <1>5, <2>1, ZenonT(30) DEF LoopdOk, Busy
  <2>5. \A d \in Loopds \ {p} : ~(at[d] = "recover" \/ Judging(at[d], call[d]))
    BY <1>5, <2>1 DEF LoopdOk, Alone
  <2>6. \A v \in Workers : at[v] \in {"launched", "append"} => v # w
    BY <1>4, <2>1 DEF Busy
  <2>7. /\ p \in Loopds => LoopdOk(p, call[p].next, c, registry', Hold, setting)
        /\ p \in Workers => WorkerOk(p, call[p].next, c, registry')
        /\ p \in Loopds /\ Booking(at[p], call[p]) => call[p].worker = w
        /\ \A d \in Loopds \ {p} : Placing(at[d], call[d]) => call[d].worker # w
        /\ \A d \in Loopds \ {p} : at[d] = "recover" \/ Judging(at[d], call[d]) =>
              w \notin call[d].todo /\ (Judging(at[d], call[d]) => call[d].worker # w)
        /\ \A v \in Workers \ {p} : at[v] \in {"launched", "append"} => v # w
    BY <2>1, <2>2, <2>3, <2>4, <2>5, <2>6
  <2> HIDE DEF w, rec
  <2> QED BY <1>1, <2>2, <2>7, WriteKeeps, ZenonT(30)
<1> QED BY <1>1, <1>5, <1>6, <1>7, <1>8 DEF Callers, LoopdOk

LEMMA BeatOrder ==
    ASSUME Inv, ToldInv, ToldInv', OrderInv, NEW p \in Callers, Beat(p)
    PROVE  OrderInv'
<1> DEFINE step == IF p \in Workers THEN "idle" ELSE "dispatch"
<1>1. /\ at[p] = "beat" /\ at' = [at EXCEPT ![p] = step]
      /\ UNCHANGED <<setting, registry, task, told, unbooked>>
  BY DEF Beat, Step
<1>2. \E c : call' = [call EXCEPT ![p] = c]
  BY DEF Beat
<1>3. p \in Loopds => p \in setting.dispatch /\ p \notin Workers
  BY <1>1, DispatchNamesAssumption DEF OrderInv, LoopdOk
<1>4. \A c : /\ p \in Loopds => LoopdOk(p, step, c, registry, Hold, setting)
             /\ p \in Workers => WorkerOk(p, step, c, registry)
  BY <1>3, RestOk DEF WorkerOk
<1>5. ~Booking(at[p], call[p])
  BY <1>1 DEF Booking
<1> QED BY <1>1, <1>2, <1>4, <1>5, StillHeld, OrderKeeps

-----------------------------------------------------------------------------
(* The workers *)

LEMMA LaunchOrder ==
    ASSUME Inv, ToldInv, ToldInv', OrderInv, NEW w \in Workers, Launch(w) \/ LaunchIdle(w)
    PROVE  OrderInv'
<1>1. w \in Callers /\ CallShape(call[w]) /\ w \notin Loopds
  BY CallerShape, DispatchNamesAssumption DEF Callers
<1>2. CASE Launch(w)
  <2> DEFINE rec == [NoRecord EXCEPT !.state = "booting"]
  <2>1. /\ UNCHANGED <<setting, task, told, unbooked, call>> /\ registry[w].state = "none"
        /\ at' = [at EXCEPT ![w] = "launched"] /\ registry' = [registry EXCEPT ![w] = rec]
    BY <1>2 DEF Launch, NoRecord
  <2>2. rec.state = "booting" /\ registry'[w] = rec /\ call' = [call EXCEPT ![w] = call[w]]
    BY <1>1, <2>1 DEF NoRecord, ToldInv, Inv, CallInv
  <2>3. RecordOk(w, rec, Hold[w], {}) /\ WorkerOk(w, "launched", call[w], registry')
    BY <2>1, <2>2 DEF OrderInv, RecordOk, WorkerOk, Busy
  <2> HIDE DEF rec
  <2>4. \A d \in Loopds : LoopdOk(d, at[d], call[d], registry, Hold, setting)
    BY DEF OrderInv
  <2>5. \A d \in Loopds : Placing(at[d], call[d]) => call[d].worker # w
    BY <2>1, <2>4 DEF LoopdOk
  <2>6. \A d \in Loopds : at[d] = "recover" \/ Judging(at[d], call[d]) =>
           w \notin call[d].todo /\ (Judging(at[d], call[d]) => call[d].worker # w)
    BY <2>1, <2>4 DEF LoopdOk, Busy
  <2>7. /\ w \in Loopds => LoopdOk(w, "launched", call[w], registry', Hold, setting)
        /\ w \in Workers => WorkerOk(w, "launched", call[w], registry')
        /\ w \in Loopds /\ Booking(at[w], call[w]) => call[w].worker = w
        /\ \A d \in Loopds \ {w} : Placing(at[d], call[d]) => call[d].worker # w
        /\ \A d \in Loopds \ {w} : at[d] = "recover" \/ Judging(at[d], call[d]) =>
              w \notin call[d].todo /\ (Judging(at[d], call[d]) => call[d].worker # w)
        /\ \A v \in Workers \ {w} : at[v] \in {"launched", "append"} => v # w
        /\ UNCHANGED <<setting, task, told, unbooked>>
    BY <1>1, <2>1, <2>3, <2>5, <2>6
  <2> QED BY <1>1, <2>1, <2>2, <2>3, <2>7, WriteKeeps, ZenonT(30)
<1>3. CASE LaunchIdle(w)
  <2> DEFINE c == [call[w] EXCEPT !.worker = w, !.next = "beat",
                     !.rec = [state |-> "idle", cur |-> Cleared(w, "idle", None)]]
  <2>1. c.worker = w /\ c.rec.state = "idle" /\ c.next = "beat"
    BY <1>1 DEF CallShape
  <2>2. /\ at[w] = "launched" /\ at' = [at EXCEPT ![w] = "append"]
        /\ call' = [call EXCEPT ![w] = c]
        /\ UNCHANGED <<setting, registry, task, told, unbooked>>
    BY <1>3 DEF LaunchIdle, FoldRecord, Step
  <2> HIDE DEF c
  <2>3. WorkerOk(w, "append", c, registry)
    BY <2>1, <2>2 DEF OrderInv, WorkerOk
  <2> QED BY <1>1, <2>2, <2>3, StillHeld, OrderKeeps
<1> QED BY <1>2, <1>3

\* Nobody goes on, and no lease is given.
LEMMA QuietOrder ==
    ASSUME Inv, OrderInv, ToldInv', UNCHANGED <<setting, registry, at, call>>,
           \A w \in Workers : Hold'[w] \subseteq Hold[w]
    PROVE  OrderInv'
<1>1. ASSUME NEW d \in Loopds PROVE LoopdOk(d, at[d], call[d], registry, Hold', setting)
  <2>1. at[d] \in {"book", "append"} => call[d].worker \in Workers
    BY DEF Callers, ToldInv, TrueCall
  <2> QED BY <2>1 DEF OrderInv, LoopdOk, Booking, Judging
<1>2. \A w \in Workers : RecordOk(w, registry[w], Hold'[w], Booked)
  BY DEF OrderInv, RecordOk
<1>3. Booked' = Booked
  BY DEF Booked
<1> QED BY <1>1, <1>2, <1>3 DEF OrderInv

LEMMA SettleOrder ==
    ASSUME Inv, OrderInv, ToldInv', NEW w \in Workers, NEW r, NEW lease, Settle(w, r, lease)
    PROVE  OrderInv'
<1>1. /\ UNCHANGED <<setting, registry, at, call, told, unbooked>>
      /\ \E dir \in Settled : task' = [task EXCEPT ![r].in = dir]
  BY DEF Settle
<1>2. \A x \in Tasks : task'[x] = task[x] \/ task'[x].in # "processing"
  <2> SUFFICES ASSUME NEW x \in Tasks PROVE task'[x] = task[x] \/ task'[x].in # "processing"
    OBVIOUS
  <2>1. task[x] \in [in : Directories, claims : Nat]
    BY DEF Inv, CallInv
  <2>2. \A dir : [task[x] EXCEPT !.in = dir].in = dir
    BY <2>1
  <2> QED BY <1>1, <2>2 DEF Inv, CallInv, Settled
<1> QED BY <1>1, <1>2, HoldShrinks, QuietOrder

\* No worker is at a step of fail or of release_for_request.
LEMMA NoRelease ==
    ASSUME OrderInv, NEW w \in Workers
    PROVE  /\ ~ReleaseList(w) /\ ~ReleaseEnd(w) /\ \A x \in Workers : ~ReleaseOne(w, x)
BY DEF OrderInv, WorkerOk, ReleaseList, ReleaseEnd, ReleaseOne

LEMMA OrderStep ==
    ASSUME Inv, ToldInv, ToldInv', Alone, OrderInv, [DispatchNext]_dispatchVars
    PROVE  OrderInv'
<1>1. ASSUME NEW d \in Loopds, Loopd(d) PROVE OrderInv'
  BY <1>1, DispatchOrder, InjectOrder, EnterFailsOrder, SelectOrder, ClaimOrder, BookOrder,
     RecoverOrder, JudgeOrder DEF Loopd
<1>2. ASSUME NEW w \in Workers, Worker(w) PROVE OrderInv'
  <2>1. CASE WorkerBeats(w) \/ BeatAges(w)
    BY <2>1, StillHeld, QuietOrder DEF WorkerBeats, BeatAges
  <2>2. \A x : ~FailTransient(w, x[1], x[2])
    BY DEF FailTransient, Alone
  <2> QED BY <1>2, <2>1, <2>2, LaunchOrder, SettleOrder, NoRelease DEF Worker
<1>3. ASSUME NEW p \in Callers, AppendRecord(p) \/ Beat(p) \/ Kill(p) PROVE OrderInv'
  BY <1>3, AppendOrder, BeatOrder, KillOrder
<1>4. CASE UNCHANGED dispatchVars
  BY <1>4, StillHeld, QuietOrder DEF dispatchVars
<1> QED BY <1>1, <1>2, <1>3, <1>4 DEF DispatchNext

LEMMA SettingStep == Inv /\ ToldInv /\ SettingInv /\ [DispatchNext]_dispatchVars => SettingInv'
<1> SUFFICES ASSUME Inv, ToldInv, SettingInv, [DispatchNext]_dispatchVars PROVE SettingInv'
  OBVIOUS
<1>1. setting' = setting
  <2>1. ASSUME NEW d \in Loopds, Loopd(d) PROVE setting' = setting
    BY <2>1 DEF Loopd, DispatchBegin, DispatchEnd, Inject, Tell, InjectFails, EnterFails,
               Book, DispatchSkip, Select, Claim, RecoverBegin, RecoverEnd, Judge
  <2>2. ASSUME NEW w \in Workers, Worker(w) PROVE setting' = setting
    BY <2>2 DEF Worker, Launch, LaunchIdle, WorkerBeats, BeatAges, Settle, FailTransient,
               ReleaseList, ReleaseEnd, ReleaseOne
  <2> QED BY <2>1, <2>2 DEF DispatchNext, dispatchVars, AppendRecord, Beat, Kill
<1>2. Alone' => Alone
  BY <1>1 DEF Alone
<1> QED BY <1>1, <1>2, OrderStep, ToldStep DEF SettingInv

-----------------------------------------------------------------------------

LEMMA OnlyOne ==
    ASSUME NEW S, IsFiniteSet(S), Cardinality(S) <= 1
    PROVE  \A d, e \in S : d = e
<1>1. Cardinality(S) \in Nat
  BY FS_CardinalityType
<1>2. CASE Cardinality(S) = 0
  BY <1>2, FS_EmptySet
<1>3. CASE Cardinality(S) = 1
  BY <1>3, FS_Singleton
<1> QED BY <1>1, <1>2, <1>3

\* Whoever is handed a request holds no other but one whose call failed or was killed
\* before it booked its worker, as long as one process dispatches, at most one recovers and
\* no fault is transient: what a delayed append or a judgement of an old fold writes never
\* shows a worker idle that has work the registry was told of.
THEOREM NobodyDoubleBooked == DispatchSpec => NotDoubleBooked
<1>1. ASSUME Inv, ToldInv, SettingInv, NEW d \in Loopds, Tell(d), ~setting.transient,
             Cardinality(setting.dispatch) = 1, Cardinality(setting.recover) <= 1
      PROVE  Holds(call[d].worker) \subseteq unbooked
  <2>1. setting.dispatch \subseteq Loopds /\ setting.recover \subseteq Loopds
    BY <1>1, DispatchSettingsAssumption DEF SettingInv
  <2>2. IsFiniteSet(setting.dispatch) /\ IsFiniteSet(setting.recover)
    BY <2>1, DispatchNamesAssumption, FS_Subset
  <2>3. Alone
    BY <1>1, <2>2, OnlyOne DEF Alone
  <2>4. Hold[call[d].worker] = {} /\ call[d].worker \in Workers
    BY <1>1, <2>3, InjectFree DEF SettingInv, Tell, ToldInv, TrueCall, Callers
  <2> QED BY <2>4 DEF Hold
<1>2. Inv /\ ToldInv /\ SettingInv =>
        [\A d \in Loopds :
           /\ Tell(d) /\ ~setting.transient
           /\ Cardinality(setting.dispatch) = 1 /\ Cardinality(setting.recover) <= 1
           => Holds(call[d].worker) \subseteq unbooked]_dispatchVars
  BY <1>1
<1> QED BY <1>2, InvInit, InvStep, ToldInit, ToldStep, SettingInit, SettingStep,
           PTL DEF DispatchSpec, NotDoubleBooked
=============================================================================
