---------------------------- MODULE WorkerDispatch ----------------------------
(***************************************************************************)
(* The dispatch of requests to warm workers: loopd.py, worker_registry.py, *)
(* worker_launch.py and the part of loop_engineering._finish that frees    *)
(* the worker of a request it puts back.                                   *)
(*                                                                         *)
(* The registry is a log folded by worker: every update folds it, changes  *)
(* a copy and appends the copy, with no lock.  dispatch_once and           *)
(* recovery_tick are calls of the command line and of the MCP server, so   *)
(* several run at once, and each may be killed between any two steps.  A   *)
(* call of the request queue (module LoopRequests) is one step here: it    *)
(* runs under the lock of the queue.                                       *)
(***************************************************************************)
EXTENDS Naturals, FiniteSets

CONSTANTS
    Tasks,              \* request ids
    Gated,              \* the requests infer_risk takes for high-risk
    Workers,
    Loopds,             \* processes that call dispatch_once and recovery_tick
    ClaimLimit,         \* MAX_ATTEMPTS
    Settings,           \* bounds: each behaviour keeps to those of one setting
    None

Callers == Loopds \cup Workers

\* Which requests there are, which workers are up from the start, which processes
\* dispatch and which recover, whether heartbeats grow old, whether leases expire,
\* whether faults are transient, and how many processes are killed.
ASSUME DispatchSettingsAssumption ==
    Settings \subseteq [tasks : SUBSET Tasks, up : SUBSET Workers, dispatch : SUBSET Loopds,
                        recover : SUBSET Loopds, ageing : BOOLEAN, expiry : BOOLEAN,
                        transient : BOOLEAN, kills : Nat]

ASSUME DispatchNamesAssumption ==
    /\ None \notin Tasks \cup Workers /\ Gated \subseteq Tasks
    /\ Workers \cap Loopds = {} /\ IsFiniteSet(Loopds) /\ ClaimLimit \in Nat \ {0}

VARIABLES
    setting,    \* the setting of this behaviour
    task,       \* task[r]: the directory of request r, and its claims so far,
                \* the last of which is its lease
    parked,     \* the requests with a marker in blocked/
    registry,   \* registry[w]: the record of w that the fold returns
    beatOld,    \* the workers whose heartbeat file is over HEARTBEAT_TTL_SECONDS
    at,         \* at[p]: the step of each caller
    call,       \* call[p]: its local variables
    told,       \* history: told[w]: the <<request, lease>> typed into w's pane
    unbooked,   \* history: those of a call that failed or was killed before it booked them
    kills       \* processes killed so far

dispatchVars == <<setting, task, parked, registry, beatOld, at, call, told, unbooked, kills>>

Busy == {"assigned", "working", "reviewing"}
Settled == {"done", "dead"}

NoRecord == [state |-> "none", cur |-> None]
NoCall == [todo |-> {}, seen |-> [w \in Workers |-> NoRecord], task |-> None, lease |-> 0,
           worker |-> None, rec |-> NoRecord, next |-> "idle"]

DispatchInit ==
    /\ setting \in Settings
    /\ task = [r \in Tasks |-> [in |-> IF r \in setting.tasks THEN "inbox" ELSE "absent",
                            claims |-> 0]]
    /\ parked = {}
    /\ registry = [w \in Workers |-> IF w \in setting.up THEN [NoRecord EXCEPT !.state = "idle"]
                                                          ELSE NoRecord]
    /\ beatOld = {}
    /\ at = [p \in Callers |-> "idle"]
    /\ call = [p \in Callers |-> NoCall]
    /\ told = [w \in Workers |-> {}]
    /\ unbooked = {}
    /\ kills = 0

In(d) == {r \in Tasks : task[r].in = d}

Step(p, step) == at' = [at EXCEPT ![p] = step]

-----------------------------------------------------------------------------
(* update_worker: the fold, a changed copy, and later the append. *)

\* The caller p sets the state of w, keeps current_request_id unless it is given
\* one, and goes on at step next.
FoldRecord(p, w, state, cur, next) ==
    /\ call' = [call EXCEPT ![p].worker = w, ![p].next = next,
                            ![p].rec = [state |-> state, cur |-> cur]]
    /\ Step(p, "append")

AppendRecord(p) ==
    /\ at[p] = "append"
    /\ registry' = [registry EXCEPT ![call[p].worker] = call[p].rec]
    /\ Step(p, call[p].next) /\ call' = [call EXCEPT ![p].rec = NoRecord]
    /\ UNCHANGED <<setting, task, parked, beatOld, told, unbooked, kills>>

\* set_state: only a busy state without a request clears current_request_id.
Cleared(w, state, r) == IF r # None \/ state \in Busy THEN r ELSE registry[w].cur

\* write_heartbeat, the last step of an assignment and of a launch.
Beat(p) ==
    /\ at[p] = "beat"
    /\ beatOld' = beatOld \ {call[p].worker}
    /\ Step(p, IF p \in Workers THEN "idle" ELSE "dispatch")
    /\ call' = [call EXCEPT ![p] = IF p \in Workers THEN NoCall
                                   ELSE [NoCall EXCEPT !.todo = call[p].todo]]
    /\ UNCHANGED <<setting, task, parked, registry, told, unbooked, kills>>

-----------------------------------------------------------------------------
(* launch_worker: registered as booting, then idle, then its first heartbeat. *)

Launch(w) ==
    /\ registry[w] = NoRecord
    /\ registry' = [registry EXCEPT ![w].state = "booting"]
    /\ at' = [at EXCEPT ![w] = "launched"]
    /\ UNCHANGED <<setting, task, parked, beatOld, call, told, unbooked, kills>>

LaunchIdle(w) ==
    /\ at[w] = "launched"
    /\ FoldRecord(w, w, "idle", Cleared(w, "idle", None), "beat")
    /\ UNCHANGED <<setting, task, parked, registry, beatOld, told, unbooked, kills>>

-----------------------------------------------------------------------------
(* dispatch_once: the inbox is listed once; each request is gated, given an *)
(* idle worker, claimed, typed into the pane of the worker, and booked.     *)

DispatchBegin(d) ==
    /\ at[d] = "idle" /\ d \in setting.dispatch /\ In("inbox") # {}
    /\ call' = [call EXCEPT ![d].todo = In("inbox")]
    /\ Step(d, "dispatch")
    /\ UNCHANGED <<setting, task, parked, registry, beatOld, told, unbooked, kills>>

\* The file may be gone by now, or parked; or it is high-risk and is parked; or no
\* idle worker suits it (its capabilities, directory, risk tier and pane are left
\* open): the request is skipped.
DispatchSkip(d, r) ==
    /\ at[d] = "dispatch" /\ r \in call[d].todo
    /\ parked' = parked \cup ({r} \cap Gated \cap In("inbox"))
    /\ call' = [call EXCEPT ![d].todo = @ \ {r}]
    /\ UNCHANGED <<setting, task, registry, beatOld, at, told, unbooked, kills>>

Bug_Assignable == {w \in Workers : registry[w].state \in {"idle", "assigned"}}

Assignable == {w \in Workers : registry[w].state = "idle"}

\* select_worker: the ranking among the candidates is left open.
Select(d, r, w) ==
    /\ at[d] = "dispatch" /\ r \in call[d].todo
    /\ r \in In("inbox") \ (parked \cup Gated) /\ w \in Assignable
    /\ call' = [call EXCEPT ![d].todo = @ \ {r}, ![d].task = r, ![d].worker = w]
    /\ Step(d, "claim")
    /\ UNCHANGED <<setting, task, parked, registry, beatOld, told, unbooked, kills>>

DispatchEnd(d) ==
    /\ at[d] = "dispatch" /\ call[d].todo = {}
    /\ Step(d, "idle") /\ call' = [call EXCEPT ![d] = NoCall]
    /\ UNCHANGED <<setting, task, parked, registry, beatOld, told, unbooked, kills>>

\* recover_expired, and the first thing a claim does: the expired leases (E) are
\* taken back, and a request that used up its claims is given up.
Recovered(E) ==
    [r \in Tasks |-> IF r \in E
                     THEN [task[r] EXCEPT !.in = IF task[r].claims >= ClaimLimit
                                                 THEN "dead" ELSE "inbox"]
                     ELSE task[r]]

Expirable == IF setting.expiry THEN SUBSET In("processing") ELSE {{}}

Bug_Claim(d, E) ==
    /\ at[d] = "claim"
    /\ task' = Recovered(E)
    /\ call' = [call EXCEPT ![d].lease = task[call[d].task].claims]
    /\ Step(d, "inject")
    /\ UNCHANGED <<setting, parked, registry, beatOld, told, unbooked, kills>>

\* claim: the request may have been claimed by another, or have left the inbox.
Claim(d, E) ==
    /\ at[d] = "claim"
    /\ LET r == call[d].task
           there == Recovered(E)
       IN IF there[r].in = "inbox"
          THEN /\ task' = [there EXCEPT ![r] = [in |-> "processing", claims |-> @.claims + 1]]
               /\ call' = [call EXCEPT ![d].lease = task'[r].claims]
               /\ Step(d, "inject")
          ELSE /\ task' = there /\ UNCHANGED call
               /\ Step(d, "dispatch")
    /\ UNCHANGED <<setting, parked, registry, beatOld, told, unbooked, kills>>

\* The assignment is typed into the pane, with the lease that claim returned.
Tell(d) ==
    /\ at[d] = "inject"
    /\ told' = [told EXCEPT ![call[d].worker] = @ \cup {<<call[d].task, call[d].lease>>}]
    /\ UNCHANGED <<setting, task, parked, registry, beatOld, call, kills>>

Inject(d) == Tell(d) /\ Step(d, "book") /\ UNCHANGED unbooked

Bug_InjectFails(d) ==
    /\ at[d] = "inject"
    /\ Step(d, "book")
    /\ UNCHANGED <<setting, task, parked, registry, beatOld, call, told, unbooked, kills>>

\* tmux does not know the pane: the claimed request waits for its lease to expire.
InjectFails(d) ==
    /\ at[d] = "inject"
    /\ Step(d, "dispatch")
    /\ UNCHANGED <<setting, task, parked, registry, beatOld, call, told, unbooked, kills>>

\* The text is in the pane, and then its Enter fails, or the call of tmux that typed it
\* timed out: inject returns False, and the worker is not booked.
EnterFails(d) ==
    /\ Tell(d) /\ Step(d, "dispatch")
    /\ unbooked' = unbooked \cup {<<call[d].task, call[d].lease>>}

Book(d) ==
    /\ at[d] = "book"
    /\ LET w == call[d].worker IN
       FoldRecord(d, w, "assigned", Cleared(w, "assigned", call[d].task), "beat")
    /\ UNCHANGED <<setting, task, parked, registry, beatOld, told, unbooked, kills>>

-----------------------------------------------------------------------------
(* recovery_tick: the workers are listed once; those whose request is over  *)
(* become idle, those silent for too long stale; then leases are recovered. *)

RecoverBegin(d) ==
    /\ at[d] = "idle" /\ d \in setting.recover
    /\ call' = [call EXCEPT ![d].todo = {w \in Workers : registry[w].state \in Busy},
                            ![d].seen = registry]
    /\ Step(d, "recover")
    /\ UNCHANGED <<setting, task, parked, registry, beatOld, told, unbooked, kills>>

Listed(d, w) == at[d] = "recover" /\ w \in call[d].todo

Over(d, w) == LET r == call[d].seen[w].cur IN r # None /\ task[r].in \in Settled

\* Nothing is done about w, or its state is set from a fold of its own; w is done.
Judge(d, w) ==
    /\ Listed(d, w)
    /\ LET state == IF Over(d, w) THEN "idle" ELSE "stale" IN
         IF Over(d, w) \/ w \in beatOld
         THEN /\ call' = [call EXCEPT
                             ![d].todo = @ \ {w}, ![d].worker = w, ![d].next = "recover",
                             ![d].rec = [state |-> state, cur |-> Cleared(w, state, None)]]
              /\ Step(d, "append")
         ELSE /\ call' = [call EXCEPT ![d].todo = @ \ {w}]
              /\ UNCHANGED at
    /\ UNCHANGED <<setting, task, parked, registry, beatOld, told, unbooked, kills>>

RecoverEnd(d, E) ==
    /\ at[d] = "recover" /\ call[d].todo = {}
    /\ task' = Recovered(E)
    /\ Step(d, "idle") /\ call' = [call EXCEPT ![d] = NoCall]
    /\ UNCHANGED <<setting, parked, registry, beatOld, told, unbooked, kills>>

-----------------------------------------------------------------------------
(* The workers, who were told a lease, maybe long ago *)

Holds(w) == {x \in told[w] : task[x[1]].in = "processing" /\ task[x[1]].claims = x[2]}

\* complete, or fail for good.
Settle(w, r, lease) ==
    /\ at[w] = "idle" /\ <<r, lease>> \in Holds(w)
    /\ \E d \in Settled : task' = [task EXCEPT ![r].in = d]
    /\ UNCHANGED <<setting, parked, registry, beatOld, at, call, told, unbooked, kills>>

\* fail with a transient fault: back to the inbox, and the queue lock is released
\* before the worker is; once the claims are used up it is dead.
FailTransient(w, r, lease) ==
    /\ setting.transient /\ at[w] = "idle" /\ <<r, lease>> \in Holds(w)
    /\ IF task[r].claims < ClaimLimit
       THEN /\ task' = [task EXCEPT ![r].in = "inbox"]
            /\ Step(w, "requeued") /\ call' = [call EXCEPT ![w].task = r]
       ELSE /\ task' = [task EXCEPT ![r].in = "dead"]
            /\ UNCHANGED <<at, call>>
    /\ UNCHANGED <<setting, parked, registry, beatOld, told, unbooked, kills>>

\* release_for_request: the holders are listed, then set idle one by one.
ReleaseList(w) ==
    /\ at[w] = "requeued"
    /\ call' = [call EXCEPT ![w].todo = {x \in Workers : registry[x].cur = call[w].task}]
    /\ Step(w, "release")
    /\ UNCHANGED <<setting, task, parked, registry, beatOld, told, unbooked, kills>>

ReleaseOne(w, x) ==
    /\ at[w] = "release" /\ x \in call[w].todo
    /\ call' = [call EXCEPT ![w].todo = @ \ {x}, ![w].worker = x, ![w].next = "release",
                            ![w].rec = [state |-> "idle", cur |-> None]]
    /\ Step(w, "append")
    /\ UNCHANGED <<setting, task, parked, registry, beatOld, told, unbooked, kills>>

ReleaseEnd(w) ==
    /\ at[w] = "release" /\ call[w].todo = {}
    /\ Step(w, "idle") /\ call' = [call EXCEPT ![w] = NoCall]
    /\ UNCHANGED <<setting, task, parked, registry, beatOld, told, unbooked, kills>>

\* The wrapper of w writes its heartbeat; or it does not for two minutes.
WorkerBeats(w) ==
    /\ w \in beatOld /\ beatOld' = beatOld \ {w}
    /\ UNCHANGED <<setting, task, parked, registry, at, call, told, unbooked, kills>>

BeatAges(w) ==
    /\ setting.ageing /\ w \notin beatOld /\ registry[w] # NoRecord
    /\ beatOld' = beatOld \cup {w}
    /\ UNCHANGED <<setting, task, parked, registry, at, call, told, unbooked, kills>>

\* A call that has typed a lease, and has not appended the record of its worker.
Booking(step, c) == step = "book" \/ (step = "append" /\ c.next = "beat")

Kill(p) ==
    /\ kills < setting.kills /\ at[p] # "idle"
    /\ kills' = kills + 1
    /\ unbooked' = unbooked \cup (IF p \in Loopds /\ Booking(at[p], call[p])
                                 THEN {<<call[p].task, call[p].lease>>} ELSE {})
    /\ Step(p, "idle") /\ call' = [call EXCEPT ![p] = NoCall]
    /\ UNCHANGED <<setting, task, parked, registry, beatOld, told>>

-----------------------------------------------------------------------------

Loopd(d) ==
    \/ DispatchBegin(d) \/ DispatchEnd(d) \/ Inject(d) \/ InjectFails(d)
    \/ EnterFails(d) \/ Book(d)
    \/ \E r \in Tasks : DispatchSkip(d, r) \/ \E w \in Workers : Select(d, r, w)
    \/ \E E \in Expirable : Claim(d, E) \/ RecoverEnd(d, E)
    \/ RecoverBegin(d) \/ \E w \in Workers : Judge(d, w)

Worker(w) ==
    \/ Launch(w) \/ LaunchIdle(w) \/ WorkerBeats(w) \/ BeatAges(w)
    \/ \E x \in told[w] : Settle(w, x[1], x[2]) \/ FailTransient(w, x[1], x[2])
    \/ ReleaseList(w) \/ ReleaseEnd(w) \/ \E x \in Workers : ReleaseOne(w, x)

DispatchNext ==
    \/ \E d \in Loopds : Loopd(d)
    \/ \E w \in Workers : Worker(w)
    \/ \E p \in Callers : AppendRecord(p) \/ Beat(p) \/ Kill(p)

DispatchSpec == DispatchInit /\ [][DispatchNext]_dispatchVars

-----------------------------------------------------------------------------
(* Properties *)

\* A worker the registry shows busy was told of the request it is shown with:
\* whoever folded, copied and appended its record in between, and whoever died.
BusyMeansTold ==
    \A w \in Workers : registry[w].state \in Busy =>
        \E lease \in 1..ClaimLimit : <<registry[w].cur, lease>> \in told[w]

\* loopd.py: "claim this exact request for the worker BEFORE injecting, so two
\* workers never collide": no lease is typed into two panes, however many
\* processes dispatch at once.
NoCollision ==
    \A v, w \in Workers : v # w => told[v] \cap told[w] = {}

\* As long as one process dispatches, at most one recovers and no fault is transient, a
\* request is typed into the pane of a worker that holds no other, whatever expires, grows
\* old or is killed.  The one exception is a lease whose call failed after it had typed it,
\* or was killed, before it booked the worker: the registry still shows that worker idle.
NotDoubleBooked ==
    [][\A d \in Loopds :
         /\ Tell(d) /\ ~setting.transient
         /\ Cardinality(setting.dispatch) = 1 /\ Cardinality(setting.recover) <= 1
         => Holds(call[d].worker) \subseteq unbooked]_dispatchVars
=============================================================================
