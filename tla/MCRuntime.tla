------------------------------- MODULE MCRuntime -------------------------------
(***************************************************************************)
(* Five components of the runtime that share no state, checked one at a    *)
(* time: a behaviour is a behaviour of one of them (part), and the others  *)
(* rest in one of their initial states.                                    *)
(***************************************************************************)
EXTENDS CompletionGuard, WorkerDispatch, MemorySync, RouteFloor, EpisodicIndex

CONSTANTS Parts, code, docs, clean, other, broken, marked, s1, s2, h1, h2,
          t1, t2, t3, w1, w2, d1, d2, r1, r2, c1, c2, b1, b2

VARIABLE part

-----------------------------------------------------------------------------
(* CompletionGuard: edits and checks against the ledger; two sessions and   *)
(* their debt; two hooks, a plan and the budget; one hook and its stalls.   *)

MCContents == [p \in {code, docs} |->
                 IF p = code THEN {clean, other, broken} ELSE {clean, marked}]
MCFlaw == [c \in {clean, other, broken, marked} |->
            CASE c = broken -> "syntax" [] c = marked -> "marker" [] OTHER -> "none"]
MCScene == [who |-> {s1, h1}, calls |-> 0, others |-> 0, prompts |-> 1, rows |-> 0, plan |-> 0,
            stops |-> 1, debt |-> FALSE, cont |-> FALSE, aging |-> FALSE, kinds |-> {"stop"}]
MCScenes ==
    {[MCScene EXCEPT !.calls = 2, !.others = 1],
     [MCScene EXCEPT !.who = {s1, s2, h1}, !.others = 2, !.prompts = 2,
                     !.debt = TRUE, !.aging = TRUE],
     [MCScene EXCEPT !.who = {s1, h1, h2}, !.plan = 2, !.stops = 4,
                     !.cont = TRUE, !.aging = TRUE, !.kinds = {"stop", "task"}],
     [MCScene EXCEPT !.prompts = 2, !.others = 1, !.rows = 1, !.plan = 1, !.stops = 4,
                     !.aging = TRUE, !.kinds = {"stop", "task"}]}

GuardRests ==
    scene = (CHOOSE x \in Scenes : TRUE) /\ GuardInit /\ tree = [p \in Paths |-> Committed]

-----------------------------------------------------------------------------
(* WorkerDispatch: transient faults; two workers and two requests, whose    *)
(* leases expire or whose heartbeats grow old; one request, and both; two   *)
(* dispatchers; and a request that is gated.  In all but the last two a     *)
(* process is killed.                                                       *)

MCSetting == [tasks |-> {t1}, up |-> {w1}, dispatch |-> {d1}, recover |-> {d2},
              ageing |-> FALSE, expiry |-> TRUE, transient |-> TRUE, kills |-> 1]
MCTwoByTwo == [MCSetting EXCEPT !.tasks = {t1, t2}, !.up = {w1, w2}, !.transient = FALSE]
MCSettings ==
    {MCSetting,
     MCTwoByTwo,
     [MCTwoByTwo EXCEPT !.ageing = TRUE, !.expiry = FALSE],
     [MCTwoByTwo EXCEPT !.tasks = {t1}, !.ageing = TRUE],
     [MCSetting EXCEPT !.dispatch = {d1, d2}, !.recover = {d1}, !.kills = 0],
     [MCTwoByTwo EXCEPT !.tasks = {t1, t2, t3}, !.recover = {}, !.expiry = FALSE, !.kills = 0]}

DispatchRests == setting = MCSetting /\ DispatchInit

-----------------------------------------------------------------------------
(* RouteFloor: a long series of one recorder; races of two, on two          *)
(* categories and on one.                                                   *)

MCBaseFloor == [c \in {c1, c2} |-> IF c = c1 THEN 1 ELSE 0]
MCSeries == [who |-> {r1}, cats |-> {c1}, outcomes |-> 8, kills |-> 0]
MCFloorScenes ==
    {MCSeries,
     [who |-> {r1, r2}, cats |-> {c1, c2}, outcomes |-> 3, kills |-> 0],
     [who |-> {r1, r2}, cats |-> {c1}, outcomes |-> 3, kills |-> 1]}

FloorRests == bounds = MCSeries /\ FloorInit

-----------------------------------------------------------------------------
(* EpisodicIndex: a long source and a kill; two calls and a kill; a source  *)
(* that shrinks; two calls and a source that shrinks.                       *)

MCExtent == [who |-> {b1}, events |-> 11, shrinks |-> 0, kills |-> 1]
MCIndexScenes ==
    {MCExtent,
     [who |-> {b1, b2}, events |-> 4, shrinks |-> 0, kills |-> 1],
     [who |-> {b1}, events |-> 4, shrinks |-> 2, kills |-> 1],
     [who |-> {b1, b2}, events |-> 3, shrinks |-> 1, kills |-> 0]}
MCTwoBuilders == {[who |-> {b1, b2}, events |-> 2, shrinks |-> 0, kills |-> 0]}

EpisodicRests == extent = (CHOOSE x \in IndexScenes : TRUE) /\ EpisodicInit

-----------------------------------------------------------------------------

MCInit ==
    /\ part \in Parts
    /\ IF part = "guard" THEN GuardInit ELSE GuardRests
    /\ IF part = "dispatch" THEN DispatchInit ELSE DispatchRests
    /\ SyncInit
    /\ IF part = "floor" THEN FloorInit ELSE FloorRests
    /\ IF part = "episodic" THEN EpisodicInit ELSE EpisodicRests

GuardPart ==
    /\ part = "guard" /\ GuardNext
    /\ UNCHANGED <<part, dispatchVars, syncVars, floorVars, episodicVars>>
DispatchPart ==
    /\ part = "dispatch" /\ DispatchNext
    /\ UNCHANGED <<part, guardVars, syncVars, floorVars, episodicVars>>
SyncPart ==
    /\ part = "sync" /\ SyncNext
    /\ UNCHANGED <<part, guardVars, dispatchVars, floorVars, episodicVars>>
FloorPart ==
    /\ part = "floor" /\ FloorNext
    /\ UNCHANGED <<part, guardVars, dispatchVars, syncVars, episodicVars>>
EpisodicPart ==
    /\ part = "episodic" /\ EpisodicNext
    /\ UNCHANGED <<part, guardVars, dispatchVars, syncVars, floorVars>>

MCNext == GuardPart \/ DispatchPart \/ SyncPart \/ FloorPart \/ EpisodicPart

MCSpec ==
    MCInit /\ [][MCNext]_<<part, guardVars, dispatchVars, syncVars, floorVars, episodicVars>>
=============================================================================
