---------------------------- MODULE CompletionGuard ----------------------------
(***************************************************************************)
(* The Stop guard of completion_guard.py with the plan continuation and    *)
(* the budget of loop_continuation.py, as the hook handler calls them.     *)
(*                                                                         *)
(* Tools edit files and run checks; a post-tool hook, later and in any     *)
(* order, enters each call in the ledger of its session.  When the model   *)
(* stops, the hook reads the tree and the ledger without a lock, and then  *)
(* takes the lock of the state file for the stall row, and another one for *)
(* the budget, before it refuses the stop.  Hooks are processes of their   *)
(* own, so those of a session and of its subagents interleave.             *)
(***************************************************************************)
EXTENDS Naturals, Sequences, FiniteSets, SequencesExt

CONSTANTS
    Sessions,
    Hooks,              \* hook processes that handle a stop
    CodePaths, DocPaths,
    Contents,           \* Contents[p]: what file p may hold
    Committed,          \* what every file holds in the last commit
    Flaw,               \* Flaw[c]: the unfinished work content c shows
    MaxStall,           \* MAX_STALL_REPEATS
    MaxContinuations,   \* MAX_CONTINUATIONS
    BaselineCap,        \* baselines kept, 8 in the code
    Scenes,             \* bounds: each behaviour keeps to those of one scene
    Nobody

Paths == CodePaths \cup DocPaths
LineFlaws == {"conflict", "marker"}    \* recognised in a baseline by their line
Flaws == LineFlaws \cup {"syntax", "none"}
Levels == 1..2      \* git diff --check; static checks and tests, which no rule tells apart

AllContents == UNION {Contents[p] : p \in Paths}

ASSUME GuardContentsAssumption ==
    /\ DOMAIN Contents = Paths /\ \A p \in Paths : Committed \in Contents[p]
    /\ Flaw \in [AllContents -> Flaws] /\ Flaw[Committed] = "none"

ASSUME GuardLimitsAssumption ==
    MaxStall \in Nat \ {0} /\ MaxContinuations \in Nat /\ BaselineCap \in Nat \ {0}

\* Who takes part, and what happens at most: tool calls, edits by others, user requests,
\* rows of the acceptance ledger, steps of the plan, stops; and whether the tree may
\* differ from the last commit at first, plans are continued (AI_LOOP_CONTINUATION),
\* time passes, and which stops there are.
ASSUME GuardScenesAssumption ==
    Scenes \subseteq [who : SUBSET (Sessions \cup Hooks),
                      calls : Nat, others : Nat, prompts : Nat, rows : Nat,
                      plan : Nat, stops : Nat, debt : BOOLEAN, cont : BOOLEAN,
                      aging : BOOLEAN, kinds : SUBSET {"stop", "task"}]

\* What a binding of some files may be, and a row of the ledger.
Bindings == UNION {[P -> AllContents] : P \in SUBSET Paths}
Rows == [seq : Nat, mut : Nat, scope : {"docs", "code"}, paths : SUBSET Paths,
         binding : Bindings, complete : BOOLEAN, ver : Nat, level : {0} \cup Levels,
         proof : Bindings]

ASSUME GuardNamesAssumption ==
    /\ Nobody \notin Sessions \cup AllContents \cup Rows /\ CodePaths \cap DocPaths = {}
    /\ IsFiniteSet(Hooks)

VARIABLES
    scene,      \* the scene of this behaviour
    tree,       \* tree[p]: the content of p in the working tree
    planDone,   \* steps of the plan that are checked
    accRows,    \* the acceptance ledger: TRUE is a batch that passed
    calls,      \* tool calls whose post-tool hook has not run yet
    made,       \* how many calls, edits by others, requests and stops there were
    ledger,     \* ledger[s]: activities[s], or Nobody
    baselines,  \* the stored baselines, each with its session
    stall,      \* stall[s]: the last fingerprint and how often it came
    budget,     \* budget[s]: continuations since the reset, and the cap notice
    degraded,   \* degraded[s]: the notice of an uncertified release
    prompt,     \* prompt[s]: how far begin_request got, and what it captured
    gpc, gop,   \* stage and local variables of each hook process
    shown,      \* history: shown[s]: the edits observed in the request, and the
                \* checks observed since the last of them
    atStart,    \* history: atStart[s]: the tree when the request began
    refused     \* history: refused[s]: stops refused since the budget was reset (n),
                \* those in a row on the same evidence (sig, same) since the request
                \* began, and the hooks that were past their stall row by then (before)

treeVars == <<scene, planDone, accRows>>
stateVars == <<ledger, baselines, stall, budget, degraded>>
hookVars == <<prompt, gpc, gop>>
historyVars == <<shown, atStart, refused>>
guardVars == <<treeVars, tree, calls, made, stateVars, hookVars, historyVars>>

NoFingerprint == [kind |-> "none", path |-> Nobody, ev |-> Nobody]
NoStall == [fp |-> NoFingerprint, n |-> 0]
NoBudget == [n |-> 0, notice |-> "none"]
NothingShown == [n |-> 0, edits |-> {}, scope |-> "docs", checks |-> {}]
NothingRefused == [n |-> 0, sig |-> NoFingerprint, same |-> 0, before |-> {}]
EmptyRow == [seq |-> 0, mut |-> 0, scope |-> "code", paths |-> {}, binding |-> <<>>,
             complete |-> TRUE, ver |-> 0, level |-> 0, proof |-> <<>>]
NoHook == [sess |-> Nobody, kind |-> "stop", src |-> "guard",
           sig |-> NoFingerprint, how |-> "none"]

GuardInit ==
    /\ scene \in Scenes
    /\ tree \in {f \in [Paths -> AllContents] :
                   \A p \in Paths : f[p] \in IF scene.debt THEN Contents[p] ELSE {Committed}}
    /\ planDone = 0 /\ accRows = <<>>
    /\ calls = {} /\ made = [calls |-> 0, others |-> 0, prompts |-> 0, stops |-> 0]
    /\ ledger = [s \in Sessions |-> Nobody]
    /\ baselines = {}
    /\ stall = [s \in Sessions |-> NoStall]
    /\ budget = [s \in Sessions |-> NoBudget]
    /\ degraded = [s \in Sessions |-> "none"]
    /\ prompt = [s \in Sessions |-> Nobody]
    /\ gpc = [h \in Hooks |-> "idle"]
    /\ gop = [h \in Hooks |-> NoHook]
    /\ shown = [s \in Sessions |-> NothingShown]
    /\ atStart = [s \in Sessions |-> tree]
    /\ refused = [s \in Sessions |-> NothingRefused]

-----------------------------------------------------------------------------
(* The evidence in the tree *)

Touched == {p \in Paths : tree[p] # Committed}

\* Code is what a Python parser reads: only there is broken syntax looked for.
Flawed(kind) == {p \in Touched : Flaw[tree[p]] = kind /\ (kind = "syntax" => p \in CodePaths)}

Remaining == scene.plan - planDone > 0

Bug_BaselineWithoutSyntax ==
    [lines |-> {x \in LineFlaws \X Paths : x[2] \in Flawed(x[1])},
     syntax |-> <<>>,
     plan |-> IF Remaining THEN planDone ELSE Nobody,
     offset |-> Len(accRows), ts |-> made.prompts, old |-> FALSE]

\* _capture_request_baseline: the debt there is before the request.  A conflict
\* or a marker is known again by its line, broken syntax by the whole file.
Baseline ==
    [lines |-> {x \in LineFlaws \X Paths : x[2] \in Flawed(x[1])},
     syntax |-> [p \in Flawed("syntax") |-> tree[p]],
     plan |-> IF Remaining THEN planDone ELSE Nobody,
     offset |-> Len(accRows), ts |-> made.prompts, old |-> FALSE]

Known(base, kind, p) ==
    IF kind = "syntax" THEN p \in DOMAIN base.syntax /\ base.syntax[p] = tree[p]
                       ELSE <<kind, p>> \in base.lines

FlawSignals(base) ==
    {[kind |-> x[1], path |-> x[2], ev |-> tree[x[2]]] :
        x \in {x \in (Flaws \ {"none"}) \X Paths :
                 x[2] \in Flawed(x[1]) /\ ~Known(base, x[1], x[2])}}

PlanSignals(base, src) ==
    IF Remaining /\ base.plan # planDone
    THEN {[kind |-> "plan", path |-> src, ev |-> planDone]} ELSE {}

AcceptanceSignals(base) ==
    IF Len(accRows) > base.offset /\ ~Last(accRows)
    THEN {[kind |-> "acceptance", path |-> Nobody, ev |-> Nobody]} ELSE {}

Binding(P) == [p \in P |-> tree[p]]

Required(scope) == IF scope = "code" THEN 2 ELSE 1

Bug_ProvedByAnyTree(row) == row.ver >= row.mut /\ row.level >= Required(row.scope)

\* The last check is not older than the last edit, strong enough for it, and
\* bound to what the edited files hold now.
Proved(row) ==
    /\ row.ver >= row.mut /\ row.level >= Required(row.scope)
    /\ Binding(row.paths) = row.binding /\ row.binding = row.proof

VerificationSignals(row) ==
    IF row # Nobody /\ row.mut > 0 /\ row.complete /\ ~Proved(row)
    THEN {[kind |-> "verification", path |-> Nobody, ev |-> row.mut]} ELSE {}

Unbindable(row) == row # Nobody /\ row.mut > 0 /\ ~row.complete

Rank(sig) == CASE sig.kind = "plan" -> 1 [] sig.kind = "conflict" -> 2
               [] sig.kind = "syntax" -> 3 [] sig.kind = "marker" -> 4
               [] sig.kind = "verification" -> 5 [] sig.kind = "acceptance" -> 6

First(S) == CHOOSE x \in S : \A y \in S : Rank(x) <= Rank(y)

-----------------------------------------------------------------------------
(* Everybody who works in the tree *)

OutsideEdit(p, c) ==
    /\ tree[p] # c
    /\ made.others < scene.others /\ made' = [made EXCEPT !.others = @ + 1]
    /\ tree' = [tree EXCEPT ![p] = c]
    /\ UNCHANGED <<treeVars, calls, stateVars, hookVars, historyVars>>

\* A call edits a file (p), or runs a check (level, 0 when it failed), or does
\* both in one shell command; the payload may not tell which file it was.
ToolRuns(s, p, c, told, level) ==
    /\ made.calls < scene.calls /\ made' = [made EXCEPT !.calls = @ + 1]
    /\ s \in scene.who /\ ledger[s] # Nobody /\ prompt[s] = Nobody
    /\ p # Nobody => tree[p] # c
    /\ tree' = IF p = Nobody THEN tree ELSE [tree EXCEPT ![p] = c]
    /\ calls' = calls \cup
         {[sess |-> s, edit |-> p # Nobody, level |-> level, id |-> made.calls,
           paths |-> IF told /\ p # Nobody THEN {p} ELSE {}]}
    /\ UNCHANGED <<treeVars, stateVars, hookVars, historyVars>>

AcceptanceRuns(pass) ==
    /\ Len(accRows) < scene.rows
    /\ accRows' = Append(accRows, pass)
    /\ UNCHANGED <<scene, planDone, tree, calls, made, stateVars, hookVars, historyVars>>

PlanMarked ==
    /\ planDone < scene.plan /\ planDone' = planDone + 1
    /\ UNCHANGED <<scene, accRows, tree, calls, made, stateVars, hookVars, historyVars>>

-----------------------------------------------------------------------------
(* observe_tool_event, in the post-tool hook of a call *)

Scope(P) == IF P # {} /\ P \subseteq DocPaths THEN "docs" ELSE "code"

Mutated(row, call) ==
    LET paths == row.paths \cup call.paths IN
    [row EXCEPT !.mut = row.seq, !.scope = Scope(call.paths), !.paths = paths,
                !.binding = Binding(paths), !.complete = row.complete /\ paths # {}]

Checked(row, call) ==
    IF row.complete /\ row.paths # {} /\ Binding(row.paths) = row.binding
    THEN [row EXCEPT !.ver = row.seq, !.level = call.level, !.proof = row.binding]
    ELSE row

ToolObserved(call) ==
    /\ call \in calls
    /\ LET s == call.sess
           old == IF ledger[s] = Nobody THEN EmptyRow ELSE ledger[s]
           next == [old EXCEPT !.seq = @ + 1]
           mutated == IF call.edit THEN Mutated(next, call) ELSE next
           proved == call.level > 0
       IN /\ ledger' = [ledger EXCEPT ![s] = IF proved THEN Checked(mutated, call) ELSE mutated]
          /\ shown' = [shown EXCEPT ![s] =
               [n |-> IF call.edit THEN @.n + 1 ELSE @.n,
                edits |-> @.edits \cup call.paths,
                scope |-> IF call.edit THEN Scope(call.paths) ELSE @.scope,
                checks |-> (IF call.edit THEN {} ELSE @.checks) \cup
                             (IF proved THEN {[level |-> call.level,
                                               of |-> Binding(@.edits \cup call.paths)]}
                                        ELSE {})]]
    /\ calls' = calls \ {call}
    /\ UNCHANGED <<treeVars, tree, made, baselines, stall, budget, degraded, prompt, gpc,
                   gop, atStart, refused>>

-----------------------------------------------------------------------------
(* UserPromptSubmit: begin_request captures the debt, then stores it and    *)
(* drops the rows of the request before; reset_counter clears the budget.   *)

PromptCapture(s) ==
    /\ s \in scene.who /\ prompt[s] = Nobody
    /\ made.prompts < scene.prompts /\ made' = [made EXCEPT !.prompts = @ + 1]
    /\ prompt' = [prompt EXCEPT ![s] = [stage |-> "store", base |-> Baseline, tree |-> tree]]
    /\ UNCHANGED <<treeVars, tree, calls, stateVars, gpc, gop, shown, atStart, refused>>

\* The baseline captured first, not the one stored first, gives way.
Newest(B) ==
    IF Cardinality(B) > BaselineCap
    THEN {b \in B : \E x \in B : x.base.ts < b.base.ts} ELSE B

PromptStore(s) ==
    /\ prompt[s] # Nobody /\ prompt[s].stage = "store"
    /\ baselines' = Newest({b \in baselines : b.sess # s}
                           \cup {[sess |-> s, base |-> prompt[s].base]})
    /\ stall' = [stall EXCEPT ![s] = NoStall]
    /\ ledger' = [ledger EXCEPT ![s] = EmptyRow]
    /\ degraded' = [degraded EXCEPT ![s] = "none"]
    /\ prompt' = [prompt EXCEPT ![s].stage = "reset"]
    /\ shown' = [shown EXCEPT ![s] = NothingShown]
    /\ atStart' = [atStart EXCEPT ![s] = prompt[s].tree]
    /\ refused' = [refused EXCEPT
         ![s] = [n |-> @.n, sig |-> NoFingerprint, same |-> 0,
                 before |-> {h \in Hooks : gpc[h] = "bump" /\ gop[h].sess = s}]]
    /\ UNCHANGED <<treeVars, tree, calls, made, budget, gpc, gop>>

PromptReset(s) ==
    /\ prompt[s] # Nobody /\ prompt[s].stage = "reset"
    /\ budget' = [budget EXCEPT ![s] = NoBudget]
    /\ refused' = [refused EXCEPT ![s] = [NothingRefused EXCEPT !.before = refused[s].before]]
    /\ prompt' = [prompt EXCEPT ![s] = Nobody]
    /\ UNCHANGED <<treeVars, tree, calls, made, ledger, baselines, stall, degraded, gpc,
                   gop, shown, atStart>>

\* Thirty minutes pass: baselines expire in the order they were captured.
BaselineExpires ==
    /\ scene.aging
    /\ \E b \in baselines :
        /\ ~b.base.old /\ \A x \in baselines : x.base.ts < b.base.ts => x.base.old
        /\ baselines' = (baselines \ {b}) \cup {[b EXCEPT !.base.old = TRUE]}
        /\ UNCHANGED <<treeVars, tree, calls, made, ledger, stall, budget, degraded,
                       hookVars, historyVars>>

-----------------------------------------------------------------------------
(* Stop and its kin ("stop"), TaskCompleted and its kin ("task") *)

GuardGoto(h, stage) == gpc' = [gpc EXCEPT ![h] = stage]

\* Context pressure, a host's terminal stop or a wait for the user (rail) lets
\* the turn end before anything is read.
StopBegin(h, s, kind, rail) ==
    /\ {h, s} \subseteq scene.who /\ kind \in scene.kinds
    /\ gpc[h] = "idle" /\ ledger[s] # Nobody
    /\ made.stops < scene.stops /\ made' = [made EXCEPT !.stops = @ + 1]
    /\ gop' = [gop EXCEPT ![h] = [NoHook EXCEPT !.sess = s, !.kind = kind,
                                    !.how = IF rail THEN "rail" ELSE "none"]]
    /\ GuardGoto(h, IF rail THEN "end"
                   ELSE IF scene.cont /\ kind = "stop" THEN "cont" ELSE "guard")
    /\ UNCHANGED <<treeVars, tree, calls, stateVars, prompt, shown, atStart, refused>>

BaselineOf(s) ==
    LET mine == {b \in baselines : b.sess = s /\ ~b.base.old}
    IN IF mine = {} THEN Nobody ELSE (CHOOSE b \in mine : TRUE).base

\* continuation_directive, up to the locks.
ContinuationReads(h) ==
    /\ gpc[h] = "cont"
    /\ LET base == BaselineOf(gop[h].sess)
           found == IF base = Nobody THEN {} ELSE PlanSignals(base, "continuation")
       IN /\ GuardGoto(h, IF found = {} THEN "guard" ELSE "stall")
          /\ gop' = IF found = {} THEN gop
                    ELSE [gop EXCEPT ![h].src = "continuation", ![h].sig = First(found)]
    /\ UNCHANGED <<treeVars, tree, calls, made, stateVars, prompt, shown, atStart, refused>>

\* guard_directive, up to the locks: the baseline, then detect.
GuardReads(h) ==
    /\ gpc[h] = "guard"
    /\ LET s == gop[h].sess
           base == BaselineOf(s)
           found == IF base = Nobody THEN {}
                    ELSE (IF gop[h].kind = "stop" THEN PlanSignals(base, "guard") ELSE {})
                         \cup FlawSignals(base) \cup VerificationSignals(ledger[s])
                         \cup AcceptanceSignals(base)
           uncertain == base = Nobody \/ Unbindable(ledger[s])
       IN /\ GuardGoto(h, IF found # {} THEN "stall" ELSE IF uncertain THEN "note" ELSE "end")
          /\ gop' = [gop EXCEPT ![h].src = "guard",
                       ![h].sig = IF found = {} THEN NoFingerprint ELSE First(found),
                       ![h].how = IF found # {} THEN "none"
                                  ELSE IF uncertain THEN "degraded" ELSE "clean"]
    /\ UNCHANGED <<treeVars, tree, calls, made, stateVars, prompt, shown, atStart, refused>>

\* _record_degraded_notice
NoteDegraded(h) ==
    /\ gpc[h] = "note"
    /\ degraded' = [degraded EXCEPT ![gop[h].sess] = "pending"]
    /\ GuardGoto(h, "end")
    /\ UNCHANGED <<treeVars, tree, calls, made, ledger, baselines, stall, budget, prompt,
                   gop, shown, atStart, refused>>

\* Where a directive that gives up leaves the handler.
GiveUp(h, how) ==
    IF gop[h].src = "continuation" THEN GuardGoto(h, "guard") /\ UNCHANGED gop
    ELSE GuardGoto(h, "end") /\ gop' = [gop EXCEPT ![h].how = how]

Least(a, b) == IF a < b THEN a ELSE b

SameEvidence(a, b) ==
    a.kind = b.kind /\ a.ev = b.ev /\ (a.kind = "plan" \/ a.path = b.path)

Bug_Yields(n) == n > MaxStall + 1

Yields(n) == n > MaxStall

\* _stall_attempt.  The count is kept up to MaxStall + 2: it decides no more than MaxStall + 1.
Stall(h) ==
    /\ gpc[h] = "stall"
    /\ LET s == gop[h].sess
           n == IF stall[s].fp # gop[h].sig THEN 1 ELSE Least(stall[s].n + 1, MaxStall + 2)
       IN /\ stall' = [stall EXCEPT ![s] = [fp |-> gop[h].sig, n |-> n]]
          /\ IF Yields(n) THEN GiveUp(h, "stall") ELSE GuardGoto(h, "bump") /\ UNCHANGED gop
    /\ UNCHANGED <<treeVars, tree, calls, made, ledger, baselines, budget, degraded,
                   prompt, shown, atStart, refused>>

Bug_CapReached(s, late) == budget[s].n > MaxContinuations \/ late

CapReached(s, late) == budget[s].n >= MaxContinuations \/ late

\* One more refusal in the history of a session, on the evidence h has found.
Refusal(old, h) ==
    LET sig == gop[h].sig IN
    IF h \in old.before THEN [old EXCEPT !.n = @ + 1, !.before = @ \ {h}]
    ELSE [old EXCEPT !.n = @ + 1, !.sig = sig,
                     !.same = IF SameEvidence(old.sig, sig) THEN @ + 1 ELSE 1]

\* _bump_counter: within the cap, and (late) half an hour, the stop is refused; once it
\* was too late it stays so, first_ts is kept.
Bump(h, late) ==
    /\ gpc[h] = "bump"
    /\ LET s == gop[h].sess IN
       /\ late => scene.aging /\ budget[s].n > 0
       /\ budget[s].notice # "none" => CapReached(s, late)
       /\ IF CapReached(s, late)
          THEN /\ budget' = [budget EXCEPT ![s].notice = "pending"]
               /\ GiveUp(h, "cap")
               /\ refused' = [refused EXCEPT ![s].before = @ \ {h}]
          ELSE /\ budget' = [budget EXCEPT ![s] = [n |-> @.n + 1, notice |-> "none"]]
               /\ refused' = [refused EXCEPT ![s] = Refusal(@, h)]
               /\ GuardGoto(h, "idle") /\ gop' = [gop EXCEPT ![h] = NoHook]
    /\ UNCHANGED <<treeVars, tree, calls, made, ledger, baselines, stall, degraded,
                   prompt, shown, atStart>>

\* The turn ends; a stop hands out the pending notices once.
LetGo(h) ==
    /\ gpc[h] = "end"
    /\ LET s == gop[h].sess
           tell(notice) == IF notice = "pending" /\ gop[h].kind = "stop"
                           THEN "emitted" ELSE notice
       IN /\ budget' = [budget EXCEPT ![s].notice = tell(@)]
          /\ degraded' = [degraded EXCEPT ![s] = tell(@)]
    /\ GuardGoto(h, "idle") /\ gop' = [gop EXCEPT ![h] = NoHook]
    /\ UNCHANGED <<treeVars, tree, calls, made, ledger, baselines, stall, prompt, shown,
                   atStart, refused>>

-----------------------------------------------------------------------------

Hook(h) ==
    \/ ContinuationReads(h) \/ GuardReads(h) \/ NoteDegraded(h) \/ Stall(h) \/ LetGo(h)
    \/ \E late \in BOOLEAN : Bump(h, late)

GuardNext ==
    \/ \E p \in Paths : \E c \in Contents[p] : OutsideEdit(p, c)
    \/ \E s \in Sessions, p \in Paths, told \in BOOLEAN, level \in {0} \cup Levels :
         \E c \in Contents[p] : ToolRuns(s, p, c, told, level)
    \/ \E s \in Sessions, level \in {0} \cup Levels : ToolRuns(s, Nobody, Nobody, FALSE, level)
    \/ \E pass \in BOOLEAN : AcceptanceRuns(pass)
    \/ PlanMarked
    \/ \E call \in calls : ToolObserved(call)
    \/ \E s \in Sessions : PromptCapture(s) \/ PromptStore(s) \/ PromptReset(s)
    \/ BaselineExpires
    \/ \E h \in Hooks, s \in Sessions, kind \in {"stop", "task"}, rail \in BOOLEAN :
         StopBegin(h, s, kind, rail)
    \/ \E h \in Hooks : Hook(h)

GuardSpec == GuardInit /\ [][GuardNext]_guardVars

-----------------------------------------------------------------------------
(* Properties *)

\* A stop is let go as finished after observed edits only if all the files these
\* edits named hold what they held when a check that passed was reported, after
\* the last of the edits and strong enough for it: whatever ran at the same
\* time, in other sessions too, and in whatever order the hooks came.
CleanMeansChecked ==
    [][\A h \in Hooks : LET s == gop[h].sess IN
         GuardReads(h) /\ gop'[h].how = "clean" /\ shown[s].n > 0 =>
            \E check \in shown[s].checks :
                /\ check.level >= Required(shown[s].scope)
                /\ \A p \in shown[s].edits : check.of[p] = tree[p]]_guardVars

\* Nobody is held back for a flaw in a file that holds what it held when the
\* request began, also when several sessions begin, expire and evict each
\* other's baselines.
OldDebtNotBlamed ==
    [][\A h \in Hooks : LET sig == gop'[h].sig IN
         GuardReads(h) /\ sig.kind \in Flaws \ {"none"} =>
            atStart[gop[h].sess][sig.path] # sig.ev]_guardVars

\* A request is refused its stop at most MAX_CONTINUATIONS times, however the
\* evidence changes between the stops and however many hooks ask at once.
BudgetHolds == \A s \in Sessions : refused[s].n <= MaxContinuations

\* completion_guard.py: "if the same signal fingerprint repeats with an
\* unchanged tree for MAX_STALL_REPEATS blocks, yield": the same evidence refuses at
\* most MaxStall stops in a row, when one hook runs at a time and plans are not continued
\* (both directives keep their own fingerprint in the one row and reset each other).  A
\* stop that was past its stall row when the next request began counts for the old one.
StallYields ==
    ~scene.cont /\ Cardinality(scene.who \cap Hooks) <= 1 =>
        \A s \in Sessions : refused[s].same <= MaxStall
=============================================================================
