------------------------- MODULE CompletionGuardProofs -------------------------
(***************************************************************************)
(* What the completion guard keeps, for any number of sessions, hooks,     *)
(* files, calls and stops: the budget of refusals, that a clean stop rests *)
(* on a check of the files as they are, that old debt is nobody's fault,   *)
(* and that the same evidence does not hold a request back for ever.  The  *)
(* first three hold for hooks that interleave in any way; the last one for *)
(* one hook at a time, which is as far as the code keeps it.               *)
(***************************************************************************)
EXTENDS CompletionGuard, FiniteSetTheorems, TLAPS

\* The counter of a session is the number of stops refused since its reset: a hook
\* refuses in the step that counts, and a reset clears both.  BudgetHolds alone is not
\* inductive, because the guard reads the counter and not the refusals.
RefusedShape(old) == {"n", "sig", "same", "before"} \subseteq DOMAIN old

BudgetInv ==
    /\ budget \in [Sessions -> [n : Nat, notice : {"none", "pending", "emitted"}]]
    /\ refused = [s \in Sessions |-> refused[s]]
    /\ \A s \in Sessions : /\ budget[s].n <= MaxContinuations /\ refused[s].n = budget[s].n
                           /\ RefusedShape(refused[s])

LEMMA BudgetInvInit == GuardInit => BudgetInv
BY GuardLimitsAssumption DEF GuardInit, BudgetInv, RefusedShape, NoBudget, NothingRefused

LEMMA RefusalShape ==
    ASSUME NEW old, NEW h, RefusedShape(old)
    PROVE  RefusedShape(Refusal(old, h)) /\ Refusal(old, h).n = old.n + 1
BY DEF Refusal, RefusedShape

LEMMA BudgetInvStep == BudgetInv /\ [GuardNext]_guardVars => BudgetInv'
<1> SUFFICES ASSUME BudgetInv, [GuardNext]_guardVars PROVE BudgetInv'
  OBVIOUS
<1> USE DEF BudgetInv
<1>1. ASSUME NEW h \in Hooks, NEW late \in BOOLEAN, Bump(h, late) PROVE BudgetInv'
  <2> DEFINE s == gop[h].sess
  <2>1. CASE CapReached(s, late)
    <3> DEFINE new == [refused[s] EXCEPT !.before = @ \ {h}]
    <3>1. /\ refused' = [refused EXCEPT ![s] = new]
          /\ budget' = [budget EXCEPT ![s].notice = "pending"]
      BY <1>1, <2>1 DEF Bump
    <3>2. s \in Sessions => RefusedShape(new) /\ new.n = refused[s].n
      BY DEF RefusedShape
    <3> HIDE DEF new, s
    <3> QED BY <3>1, <3>2
  <2>2. CASE ~CapReached(s, late)
    <3> DEFINE new == Refusal(refused[s], h)
    <3>1. ~(budget[s].n >= MaxContinuations)
      BY <2>2 DEF CapReached
    <3>2. refused' = [refused EXCEPT ![s] = new]
      BY <1>1, <2>2 DEF Bump
    <3>3. budget' = [budget EXCEPT ![s] = [n |-> @.n + 1, notice |-> "none"]]
      BY <1>1, <2>2 DEF Bump
    <3>4. s \in Sessions => RefusedShape(new) /\ new.n = refused[s].n + 1
      BY RefusalShape
    <3> HIDE DEF s, new
    <3>5. CASE s \in Sessions
      <4>1. budget[s].n \in Nat /\ MaxContinuations \in Nat
        BY <3>5, GuardLimitsAssumption
      <4>2. budget' = [t \in Sessions |-> IF t = s THEN [n |-> budget[s].n + 1, notice |-> "none"]
                                          ELSE budget[t]]
        BY <3>3, <3>5
      <4>3. refused' = [t \in Sessions |-> IF t = s THEN new ELSE refused[t]]
        BY <3>2, <3>5
      <4>4. \A t \in Sessions : /\ budget'[t].n <= MaxContinuations
                               /\ refused'[t].n = budget'[t].n /\ RefusedShape(refused'[t])
        BY <3>1, <3>4, <3>5, <4>1, <4>2, <4>3
      <4>5. budget' \in [Sessions -> [n : Nat, notice : {"none", "pending", "emitted"}]]
        BY <4>1, <4>2
      <4> QED BY <4>3, <4>4, <4>5
    <3>6. CASE s \notin Sessions
      BY <3>2, <3>3, <3>6
    <3> QED BY <3>5, <3>6
  <2> QED BY <2>1, <2>2
<1>2. ASSUME NEW h \in Hooks, LetGo(h) PROVE BudgetInv'
  <2> DEFINE s == gop[h].sess
             tell(notice) == IF notice = "pending" /\ gop[h].kind = "stop" THEN "emitted"
                             ELSE notice
             told == tell(budget[s].notice)
  <2>1. refused' = refused /\ budget' = [budget EXCEPT ![s].notice = tell(@)]
    BY <1>2, Zenon DEF LetGo
  <2>2. s \in Sessions => told \in {"none", "pending", "emitted"}
    OBVIOUS
  <2>3. budget' = [budget EXCEPT ![s].notice = told]
    BY <2>1
  <2> HIDE DEF s, told
  <2>4. CASE s \in Sessions
    <3>1. budget' = [t \in Sessions |->
                       IF t = s THEN [budget[s] EXCEPT !.notice = told] ELSE budget[t]]
      BY <2>3, <2>4
    <3>2. /\ [budget[s] EXCEPT !.notice = told].n = budget[s].n
          /\ [budget[s] EXCEPT !.notice = told]
               \in [n : Nat, notice : {"none", "pending", "emitted"}]
      BY <2>2, <2>4
    <3> QED BY <2>1, <3>1, <3>2, ZenonT(30)
  <2>5. CASE s \notin Sessions
    BY <2>1, <2>3, <2>5
  <2> QED BY <2>4, <2>5
<1>3. ASSUME NEW s \in Sessions, PromptReset(s) PROVE BudgetInv'
  <2> DEFINE new == [NothingRefused EXCEPT !.before = refused[s].before]
  <2>1. RefusedShape(new) /\ new.n = 0
    BY DEF RefusedShape, NothingRefused
  <2>2. budget' = [budget EXCEPT ![s] = NoBudget] /\ refused' = [refused EXCEPT ![s] = new]
    BY <1>3 DEF PromptReset
  <2> HIDE DEF new
  <2> QED BY <2>1, <2>2, GuardLimitsAssumption DEF NoBudget
<1>4. ASSUME UNCHANGED <<budget, refused>> PROVE BudgetInv'
  BY <1>4
<1>5. ASSUME NEW h \in Hooks, Hook(h) PROVE BudgetInv'
  <2>1. ASSUME \/ ContinuationReads(h) \/ GuardReads(h) \/ NoteDegraded(h) \/ Stall(h)
        PROVE  UNCHANGED <<budget, refused>>
    BY <2>1 DEF ContinuationReads, GuardReads, NoteDegraded, Stall, stateVars
  <2> QED BY <1>1, <1>2, <1>4, <1>5, <2>1 DEF Hook
<1>6. ASSUME \/ \E p \in Paths : \E c \in Contents[p] : OutsideEdit(p, c)
             \/ \E s, p, c, told, level : ToolRuns(s, p, c, told, level)
             \/ \E pass : AcceptanceRuns(pass)
             \/ PlanMarked
             \/ \E toolCall \in calls : ToolObserved(toolCall)
             \/ \E s \in Sessions : PromptCapture(s)
             \/ BaselineExpires
             \/ \E h \in Hooks, s \in Sessions : \E kind, rail : StopBegin(h, s, kind, rail)
             \/ UNCHANGED guardVars
      PROVE  UNCHANGED <<budget, refused>>
  BY <1>6 DEF OutsideEdit, ToolRuns, AcceptanceRuns, PlanMarked, ToolObserved, PromptCapture,
     BaselineExpires, StopBegin, guardVars, stateVars, historyVars
<1>7. ASSUME NEW s \in Sessions, PromptStore(s) PROVE BudgetInv'
  <2> DEFINE new == [n |-> refused[s].n, sig |-> NoFingerprint, same |-> 0,
                     before |-> {h \in Hooks : gpc[h] = "bump" /\ gop[h].sess = s}]
  <2>1. refused' = [refused EXCEPT ![s] = new] /\ budget' = budget
    BY <1>7 DEF PromptStore
  <2>2. RefusedShape(new) /\ new.n = refused[s].n
    BY DEF RefusedShape
  <2> HIDE DEF new
  <2> QED BY <2>1, <2>2
<1> QED BY <1>3, <1>4, <1>5, <1>6, <1>7 DEF GuardNext

-----------------------------------------------------------------------------

\* No request is refused its stop more than MAX_CONTINUATIONS times: any number of hooks
\* of a session and its subagents may ask at once, on evidence that changes all the time.
THEOREM BudgetBounded == GuardSpec => []BudgetHolds
<1>1. BudgetInv => BudgetHolds
  BY DEF BudgetInv, BudgetHolds
<1> QED BY <1>1, BudgetInvInit, BudgetInvStep, PTL DEF GuardSpec

-----------------------------------------------------------------------------
(* The hooks: whose stop they handle. *)

\* A hook that runs works for a session of its own scene.
HookInv ==
    /\ gpc = [h \in Hooks |-> gpc[h]] /\ gop = [h \in Hooks |-> gop[h]]
    /\ \A h \in Hooks :
         /\ {"sess", "kind", "src", "sig", "how"} \subseteq DOMAIN gop[h]
         /\ gpc[h] # "idle" => gop[h].sess \in Sessions /\ h \in scene.who

HookShape(o) == {"sess", "kind", "src", "sig", "how"} \subseteq DOMAIN o

LEMMA HookInit == GuardInit => HookInv
BY DEF GuardInit, HookInv, NoHook

LEMMA HookGoes ==
    ASSUME HookInv, scene' = scene, NEW h \in Hooks, NEW stage, NEW o,
           gpc' = [gpc EXCEPT ![h] = stage], gop' = [gop EXCEPT ![h] = o], HookShape(o),
           stage # "idle" => o.sess \in Sessions /\ h \in scene.who
    PROVE  HookInv'
<1>1. /\ gpc'[h] = stage /\ gop'[h] = o
      /\ \A g \in Hooks \ {h} : gpc'[g] = gpc[g] /\ gop'[g] = gop[g]
      /\ gpc' = [g \in Hooks |-> gpc'[g]] /\ gop' = [g \in Hooks |-> gop'[g]]
  BY DEF HookInv
<1> QED BY <1>1 DEF HookInv, HookShape

\* What the guard reads decides is held in the local variables of the hook.
Found(h) ==
    LET base == BaselineOf(gop[h].sess) IN
    IF base = Nobody THEN {}
    ELSE (IF gop[h].kind = "stop" THEN PlanSignals(base, "guard") ELSE {})
         \cup FlawSignals(base) \cup VerificationSignals(ledger[gop[h].sess])
         \cup AcceptanceSignals(base)
Uncertain(h) == BaselineOf(gop[h].sess) = Nobody \/ Unbindable(ledger[gop[h].sess])
SigFound(h) == IF Found(h) = {} THEN NoFingerprint ELSE First(Found(h))
HowFound(h) == IF Found(h) # {} THEN "none" ELSE IF Uncertain(h) THEN "degraded" ELSE "clean"

LEMMA GuardReadsIs ==
    ASSUME HookInv, NEW h \in Hooks, GuardReads(h)
    PROVE  /\ gpc[h] = "guard" /\ HookShape(gop[h]) /\ gop[h].sess \in Sessions
           /\ h \in scene.who
           /\ gop' = [gop EXCEPT ![h] = [gop[h] EXCEPT !.src = "guard", !.sig = SigFound(h),
                                                      !.how = HowFound(h)]]
           /\ gop'[h].sig = SigFound(h) /\ gop'[h].how = HowFound(h)
           /\ gop'[h].sess = gop[h].sess /\ gop'[h].src = "guard"
           /\ gpc' = [gpc EXCEPT ![h] = IF Found(h) # {} THEN "stall"
                                        ELSE IF Uncertain(h) THEN "note" ELSE "end"]
<1> DEFINE o == [gop[h] EXCEPT !.src = "guard", !.sig = SigFound(h), !.how = HowFound(h)]
<1>1. gop' = [gop EXCEPT ![h] = o]
  BY DEF GuardReads, Found, Uncertain, SigFound, HowFound
<1>2. gpc' = [gpc EXCEPT ![h] = IF Found(h) # {} THEN "stall"
                                ELSE IF Uncertain(h) THEN "note" ELSE "end"]
  BY DEF GuardReads, GuardGoto, Found, Uncertain
<1>3. /\ gpc[h] = "guard" /\ HookShape(gop[h]) /\ gop[h].sess \in Sessions
      /\ h \in scene.who
  BY DEF GuardReads, HookInv, HookShape
<1>4. o.sig = SigFound(h) /\ o.how = HowFound(h) /\ o.sess = gop[h].sess /\ o.src = "guard"
  BY <1>3 DEF HookShape
<1>5. gop'[h] = o
  BY <1>1 DEF HookInv
<1> QED BY <1>1, <1>2, <1>3, <1>4, <1>5

LEMMA HookStep == HookInv /\ [GuardNext]_guardVars => HookInv'
<1> SUFFICES ASSUME HookInv, [GuardNext]_guardVars PROVE HookInv'
  OBVIOUS
<1>0. \A h \in Hooks : /\ HookShape(gop[h])
                       /\ gpc[h] # "idle" => gop[h].sess \in Sessions /\ h \in scene.who
                       /\ gop = [gop EXCEPT ![h] = gop[h]]
  BY DEF HookInv, HookShape
<1>1. ASSUME UNCHANGED <<scene, gpc, gop>> PROVE HookInv'
  BY <1>1 DEF HookInv
<1>2. ASSUME NEW h \in Hooks, NEW s \in Sessions, NEW kind, NEW rail, StopBegin(h, s, kind, rail)
      PROVE  HookInv'
  <2> DEFINE o == [NoHook EXCEPT !.sess = s, !.kind = kind, !.how = IF rail THEN "rail" ELSE "none"]
             stage == IF rail THEN "end"
                      ELSE IF scene.cont /\ kind = "stop" THEN "cont" ELSE "guard"
  <2>1. HookShape(o) /\ o.sess = s
    BY DEF HookShape, NoHook
  <2>2. /\ gop' = [gop EXCEPT ![h] = o] /\ h \in scene.who /\ scene' = scene
        /\ gpc' = [gpc EXCEPT ![h] = stage]
    BY <1>2 DEF StopBegin, GuardGoto, treeVars
  <2> HIDE DEF o, stage
  <2> QED BY <2>1, <2>2, HookGoes
<1>3. ASSUME NEW h \in Hooks, ContinuationReads(h) PROVE HookInv'
  <2>1. \E sig : gop' = gop \/ gop' = [gop EXCEPT ![h].src = "continuation", ![h].sig = sig]
    BY <1>3 DEF ContinuationReads
  <2>2. PICK sig : gop' = gop \/ gop' = [gop EXCEPT ![h] =
                      [gop[h] EXCEPT !.src = "continuation", !.sig = sig]]
    BY <2>1
  <2>3. \E stage : gpc' = [gpc EXCEPT ![h] = stage]
    BY <1>3 DEF ContinuationReads, GuardGoto
  <2>4. scene' = scene /\ gpc[h] = "cont"
    BY <1>3 DEF ContinuationReads, treeVars
  <2> DEFINE o == [gop[h] EXCEPT !.src = "continuation", !.sig = sig]
  <2>5. HookShape(o) /\ o.sess = gop[h].sess
    BY <1>0 DEF HookShape
  <2> HIDE DEF o
  <2>6. CASE gop' = gop
    BY <1>0, <2>3, <2>4, <2>6, HookGoes
  <2>7. CASE gop' = [gop EXCEPT ![h] = o]
    BY <1>0, <2>3, <2>4, <2>5, <2>7, HookGoes
  <2> QED BY <2>2, <2>6, <2>7 DEF o
<1>4. ASSUME NEW h \in Hooks, GuardReads(h) PROVE HookInv'
  <2> DEFINE o == [gop[h] EXCEPT !.src = "guard", !.sig = SigFound(h), !.how = HowFound(h)]
             stage == IF Found(h) # {} THEN "stall" ELSE IF Uncertain(h) THEN "note" ELSE "end"
  <2>1. HookShape(o) /\ o.sess = gop[h].sess
    BY <1>0 DEF HookShape
  <2>2. /\ gop' = [gop EXCEPT ![h] = o] /\ gpc' = [gpc EXCEPT ![h] = stage]
        /\ gop[h].sess \in Sessions /\ h \in scene.who
    BY <1>4, GuardReadsIs
  <2>3. scene' = scene
    BY <1>4 DEF GuardReads, treeVars
  <2> HIDE DEF o, stage
  <2> QED BY <2>1, <2>2, <2>3, HookGoes
<1>5. ASSUME NEW h \in Hooks, NoteDegraded(h) PROVE HookInv'
  <2>1. /\ gpc' = [gpc EXCEPT ![h] = "end"] /\ gop' = gop /\ scene' = scene /\ gpc[h] = "note"
    BY <1>5 DEF NoteDegraded, GuardGoto, treeVars
  <2> QED BY <1>0, <2>1, HookGoes
<1>6. ASSUME NEW h \in Hooks, NEW how, GiveUp(h, how), scene' = scene, gpc[h] # "idle"
      PROVE  HookInv'
  <2>1. CASE gop[h].src = "continuation"
    <3>1. gpc' = [gpc EXCEPT ![h] = "guard"] /\ gop' = gop
      BY <1>6, <2>1 DEF GiveUp, GuardGoto
    <3> QED BY <1>0, <1>6, <3>1, HookGoes
  <2>2. CASE gop[h].src # "continuation"
    <3> DEFINE o == [gop[h] EXCEPT !.how = how]
    <3>1. gpc' = [gpc EXCEPT ![h] = "end"] /\ gop' = [gop EXCEPT ![h] = o]
      BY <1>6, <2>2 DEF GiveUp, GuardGoto
    <3>2. HookShape(o) /\ o.sess = gop[h].sess
      BY <1>0 DEF HookShape
    <3> HIDE DEF o
    <3> QED BY <1>0, <1>6, <3>1, <3>2, HookGoes
  <2> QED BY <2>1, <2>2
<1>7. ASSUME NEW h \in Hooks, Stall(h) PROVE HookInv'
  <2>1. gpc[h] = "stall" /\ scene' = scene
    BY <1>7 DEF Stall, treeVars
  <2>2. \/ GiveUp(h, "stall")
        \/ gpc' = [gpc EXCEPT ![h] = "bump"] /\ gop' = gop
    BY <1>7, Zenon DEF Stall, GuardGoto
  <2> QED BY <1>0, <1>6, <2>1, <2>2, HookGoes
<1>8. ASSUME NEW h \in Hooks, gpc[h] # "idle", scene' = scene,
             gpc' = [gpc EXCEPT ![h] = "idle"], gop' = [gop EXCEPT ![h] = NoHook]
      PROVE  HookInv'
  <2>1. HookShape(NoHook)
    BY DEF HookShape, NoHook
  <2> QED BY <1>8, <2>1, HookGoes
<1>9. ASSUME NEW h \in Hooks, NEW late, Bump(h, late) PROVE HookInv'
  <2>1. gpc[h] = "bump" /\ scene' = scene
    BY <1>9 DEF Bump, treeVars
  <2>2. \/ GiveUp(h, "cap")
        \/ gpc' = [gpc EXCEPT ![h] = "idle"] /\ gop' = [gop EXCEPT ![h] = NoHook]
    BY <1>9 DEF Bump, GuardGoto
  <2> QED BY <1>6, <1>8, <2>1, <2>2
<1>10. ASSUME NEW h \in Hooks, LetGo(h) PROVE HookInv'
  BY <1>8, <1>10 DEF LetGo, GuardGoto, treeVars
<1>11. ASSUME NEW h \in Hooks, Hook(h) PROVE HookInv'
  BY <1>3, <1>4, <1>5, <1>7, <1>9, <1>10, <1>11 DEF Hook
<1>12. ASSUME \/ \E p \in Paths : \E c \in Contents[p] : OutsideEdit(p, c)
              \/ \E s, p, c, told, level : ToolRuns(s, p, c, told, level)
              \/ \E pass : AcceptanceRuns(pass)
              \/ PlanMarked
              \/ \E toolCall \in calls : ToolObserved(toolCall)
              \/ \E s \in Sessions : PromptCapture(s) \/ PromptStore(s) \/ PromptReset(s)
              \/ BaselineExpires
              \/ UNCHANGED guardVars
       PROVE  UNCHANGED <<scene, gpc, gop>>
  BY <1>12 DEF OutsideEdit, ToolRuns, AcceptanceRuns, PlanMarked, ToolObserved, PromptCapture,
     PromptStore, PromptReset, BaselineExpires, guardVars, treeVars, stateVars, hookVars,
     historyVars
<1> QED BY <1>1, <1>2, <1>11, <1>12 DEF GuardNext

-----------------------------------------------------------------------------
(* The ledger and what was shown *)

CallOk(c) ==
    /\ c.sess \in Sessions /\ c.edit \in BOOLEAN /\ c.level \in {0} \cup Levels
    /\ c.paths \subseteq Paths /\ (~c.edit => c.paths = {})

\* A row knows the files of the edits the session has shown; and a check that is not older
\* than the last edit is one that was shown since, with what it found in these files.
RowOk(row, seen) ==
    /\ row = Nobody => seen = NothingShown
    /\ row # Nobody =>
         /\ row.mut <= row.seq /\ row.ver <= row.seq /\ row.paths = seen.edits
         /\ seen.n > 0 => row.mut > 0 /\ row.scope = seen.scope
         /\ row.mut > 0 /\ row.ver >= row.mut =>
              \E check \in seen.checks : check.level = row.level /\ check.of = row.proof

LedgerInv ==
    /\ tree \in [Paths -> AllContents]
    /\ ledger \in [Sessions -> Rows \cup {Nobody}]
    /\ shown \in [Sessions -> [n : Nat, edits : SUBSET Paths, scope : {"docs", "code"},
                               checks : SUBSET [level : Levels, of : Bindings]]]
    /\ \A c \in calls : CallOk(c)
    /\ \A s \in Sessions : RowOk(ledger[s], shown[s])

LEMMA LedgerInit == GuardInit => LedgerInv
<1> SUFFICES ASSUME GuardInit PROVE LedgerInv
  OBVIOUS
<1>1. \A s \in Sessions : RowOk(ledger[s], shown[s])
  BY DEF GuardInit, RowOk
<1> QED BY <1>1 DEF GuardInit, LedgerInv, NothingShown

\* The check that proves a row was shown, of the files as they are.
LEMMA ProvedShown ==
    ASSUME LedgerInv, NEW s \in Sessions, shown[s].n > 0,
           VerificationSignals(ledger[s]) = {}, ~Unbindable(ledger[s])
    PROVE  \E check \in shown[s].checks :
              /\ check.level >= Required(shown[s].scope)
              /\ \A p \in shown[s].edits : check.of[p] = tree[p]
<1> DEFINE row == ledger[s]
<1>1. RowOk(row, shown[s])
  BY DEF LedgerInv
<1>2. row # Nobody /\ row.mut > 0 /\ row.complete
  BY <1>1 DEF RowOk, NothingShown, Unbindable
<1>3. Proved(row)
  BY <1>2 DEF VerificationSignals
<1>4. PICK check \in shown[s].checks : check.level = row.level /\ check.of = row.proof
  BY <1>1, <1>2, <1>3 DEF RowOk, Proved
<1>5. check.level >= Required(shown[s].scope)
  BY <1>1, <1>2, <1>3, <1>4 DEF RowOk, Proved
<1>6. check.of = Binding(row.paths) /\ row.paths = shown[s].edits
  BY <1>1, <1>2, <1>3, <1>4 DEF RowOk, Proved
<1>7. \A p \in shown[s].edits : check.of[p] = tree[p]
  BY <1>6 DEF Binding
<1> QED BY <1>5, <1>7

SeenType == [n : Nat, edits : SUBSET Paths, scope : {"docs", "code"},
             checks : SUBSET [level : Levels, of : Bindings]]

Fits(row, seen) ==
    /\ row.mut <= row.seq /\ row.ver <= row.seq /\ row.paths = seen.edits
    /\ seen.n > 0 => row.mut > 0 /\ row.scope = seen.scope
    /\ row.mut > 0 /\ row.ver >= row.mut =>
         \E check \in seen.checks : check.level = row.level /\ check.of = row.proof

LEMMA BindingType ==
    ASSUME tree \in [Paths -> AllContents], NEW P \in SUBSET Paths
    PROVE  Binding(P) \in Bindings
<1>1. Binding(P) \in [P -> AllContents]
  BY DEF Binding
<1> QED BY <1>1 DEF Bindings

LEMMA EmptyRowFits == EmptyRow \in Rows /\ Fits(EmptyRow, NothingShown)
<1>1. <<>> \in [{} -> AllContents]
  OBVIOUS
<1>2. <<>> \in Bindings
  BY <1>1 DEF Bindings
<1> QED BY <1>2 DEF EmptyRow, Rows, Fits, NothingShown

\* A call entered in the ledger, with what it shows.
AsSeen(seen, call) ==
    [n |-> IF call.edit THEN seen.n + 1 ELSE seen.n,
     edits |-> seen.edits \cup call.paths,
     scope |-> IF call.edit THEN Scope(call.paths) ELSE seen.scope,
     checks |-> (IF call.edit THEN {} ELSE seen.checks) \cup
                  (IF call.level > 0
                   THEN {[level |-> call.level, of |-> Binding(seen.edits \cup call.paths)]}
                   ELSE {})]

LEMMA SeenFields ==
    ASSUME tree \in [Paths -> AllContents], NEW seen \in SeenType, NEW call, CallOk(call)
    PROVE  /\ AsSeen(seen, call) \in SeenType
           /\ AsSeen(seen, call).edits = seen.edits \cup call.paths
           /\ ~call.edit => /\ AsSeen(seen, call).n = seen.n
                            /\ AsSeen(seen, call).scope = seen.scope
                            /\ seen.checks \subseteq AsSeen(seen, call).checks
           /\ call.edit => AsSeen(seen, call).scope = Scope(call.paths)
           /\ call.level > 0 =>
                [level |-> call.level, of |-> Binding(seen.edits \cup call.paths)]
                  \in AsSeen(seen, call).checks
<1> DEFINE P == seen.edits \cup call.paths
           check == [level |-> call.level, of |-> Binding(P)]
<1>1. P \in SUBSET Paths /\ Binding(P) \in Bindings
  BY BindingType DEF SeenType, CallOk
<1>2. call.level > 0 => call.level \in Levels
  BY DEF CallOk, Levels
<1>3. call.level > 0 => check \in [level : Levels, of : Bindings]
  BY <1>1, <1>2
<1>4. Scope(call.paths) \in {"docs", "code"}
  BY DEF Scope
<1>5. AsSeen(seen, call).edits = P
  BY DEF AsSeen
<1> DEFINE checks == AsSeen(seen, call).checks
<1>6. /\ checks = (IF call.edit THEN {} ELSE seen.checks)
                    \cup (IF call.level > 0 THEN {check} ELSE {})
      /\ AsSeen(seen, call).n = IF call.edit THEN seen.n + 1 ELSE seen.n
      /\ AsSeen(seen, call).scope = IF call.edit THEN Scope(call.paths) ELSE seen.scope
      /\ AsSeen(seen, call) = [n |-> AsSeen(seen, call).n, edits |-> AsSeen(seen, call).edits,
                               scope |-> AsSeen(seen, call).scope, checks |-> checks]
  BY DEF AsSeen
<1>7. /\ ~call.edit => seen.checks \subseteq checks
      /\ call.level > 0 => check \in checks
  BY <1>6
<1>8. /\ seen.checks \in SUBSET [level : Levels, of : Bindings] /\ seen.n \in Nat
      /\ seen.scope \in {"docs", "code"}
  BY DEF SeenType
<1> HIDE DEF check
<1>9. checks \in SUBSET [level : Levels, of : Bindings]
  BY <1>3, <1>6, <1>8
<1> HIDE DEF checks
<1>10. AsSeen(seen, call) \in SeenType
  BY <1>1, <1>4, <1>5, <1>6, <1>8, <1>9 DEF SeenType
<1> QED BY <1>5, <1>6, <1>7, <1>10 DEF check, checks

LEMMA MutatedFields ==
    ASSUME tree \in [Paths -> AllContents], NEW row \in Rows, NEW call, CallOk(call)
    PROVE  /\ Mutated(row, call) \in Rows
           /\ Mutated(row, call).mut = row.seq /\ Mutated(row, call).seq = row.seq
           /\ Mutated(row, call).scope = Scope(call.paths)
           /\ Mutated(row, call).paths = row.paths \cup call.paths
           /\ Mutated(row, call).ver = row.ver
<1> DEFINE paths == row.paths \cup call.paths
<1>1. paths \in SUBSET Paths /\ Binding(paths) \in Bindings
  BY BindingType DEF Rows, CallOk
<1>2. Scope(call.paths) \in {"docs", "code"}
  BY DEF Scope
<1> QED BY <1>1, <1>2 DEF Mutated, Rows

LEMMA ObservedFits ==
    ASSUME tree \in [Paths -> AllContents], NEW row \in Rows, NEW seen \in SeenType,
           Fits(row, seen), NEW call, CallOk(call)
    PROVE  LET next == [row EXCEPT !.seq = @ + 1]
               mutated == IF call.edit THEN Mutated(next, call) ELSE next
               new == IF call.level > 0 THEN Checked(mutated, call) ELSE mutated
           IN new \in Rows /\ Fits(new, AsSeen(seen, call))
<1> DEFINE next == [row EXCEPT !.seq = @ + 1]
           mutated == IF call.edit THEN Mutated(next, call) ELSE next
           new == IF call.level > 0 THEN Checked(mutated, call) ELSE mutated
           then == AsSeen(seen, call)
           P == seen.edits \cup call.paths
<1>1. /\ next \in Rows /\ next.seq = row.seq + 1 /\ next.mut = row.mut /\ next.ver = row.ver
      /\ next.paths = row.paths /\ next.scope = row.scope /\ next.level = row.level
      /\ next.proof = row.proof
  BY DEF Rows
<1>2. /\ row.mut <= row.seq /\ row.ver <= row.seq /\ row.paths = seen.edits
      /\ row.seq \in Nat /\ row.mut \in Nat /\ row.ver \in Nat
  BY DEF Fits, Rows
<1>3. /\ mutated \in Rows /\ mutated.seq = row.seq + 1 /\ mutated.mut <= mutated.seq
      /\ mutated.ver = row.ver /\ mutated.paths = P
      /\ call.edit => mutated.mut = row.seq + 1 /\ mutated.scope = Scope(call.paths)
      /\ ~call.edit => mutated = next
  <2>1. CASE call.edit
    <3>1. mutated = Mutated(next, call)
      BY <2>1
    <3> HIDE DEF next, mutated
    <3> QED BY <1>1, <1>2, <2>1, <3>1, MutatedFields
  <2>2. CASE ~call.edit
    BY <1>1, <1>2, <2>2 DEF CallOk
  <2> QED BY <2>1, <2>2
<1>4. Fits(mutated, then)
  <2>1. CASE call.edit
    <3>1. ~(mutated.ver >= mutated.mut)
      BY <1>2, <1>3, <2>1
    <3>2. then.edits = P /\ then.scope = Scope(call.paths)
      BY <2>1, SeenFields
    <3> HIDE DEF mutated, then
    <3>3. mutated.mut > 0
      BY <1>2, <1>3, <2>1
    <3> QED BY <1>2, <1>3, <2>1, <3>1, <3>2, <3>3 DEF Fits
  <2>2. CASE ~call.edit
    <3>1. /\ then.edits = P /\ then.n = seen.n /\ then.scope = seen.scope
          /\ seen.checks \subseteq then.checks
      BY <2>2, SeenFields
    <3>2. mutated = next /\ P = seen.edits
      BY <1>3, <2>2 DEF CallOk
    <3> HIDE DEF next, mutated, then
    <3> QED BY <1>1, <1>2, <3>1, <3>2 DEF Fits
  <2> QED BY <2>1, <2>2
<1> HIDE DEF next, mutated, then
<1>5. CASE call.level > 0 /\ mutated.complete /\ mutated.paths # {}
           /\ Binding(mutated.paths) = mutated.binding
  <2>1. new = [mutated EXCEPT !.ver = mutated.seq, !.level = call.level, !.proof = mutated.binding]
    BY <1>5 DEF Checked
  <2>2. /\ new \in Rows /\ new.ver = mutated.seq /\ new.level = call.level
        /\ new.proof = mutated.binding /\ new.mut = mutated.mut /\ new.seq = mutated.seq
        /\ new.paths = mutated.paths /\ new.scope = mutated.scope
    BY <1>3, <2>1 DEF Rows, CallOk
  <2> DEFINE check == [level |-> call.level, of |-> Binding(P)]
  <2>3. check \in then.checks /\ check.level = new.level /\ check.of = new.proof
    BY <1>3, <1>5, <2>2, SeenFields DEF then
  <2> HIDE DEF check, new
  <2>4. mutated.seq \in Nat
    BY <1>3 DEF Rows
  <2>5. Fits(new, then)
    BY <1>4, <2>2, <2>3, <2>4 DEF Fits
  <2> QED BY <2>2, <2>5 DEF new, then, mutated, next
<1>6. CASE ~(call.level > 0 /\ mutated.complete /\ mutated.paths # {}
             /\ Binding(mutated.paths) = mutated.binding)
  <2>1. new = mutated
    BY <1>6 DEF Checked
  <2> HIDE DEF new
  <2> QED BY <1>3, <1>4, <2>1 DEF new, then, mutated, next
<1> QED BY <1>5, <1>6

-----------------------------------------------------------------------------

\* The ledger and what was shown are left alone.
LEMMA LedgerStays ==
    ASSUME LedgerInv, UNCHANGED <<ledger, shown>>, tree' \in [Paths -> AllContents],
           \A c \in calls' : CallOk(c)
    PROVE  LedgerInv'
BY DEF LedgerInv

LEMMA ObservedLedger ==
    ASSUME LedgerInv, NEW call \in calls, ToolObserved(call)
    PROVE  LedgerInv'
<1> DEFINE s == call.sess
           old == IF ledger[s] = Nobody THEN EmptyRow ELSE ledger[s]
           next == [old EXCEPT !.seq = @ + 1]
           mutated == IF call.edit THEN Mutated(next, call) ELSE next
           new == IF call.level > 0 THEN Checked(mutated, call) ELSE mutated
           then == AsSeen(shown[s], call)
<1>1. CallOk(call) /\ s \in Sessions /\ tree \in [Paths -> AllContents]
  BY DEF LedgerInv, CallOk
<1>2. ledger' = [ledger EXCEPT ![s] = new] /\ tree' = tree /\ calls' \subseteq calls
  BY DEF ToolObserved
<1>3. shown' = [shown EXCEPT ![s] = then]
  BY DEF ToolObserved, AsSeen
<1>4. /\ shown[s] \in SeenType /\ ledger[s] \in Rows \cup {Nobody}
      /\ RowOk(ledger[s], shown[s])
  BY <1>1 DEF LedgerInv, SeenType
<1>5. old \in Rows /\ Fits(old, shown[s])
  BY <1>4, EmptyRowFits DEF RowOk, Fits
<1> HIDE DEF old
<1>6. new \in Rows /\ Fits(new, then)
  BY <1>1, <1>4, <1>5, ObservedFits
<1>7. then \in SeenType
  BY <1>1, <1>4, SeenFields
<1> HIDE DEF new, then, s
<1>8. RowOk(new, then)
  BY <1>6, GuardNamesAssumption DEF RowOk, Fits
<1>9. /\ ledger' \in [Sessions -> Rows \cup {Nobody}] /\ shown' \in [Sessions -> SeenType]
      /\ \A t \in Sessions : RowOk(ledger'[t], shown'[t])
  BY <1>1, <1>2, <1>3, <1>6, <1>7, <1>8 DEF LedgerInv, SeenType
<1> QED BY <1>1, <1>2, <1>9 DEF LedgerInv, SeenType

LEMMA StoreLedger ==
    ASSUME LedgerInv, NEW s \in Sessions, PromptStore(s)
    PROVE  LedgerInv'
<1>1. /\ ledger' = [ledger EXCEPT ![s] = EmptyRow] /\ shown' = [shown EXCEPT ![s] = NothingShown]
      /\ UNCHANGED <<tree, calls>>
  BY DEF PromptStore
<1>2. RowOk(EmptyRow, NothingShown)
  BY EmptyRowFits DEF RowOk, Fits
<1>3. NothingShown \in SeenType
  BY DEF NothingShown, SeenType
<1>4. /\ ledger' \in [Sessions -> Rows \cup {Nobody}] /\ shown' \in [Sessions -> SeenType]
      /\ \A t \in Sessions : RowOk(ledger'[t], shown'[t])
  BY <1>1, <1>2, <1>3, EmptyRowFits DEF LedgerInv, SeenType
<1> QED BY <1>1, <1>4 DEF LedgerInv, SeenType

LEMMA RunsLedger ==
    ASSUME LedgerInv, NEW s \in Sessions, NEW p, NEW c, NEW told \in BOOLEAN,
           NEW level \in {0} \cup Levels, ToolRuns(s, p, c, told, level),
           p = Nobody \/ (p \in Paths /\ c \in Contents[p])
    PROVE  LedgerInv'
<1> DEFINE call == [sess |-> s, edit |-> p # Nobody, level |-> level, id |-> made.calls,
                    paths |-> IF told /\ p # Nobody THEN {p} ELSE {}]
<1>1. /\ calls' = calls \cup {call} /\ UNCHANGED <<ledger, shown>>
      /\ tree' = IF p = Nobody THEN tree ELSE [tree EXCEPT ![p] = c]
  BY DEF ToolRuns, stateVars, historyVars
<1>2. CallOk(call)
  BY DEF CallOk
<1>3. p # Nobody => c \in AllContents
  BY DEF AllContents
<1>4. tree' \in [Paths -> AllContents]
  BY <1>1, <1>3 DEF LedgerInv
<1> HIDE DEF call
<1>5. \A x \in calls' : CallOk(x)
  BY <1>1, <1>2 DEF LedgerInv
<1> QED BY <1>1, <1>4, <1>5, LedgerStays

LEMMA LedgerStep == LedgerInv /\ [GuardNext]_guardVars => LedgerInv'
<1> SUFFICES ASSUME LedgerInv, [GuardNext]_guardVars PROVE LedgerInv'
  OBVIOUS
<1>1. ASSUME UNCHANGED <<ledger, shown, tree, calls>> PROVE LedgerInv'
  BY <1>1, LedgerStays DEF LedgerInv
<1>2. ASSUME NEW p \in Paths, NEW c \in Contents[p], OutsideEdit(p, c) PROVE LedgerInv'
  <2>1. c \in AllContents
    BY DEF AllContents
  <2>2. tree' \in [Paths -> AllContents] /\ UNCHANGED <<ledger, shown, calls>>
    BY <1>2, <2>1 DEF OutsideEdit, stateVars, historyVars, LedgerInv
  <2> QED BY <2>2, LedgerStays DEF LedgerInv
<1>3. ASSUME NEW h \in Hooks, Hook(h) PROVE LedgerInv'
  <2>1. UNCHANGED <<ledger, shown, tree, calls>>
    BY <1>3 DEF Hook, ContinuationReads, GuardReads, NoteDegraded, Stall, Bump, LetGo, stateVars
  <2> QED BY <1>1, <2>1
<1>4. ASSUME \/ \E pass \in BOOLEAN : AcceptanceRuns(pass)
             \/ PlanMarked
             \/ \E s \in Sessions : PromptCapture(s) \/ PromptReset(s)
             \/ BaselineExpires
             \/ \E h \in Hooks, s \in Sessions : \E kind, rail : StopBegin(h, s, kind, rail)
             \/ UNCHANGED guardVars
      PROVE  LedgerInv'
  <2>1. UNCHANGED <<ledger, shown, tree, calls>>
    BY <1>4 DEF AcceptanceRuns, PlanMarked, PromptCapture, PromptReset, BaselineExpires,
       StopBegin, guardVars, stateVars, historyVars
  <2> QED BY <1>1, <2>1
<1>5. ASSUME NEW s \in Sessions, NEW p \in Paths, NEW told \in BOOLEAN,
             NEW level \in {0} \cup Levels, NEW c \in Contents[p], ToolRuns(s, p, c, told, level)
      PROVE  LedgerInv'
  BY <1>5, RunsLedger
<1>6. ASSUME NEW s \in Sessions, NEW level \in {0} \cup Levels,
             ToolRuns(s, Nobody, Nobody, FALSE, level)
      PROVE  LedgerInv'
  BY <1>6, RunsLedger
<1> QED BY <1>2, <1>3, <1>4, <1>5, <1>6, ObservedLedger, StoreLedger DEF GuardNext

\* Whoever is let go as finished after edits had a check that passed after the last of them,
\* on the files as they are now: for any tools and hooks, in any order and at once.
THEOREM CleanWasChecked == GuardSpec => CleanMeansChecked
<1>1. ASSUME HookInv, LedgerInv, NEW h \in Hooks, GuardReads(h), gop'[h].how = "clean",
             shown[gop[h].sess].n > 0
      PROVE  \E check \in shown[gop[h].sess].checks :
                /\ check.level >= Required(shown[gop[h].sess].scope)
                /\ \A p \in shown[gop[h].sess].edits : check.of[p] = tree[p]
  <2>1. HowFound(h) = "clean" /\ gop[h].sess \in Sessions
    BY <1>1, GuardReadsIs
  <2>2. Found(h) = {} /\ ~Uncertain(h)
    BY <2>1 DEF HowFound
  <2>3. VerificationSignals(ledger[gop[h].sess]) = {} /\ ~Unbindable(ledger[gop[h].sess])
    BY <2>2 DEF Found, Uncertain
  <2> QED BY <1>1, <2>1, <2>3, ProvedShown
<1>2. HookInv /\ LedgerInv =>
        [\A h \in Hooks : LET s == gop[h].sess IN
           GuardReads(h) /\ gop'[h].how = "clean" /\ shown[s].n > 0 =>
              \E check \in shown[s].checks :
                  /\ check.level >= Required(shown[s].scope)
                  /\ \A p \in shown[s].edits : check.of[p] = tree[p]]_guardVars
  BY <1>1
<1> QED BY <1>2, HookInit, HookStep, LedgerInit, LedgerStep, PTL
        DEF GuardSpec, CleanMeansChecked

-----------------------------------------------------------------------------
(* The debt *)

\* A baseline holds the flaws of the tree it was captured in.
FlawedIn(t, kind) ==
    {p \in Paths : t[p] # Committed /\ Flaw[t[p]] = kind /\ (kind = "syntax" => p \in CodePaths)}

BaseOf(base, t) ==
    /\ {"lines", "syntax", "old"} \subseteq DOMAIN base
    /\ base.lines = {x \in LineFlaws \X Paths : x[2] \in FlawedIn(t, x[1])}
    /\ base.syntax = [p \in FlawedIn(t, "syntax") |-> t[p]]

DebtInv ==
    /\ prompt = [s \in Sessions |-> prompt[s]] /\ atStart = [s \in Sessions |-> atStart[s]]
    /\ \A s \in Sessions : prompt[s] # Nobody =>
         /\ "stage" \in DOMAIN prompt[s]
         /\ prompt[s].stage = "store" => BaseOf(prompt[s].base, prompt[s].tree)
    /\ \A b \in baselines :
         /\ {"sess", "base"} \subseteq DOMAIN b /\ b.sess \in Sessions
         /\ BaseOf(b.base, atStart[b.sess])

BaseShape(base) == {"lines", "syntax", "old"} \subseteq DOMAIN base

LEMMA DebtInit == GuardInit => DebtInv
BY DEF GuardInit, DebtInv

LEMMA BaselineIs == BaseOf(Baseline, tree)
<1>1. \A kind : Flawed(kind) = FlawedIn(tree, kind)
  BY DEF Flawed, Touched, FlawedIn
<1>2. Baseline.lines = {x \in LineFlaws \X Paths : x[2] \in Flawed(x[1])}
  BY DEF Baseline
<1>3. Baseline.syntax = [p \in Flawed("syntax") |-> tree[p]]
  BY DEF Baseline
<1>4. {"lines", "syntax", "old"} \subseteq DOMAIN Baseline
  BY DEF Baseline
<1> QED BY <1>1, <1>2, <1>3, <1>4, Zenon DEF BaseOf

LEMMA DebtStays ==
    ASSUME DebtInv, UNCHANGED <<prompt, atStart, baselines>>
    PROVE  DebtInv'
BY DEF DebtInv

LEMMA CaptureDebt ==
    ASSUME DebtInv, NEW s \in Sessions, PromptCapture(s)
    PROVE  DebtInv'
<1> DEFINE new == [stage |-> "store", base |-> Baseline, tree |-> tree]
<1>1. prompt' = [prompt EXCEPT ![s] = new] /\ UNCHANGED <<atStart, baselines>>
  BY DEF PromptCapture, stateVars
<1>2. "stage" \in DOMAIN new /\ BaseOf(new.base, new.tree)
  BY BaselineIs
<1> HIDE DEF new
<1> QED BY <1>1, <1>2 DEF DebtInv

LEMMA StoreDebt ==
    ASSUME DebtInv, NEW s \in Sessions, PromptStore(s)
    PROVE  DebtInv'
<1> DEFINE mine == [sess |-> s, base |-> prompt[s].base]
           new == [prompt[s] EXCEPT !.stage = "reset"]
           kept == {b \in baselines : b.sess # s} \cup {mine}
<1>1. /\ prompt[s] # Nobody /\ prompt[s].stage = "store"
      /\ prompt' = [prompt EXCEPT ![s] = new]
      /\ atStart' = [atStart EXCEPT ![s] = prompt[s].tree]
      /\ baselines' = Newest(kept)
  BY DEF PromptStore
<1>2. baselines' \subseteq kept
  BY <1>1 DEF Newest
<1>3. "stage" \in DOMAIN new /\ new.stage = "reset"
  BY <1>1 DEF DebtInv
<1>4. /\ {"sess", "base"} \subseteq DOMAIN mine /\ mine.sess = s
      /\ BaseOf(mine.base, prompt[s].tree)
  BY <1>1 DEF DebtInv
<1> HIDE DEF mine, new
<1>5. ASSUME NEW b \in baselines'
      PROVE  /\ {"sess", "base"} \subseteq DOMAIN b /\ b.sess \in Sessions
             /\ BaseOf(b.base, atStart'[b.sess])
  <2>1. CASE b = mine
    BY <1>1, <1>4, <2>1 DEF DebtInv
  <2>2. CASE b \in baselines /\ b.sess # s
    <3>1. b.sess \in Sessions => atStart'[b.sess] = atStart[b.sess]
      BY <1>1, <2>2 DEF DebtInv
    <3> QED BY <2>2, <3>1 DEF DebtInv
  <2> QED BY <1>2, <2>1, <2>2
<1>6. \A t \in Sessions : prompt'[t] # Nobody =>
        /\ "stage" \in DOMAIN prompt'[t]
        /\ prompt'[t].stage = "store" => BaseOf(prompt'[t].base, prompt'[t].tree)
  BY <1>1, <1>3 DEF DebtInv
<1>7. /\ prompt' = [t \in Sessions |-> prompt'[t]]
      /\ atStart' = [t \in Sessions |-> atStart'[t]]
  BY <1>1 DEF DebtInv
<1> QED BY <1>5, <1>6, <1>7 DEF DebtInv

LEMMA ResetDebt ==
    ASSUME DebtInv, NEW s \in Sessions, PromptReset(s)
    PROVE  DebtInv'
<1>1. prompt' = [prompt EXCEPT ![s] = Nobody] /\ UNCHANGED <<atStart, baselines>>
  BY DEF PromptReset
<1> QED BY <1>1 DEF DebtInv

LEMMA ExpiresDebt == ASSUME DebtInv, BaselineExpires PROVE DebtInv'
<1>1. PICK b \in baselines : baselines' = (baselines \ {b}) \cup {[b EXCEPT !.base.old = TRUE]}
  BY DEF BaselineExpires
<1> DEFINE new == [b EXCEPT !.base.old = TRUE]
<1>2. /\ {"sess", "base"} \subseteq DOMAIN b /\ b.sess \in Sessions
      /\ BaseOf(b.base, atStart[b.sess])
  BY DEF DebtInv
<1>3. new.base = [b.base EXCEPT !.old = TRUE] /\ new.sess = b.sess /\ DOMAIN new = DOMAIN b
  BY <1>2
<1>4. /\ new.base.lines = b.base.lines /\ new.base.syntax = b.base.syntax
      /\ DOMAIN new.base = DOMAIN b.base
  BY <1>2, <1>3 DEF BaseOf
<1>5. BaseOf(new.base, atStart[b.sess])
  BY <1>2, <1>4 DEF BaseOf
<1> HIDE DEF new
<1>6. UNCHANGED <<prompt, atStart>> /\ baselines' = (baselines \ {b}) \cup {new}
  BY <1>1 DEF BaselineExpires, hookVars, historyVars, new
<1> QED BY <1>2, <1>3, <1>5, <1>6 DEF DebtInv

LEMMA DebtStep == DebtInv /\ [GuardNext]_guardVars => DebtInv'
<1> SUFFICES ASSUME DebtInv, [GuardNext]_guardVars PROVE DebtInv'
  OBVIOUS
<1>1. ASSUME NEW h \in Hooks, Hook(h) PROVE DebtInv'
  <2>1. UNCHANGED <<prompt, atStart, baselines>>
    BY <1>1 DEF Hook, ContinuationReads, GuardReads, NoteDegraded, Stall, Bump, LetGo, stateVars
  <2> QED BY <2>1, DebtStays
<1>2. ASSUME \/ \E p \in Paths : \E c \in Contents[p] : OutsideEdit(p, c)
             \/ \E s, p, c, told, level : ToolRuns(s, p, c, told, level)
             \/ \E pass : AcceptanceRuns(pass)
             \/ PlanMarked
             \/ \E toolCall \in calls : ToolObserved(toolCall)
             \/ \E h \in Hooks, s \in Sessions : \E kind, rail : StopBegin(h, s, kind, rail)
             \/ UNCHANGED guardVars
      PROVE  DebtInv'
  <2>1. UNCHANGED <<prompt, atStart, baselines>>
    BY <1>2 DEF OutsideEdit, ToolRuns, AcceptanceRuns, PlanMarked, ToolObserved, StopBegin,
       guardVars, stateVars, hookVars, historyVars
  <2> QED BY <2>1, DebtStays
<1> QED BY <1>1, <1>2, CaptureDebt, StoreDebt, ResetDebt, ExpiresDebt DEF GuardNext

-----------------------------------------------------------------------------

LEMMA FirstIn ==
    ASSUME NEW S, S # {}, \A x \in S : Rank(x) \in 1..6
    PROVE  First(S) \in S
<1> DEFINE Has(n) == \E x \in S : Rank(x) = n
<1>1. \E n \in 1..6 : Has(n) /\ \A m \in 1..6 : m < n => ~Has(m)
  <2>1. Has(1) \/ Has(2) \/ Has(3) \/ Has(4) \/ Has(5) \/ Has(6)
    OBVIOUS
  <2> HIDE DEF Has
  <2> QED BY <2>1
<1>2. PICK n \in 1..6 : Has(n) /\ \A m \in 1..6 : m < n => ~Has(m)
  BY <1>1
<1>3. PICK x \in S : Rank(x) = n
  BY <1>2
<1>4. \A y \in S : Rank(x) <= Rank(y)
  BY <1>2, <1>3
<1>5. \E z \in S : \A y \in S : Rank(z) <= Rank(y)
  BY <1>4
<1> HIDE DEF Has
<1> QED BY <1>5 DEF First

Kinds == {"plan", "conflict", "syntax", "marker", "verification", "acceptance"}

LEMMA FoundKinds ==
    ASSUME NEW h \in Hooks, NEW sig \in Found(h)
    PROVE  /\ sig.kind \in Kinds /\ BaselineOf(gop[h].sess) # Nobody
           /\ sig.kind \in Flaws \ {"none"} => sig \in FlawSignals(BaselineOf(gop[h].sess))
<1> DEFINE base == BaselineOf(gop[h].sess)
<1>1. base # Nobody
  BY DEF Found
<1>2. \/ sig \in PlanSignals(base, "guard") \/ sig \in FlawSignals(base)
      \/ sig \in VerificationSignals(ledger[gop[h].sess]) \/ sig \in AcceptanceSignals(base)
  BY <1>1 DEF Found
<1>3. Flaws \ {"none"} = {"conflict", "marker", "syntax"}
  BY DEF Flaws, LineFlaws
<1>4. CASE sig \in PlanSignals(base, "guard")
  BY <1>1, <1>3, <1>4 DEF PlanSignals, Kinds
<1>5. CASE sig \in FlawSignals(base)
  <2>1. sig.kind \in Flaws \ {"none"}
    BY <1>5 DEF FlawSignals
  <2> QED BY <1>1, <1>3, <1>5, <2>1 DEF Kinds
<1>6. CASE sig \in VerificationSignals(ledger[gop[h].sess])
  BY <1>1, <1>3, <1>6 DEF VerificationSignals, Kinds
<1>7. CASE sig \in AcceptanceSignals(base)
  BY <1>1, <1>3, <1>7 DEF AcceptanceSignals, Kinds
<1> QED BY <1>2, <1>4, <1>5, <1>6, <1>7

LEMMA SigIn == ASSUME NEW h \in Hooks, Found(h) # {} PROVE SigFound(h) \in Found(h)
<1>1. \A x \in Found(h) : Rank(x) \in 1..6
  BY FoundKinds DEF Rank, Kinds
<1> QED BY <1>1, FirstIn DEF SigFound

LEMMA NewFlaw ==
    ASSUME DebtInv, NEW s \in Sessions, BaselineOf(s) # Nobody,
           NEW sig \in FlawSignals(BaselineOf(s))
    PROVE  atStart[s][sig.path] # sig.ev
<1> DEFINE base == BaselineOf(s)
<1>1. BaseOf(base, atStart[s])
  <2> DEFINE mine == {b \in baselines : b.sess = s /\ ~b.base.old}
  <2>1. mine # {} /\ base = (CHOOSE b \in mine : TRUE).base
    BY DEF BaselineOf
  <2>2. PICK b \in mine : base = b.base
    BY <2>1
  <2> QED BY <2>2 DEF DebtInv
<1> HIDE DEF base
<1>2. PICK x \in (Flaws \ {"none"}) \X Paths :
         /\ x[2] \in Flawed(x[1]) /\ ~Known(base, x[1], x[2])
         /\ sig = [kind |-> x[1], path |-> x[2], ev |-> tree[x[2]]]
  BY DEF FlawSignals, base
<1>3. PICK kind \in Flaws \ {"none"}, p \in Paths : x = <<kind, p>>
  BY <1>2
<1>4. p \in Flawed(kind) /\ ~Known(base, kind, p) /\ sig.path = p /\ sig.ev = tree[p]
  BY <1>2, <1>3
<1> SUFFICES ASSUME atStart[s][p] = tree[p] PROVE FALSE
  BY <1>4
<1>5. p \in FlawedIn(atStart[s], kind)
  BY <1>4 DEF Flawed, Touched, FlawedIn
<1>6. CASE kind = "syntax"
  <2>1. p \in DOMAIN base.syntax /\ base.syntax[p] = tree[p]
    BY <1>1, <1>5, <1>6 DEF BaseOf
  <2> QED BY <1>4, <1>6, <2>1 DEF Known
<1>7. CASE kind # "syntax"
  <2>1. kind \in LineFlaws
    BY <1>7 DEF Flaws
  <2>2. <<kind, p>> \in base.lines
    BY <1>1, <1>5, <2>1 DEF BaseOf
  <2> QED BY <1>4, <1>7, <2>2 DEF Known
<1> QED BY <1>6, <1>7

\* A flaw that holds somebody back is one its file did not have when the request began: for
\* any number of baselines that are stored, expire and push each other out.
THEOREM OldDebtForgiven == GuardSpec => OldDebtNotBlamed
<1>1. ASSUME HookInv, DebtInv, NEW h \in Hooks, GuardReads(h),
             gop'[h].sig.kind \in Flaws \ {"none"}
      PROVE  atStart[gop[h].sess][gop'[h].sig.path] # gop'[h].sig.ev
  <2>1. gop'[h].sig = SigFound(h) /\ gop[h].sess \in Sessions
    BY <1>1, GuardReadsIs
  <2>2. Found(h) # {}
    BY <1>1, <2>1 DEF SigFound, NoFingerprint
  <2>3. /\ SigFound(h) \in FlawSignals(BaselineOf(gop[h].sess))
        /\ BaselineOf(gop[h].sess) # Nobody
    BY <1>1, <2>1, <2>2, SigIn, FoundKinds
  <2> QED BY <1>1, <2>1, <2>3, NewFlaw
<1>2. HookInv /\ DebtInv =>
        [\A h \in Hooks : LET sig == gop'[h].sig IN
           GuardReads(h) /\ sig.kind \in Flaws \ {"none"} =>
              atStart[gop[h].sess][sig.path] # sig.ev]_guardVars
  BY <1>1
<1> QED BY <1>2, HookInit, HookStep, DebtInit, DebtStep, PTL DEF GuardSpec, OldDebtNotBlamed

-----------------------------------------------------------------------------
(* The stall row *)

\* Between the stall row and the budget: h counted its evidence, and will be refused on it.
Counting(s, h) == gpc[h] = "bump" /\ gop[h].sess = s /\ h \notin refused[s].before

\* The hooks that were past the stall row when the request began are still before the budget.
RowsOk(s) ==
    /\ stall[s].n \in Nat /\ refused[s].same \in Nat
    /\ refused[s].before \subseteq {h \in Hooks : gpc[h] = "bump" /\ gop[h].sess = s}

RowsInv ==
    /\ scene \in Scenes
    /\ stall = [s \in Sessions |-> stall[s]]
    /\ \A s \in Sessions : RowsOk(s)

Lone == ~scene.cont /\ \A g, h \in scene.who \cap Hooks : g = h

\* A fingerprint of the guard; a plan has one path there, so equal evidence is equal.
IsFingerprint(sig) ==
    /\ sig = [kind |-> sig.kind, path |-> sig.path, ev |-> sig.ev]
    /\ sig.kind = "plan" => sig.path = "guard"

\* The row counts at least the refusals in a row on its fingerprint, and one more between
\* the row and the refusal; once the cap notice is out nobody is refused.
StallOk(s) ==
    /\ refused[s].same <= MaxStall
    /\ (\A h \in Hooks : ~Counting(s, h)) /\ budget[s].notice = "none" /\ refused[s].same > 0 =>
         refused[s].sig = stall[s].fp /\ refused[s].same <= stall[s].n
    /\ \A h \in Hooks : Counting(s, h) =>
         /\ stall[s].fp = gop[h].sig /\ stall[s].n \in 1..MaxStall
         /\ budget[s].notice = "none" /\ refused[s].same > 0 /\ refused[s].sig = gop[h].sig =>
              refused[s].same + 1 <= stall[s].n

HookOk(h) ==
    /\ gpc[h] # "cont"
    /\ gpc[h] \in {"stall", "bump"} => IsFingerprint(gop[h].sig) /\ gop[h].src = "guard"

LoneInv ==
    Lone => /\ \A s \in Sessions : StallOk(s) /\ IsFingerprint(refused[s].sig)
            /\ \A h \in Hooks : HookOk(h)

StallInv == BudgetInv /\ HookInv /\ RowsInv /\ LoneInv

LEMMA StallInit == GuardInit => RowsInv /\ LoneInv
<1> SUFFICES ASSUME GuardInit PROVE RowsInv /\ LoneInv
  OBVIOUS
<1> USE DEF GuardInit
<1>1. \A s \in Sessions : RowsOk(s)
  BY DEF RowsOk, NoStall, NothingRefused
<1>2. RowsInv
  BY <1>1 DEF RowsInv
<1>3. \A s \in Sessions : StallOk(s)
  BY GuardLimitsAssumption DEF StallOk, Counting, NothingRefused
<1>4. \A s \in Sessions : IsFingerprint(refused[s].sig)
  BY DEF IsFingerprint, NothingRefused, NoFingerprint
<1> QED BY <1>2, <1>3, <1>4 DEF LoneInv, HookOk

\* A session whose rows nobody changes, whatever its hooks that do not count do.
LEMMA Untouched ==
    ASSUME NEW s \in Sessions, RowsOk(s), StallOk(s),
           stall'[s] = stall[s], refused'[s] = refused[s],
           budget'[s].notice = "none" => budget[s].notice = "none",
           \A h \in Hooks : /\ (gpc'[h] = "bump") <=> (gpc[h] = "bump")
                            /\ gpc[h] = "bump" => gop'[h] = gop[h]
    PROVE  RowsOk(s)' /\ StallOk(s)'
<1>1. \A h \in Hooks : Counting(s, h)' <=> Counting(s, h)
  BY DEF Counting
<1>2. \A h \in Hooks : Counting(s, h) => gop'[h] = gop[h]
  BY DEF Counting
<1>3. RowsOk(s)'
  BY DEF RowsOk
<1>4. StallOk(s)'
  BY <1>1, <1>2 DEF StallOk
<1> QED BY <1>3, <1>4

\* The rows, whatever the scene.
LEMMA RowsStay ==
    ASSUME RowsInv, UNCHANGED <<scene, stall, refused>>,
           \A h \in Hooks : gpc[h] = "bump" => gpc'[h] = "bump" /\ gop'[h].sess = gop[h].sess
    PROVE  RowsInv'
BY DEF RowsInv, RowsOk

LEMMA StoreIs ==
    ASSUME RowsInv, BudgetInv, NEW s \in Sessions, PromptStore(s)
    PROVE  /\ stall'[s] = NoStall /\ refused'[s].same = 0 /\ refused'[s].sig = NoFingerprint
           /\ refused'[s].before = {h \in Hooks : gpc[h] = "bump" /\ gop[h].sess = s}
           /\ \A t \in Sessions \ {s} : stall'[t] = stall[t] /\ refused'[t] = refused[t]
           /\ UNCHANGED <<scene, budget, gpc, gop>>
           /\ RowsInv'
<1> DEFINE b == {h \in Hooks : gpc[h] = "bump" /\ gop[h].sess = s}
           new == [n |-> refused[s].n, sig |-> NoFingerprint, same |-> 0, before |-> b]
<1>1. /\ stall' = [stall EXCEPT ![s] = NoStall] /\ refused' = [refused EXCEPT ![s] = new]
      /\ UNCHANGED <<scene, budget, gpc, gop>>
  BY DEF PromptStore, treeVars
<1>2. /\ new.same = 0 /\ new.sig = NoFingerprint /\ new.before = b
  OBVIOUS
<1>3. b' = b
  BY <1>1
<1> HIDE DEF new, b
<1>4. /\ stall'[s] = NoStall /\ refused'[s] = new
      /\ \A t \in Sessions \ {s} : stall'[t] = stall[t] /\ refused'[t] = refused[t]
      /\ stall' = [t \in Sessions |-> stall'[t]]
  BY <1>1 DEF RowsInv, BudgetInv
<1>5. RowsOk(s)'
  BY <1>1, <1>2, <1>4 DEF RowsOk, NoStall, b
<1>6. \A t \in Sessions \ {s} : RowsOk(t)'
  BY <1>1, <1>4 DEF RowsInv, RowsOk
<1>7. RowsInv'
  BY <1>1, <1>4, <1>5, <1>6 DEF RowsInv
<1> QED BY <1>1, <1>2, <1>4, <1>7 DEF b

LEMMA ResetIs ==
    ASSUME RowsInv, BudgetInv, NEW s \in Sessions, PromptReset(s)
    PROVE  /\ refused'[s].same = 0 /\ refused'[s].sig = NoFingerprint
           /\ refused'[s].before = refused[s].before
           /\ \A t \in Sessions \ {s} : refused'[t] = refused[t] /\ budget'[t] = budget[t]
           /\ UNCHANGED <<scene, stall, gpc, gop>>
           /\ RowsInv'
<1> DEFINE new == [NothingRefused EXCEPT !.before = refused[s].before]
<1>1. /\ budget' = [budget EXCEPT ![s] = NoBudget] /\ refused' = [refused EXCEPT ![s] = new]
      /\ UNCHANGED <<scene, stall, gpc, gop>>
  BY DEF PromptReset, treeVars
<1>2. /\ new.same = 0 /\ new.sig = NoFingerprint /\ new.before = refused[s].before
  BY DEF NothingRefused
<1> HIDE DEF new
<1>3. /\ refused'[s] = new
      /\ \A t \in Sessions \ {s} : refused'[t] = refused[t] /\ budget'[t] = budget[t]
  BY <1>1 DEF BudgetInv
<1>4. RowsOk(s)'
  <2>1. RowsOk(s)
    BY DEF RowsInv
  <2>2. /\ refused'[s].same \in Nat /\ refused'[s].before = refused[s].before
    BY <1>2, <1>3
  <2> QED BY <1>1, <2>1, <2>2 DEF RowsOk
<1>5. \A t \in Sessions \ {s} : RowsOk(t)'
  BY <1>1, <1>3 DEF RowsInv, RowsOk
<1>6. RowsInv'
  BY <1>1, <1>4, <1>5 DEF RowsInv
<1> QED BY <1>1, <1>2, <1>3, <1>6

LEMMA StallIs ==
    ASSUME RowsInv, HookInv, NEW h \in Hooks, Stall(h), NEW s, s = gop[h].sess
    PROVE  /\ gpc[h] = "stall" /\ s \in Sessions /\ UNCHANGED <<scene, budget, refused>>
           /\ stall'[s].fp = gop[h].sig
           /\ stall'[s].n = IF stall[s].fp # gop[h].sig THEN 1
                            ELSE Least(stall[s].n + 1, MaxStall + 2)
           /\ \A t \in Sessions \ {s} : stall'[t] = stall[t]
           /\ IF stall'[s].n > MaxStall THEN gpc'[h] # "bump"
                                        ELSE gpc'[h] = "bump" /\ gop' = gop
           /\ \A g \in Hooks \ {h} : gpc'[g] = gpc[g] /\ gop'[g] = gop[g]
           /\ gop[h].src = "guard" => gpc'[h] \in {"bump", "end"}
           /\ RowsInv'
<1> DEFINE n == IF stall[s].fp # gop[h].sig THEN 1 ELSE Least(stall[s].n + 1, MaxStall + 2)
           new == [fp |-> gop[h].sig, n |-> n]
<1>1. /\ gpc[h] = "stall" /\ s \in Sessions /\ UNCHANGED <<scene, budget, refused>>
      /\ stall' = [stall EXCEPT ![s] = new]
  BY DEF Stall, HookInv, treeVars
<1>2. /\ n > MaxStall => GiveUp(h, "stall")
      /\ ~(n > MaxStall) => gpc' = [gpc EXCEPT ![h] = "bump"] /\ gop' = gop
  BY Zenon DEF Stall, Yields, GuardGoto
<1>3. n \in Nat
  <2>1. stall[s].n \in Nat /\ MaxStall \in Nat
    BY <1>1, GuardLimitsAssumption DEF RowsInv, RowsOk
  <2>2. Least(stall[s].n + 1, MaxStall + 2) \in Nat
    BY <2>1 DEF Least
  <2> QED BY <2>2
<1> HIDE DEF n
<1>4. new.fp = gop[h].sig /\ new.n = n
  OBVIOUS
<1> HIDE DEF new
<1>5. /\ stall'[s] = new /\ \A t \in Sessions \ {s} : stall'[t] = stall[t]
      /\ stall' = [t \in Sessions |-> stall'[t]]
  BY <1>1 DEF RowsInv
<1>6. /\ n > MaxStall => gpc'[h] # "bump"
      /\ ~(n > MaxStall) => gpc'[h] = "bump" /\ gop' = gop
      /\ \A g \in Hooks \ {h} : gpc'[g] = gpc[g] /\ gop'[g] = gop[g]
      /\ gop[h].src = "guard" => gpc'[h] \in {"bump", "end"}
  BY <1>1, <1>2 DEF GiveUp, GuardGoto, HookInv
<1>7. \A t \in Sessions : RowsOk(t)'
  <2> SUFFICES ASSUME NEW t \in Sessions PROVE RowsOk(t)'
    OBVIOUS
  <2>1. stall'[t].n \in Nat
    BY <1>3, <1>4, <1>5 DEF RowsInv, RowsOk
  <2>2. \A g \in refused[t].before : g \in Hooks \ {h} /\ gpc[g] = "bump" /\ gop[g].sess = t
    BY <1>1 DEF RowsInv, RowsOk
  <2> QED BY <1>1, <1>6, <2>1, <2>2 DEF RowsInv, RowsOk
<1>8. RowsInv'
  BY <1>1, <1>5, <1>7 DEF RowsInv
<1> QED BY <1>1, <1>3, <1>4, <1>5, <1>6, <1>8 DEF n

LEMMA BumpIs ==
    ASSUME RowsInv, HookInv, BudgetInv, NEW h \in Hooks, NEW late \in BOOLEAN, Bump(h, late),
           NEW s, s = gop[h].sess
    PROVE  /\ gpc[h] = "bump" /\ s \in Sessions /\ UNCHANGED <<scene, stall>>
           /\ \A t \in Sessions \ {s} : refused'[t] = refused[t] /\ budget'[t] = budget[t]
           /\ gpc'[h] \in {"end", "guard", "idle"}
           /\ gop[h].src = "guard" => gpc'[h] \in {"end", "idle"}
           /\ \A g \in Hooks \ {h} : gpc'[g] = gpc[g] /\ gop'[g] = gop[g]
           /\ \/ /\ budget'[s].notice # "none"
                 /\ refused'[s].same = refused[s].same /\ refused'[s].sig = refused[s].sig
              \/ /\ budget[s].notice = "none" /\ refused'[s] = Refusal(refused[s], h)
           /\ RowsInv'
<1> DEFINE less == [refused[s] EXCEPT !.before = refused[s].before \ {h}]
           more == Refusal(refused[s], h)
<1>1. gpc[h] = "bump" /\ s \in Sessions /\ UNCHANGED <<scene, stall>>
  BY DEF Bump, HookInv, treeVars
<1>2. CapReached(s, late) =>
         /\ refused' = [refused EXCEPT ![s] = less]
         /\ budget' = [budget EXCEPT ![s] = [budget[s] EXCEPT !.notice = "pending"]]
         /\ GiveUp(h, "cap")
  BY DEF Bump
<1>3. ~CapReached(s, late) =>
         /\ refused' = [refused EXCEPT ![s] = more]
         /\ budget[s].notice = "none"
         /\ budget' = [budget EXCEPT ![s] = [n |-> budget[s].n + 1, notice |-> "none"]]
         /\ gpc' = [gpc EXCEPT ![h] = "idle"] /\ gop' = [gop EXCEPT ![h] = NoHook]
  BY DEF Bump, GuardGoto
<1>4. /\ RefusedShape(refused[s])
      /\ refused[s].same \in Nat
      /\ refused[s].before \subseteq {g \in Hooks : gpc[g] = "bump" /\ gop[g].sess = s}
  BY <1>1 DEF RowsInv, RowsOk, BudgetInv
<1>5. /\ less.same = refused[s].same /\ less.sig = refused[s].sig
      /\ less.before = refused[s].before \ {h}
  BY <1>4 DEF RefusedShape
<1>6. /\ more.same \in Nat /\ more.before = refused[s].before \ {h}
  <2>1. CASE h \in refused[s].before
    BY <1>4, <2>1 DEF Refusal, RefusedShape
  <2>2. CASE h \notin refused[s].before
    <3>1. more = [refused[s] EXCEPT !.n = @ + 1, !.sig = gop[h].sig,
                    !.same = IF SameEvidence(refused[s].sig, gop[h].sig) THEN @ + 1 ELSE 1]
      BY <2>2 DEF Refusal
    <3>2. /\ more.same = IF SameEvidence(refused[s].sig, gop[h].sig) THEN refused[s].same + 1
                         ELSE 1
          /\ more.before = refused[s].before
      <4> HIDE DEF more
      <4> QED BY <1>4, <3>1 DEF RefusedShape
    <3> HIDE DEF more
    <3> QED BY <1>4, <2>2, <3>2
  <2> QED BY <2>1, <2>2
<1>7. [budget[s] EXCEPT !.notice = "pending"].notice = "pending"
  BY <1>1 DEF BudgetInv
<1> HIDE DEF less, more
<1>8. /\ refused' = [t \in Sessions |-> refused'[t]]
      /\ \A t \in Sessions \ {s} : refused'[t] = refused[t] /\ budget'[t] = budget[t]
      /\ CapReached(s, late) => refused'[s] = less /\ budget'[s].notice = "pending"
      /\ ~CapReached(s, late) => refused'[s] = more
  BY <1>1, <1>2, <1>3, <1>7 DEF BudgetInv
<1>9. /\ gpc'[h] \in {"end", "guard", "idle"}
      /\ gop[h].src = "guard" => gpc'[h] \in {"end", "idle"}
      /\ \A g \in Hooks \ {h} : gpc'[g] = gpc[g] /\ gop'[g] = gop[g]
  BY <1>1, <1>2, <1>3 DEF GiveUp, GuardGoto, HookInv
<1>10. \A t \in Sessions \ {s} : RowsOk(t)'
  <2> SUFFICES ASSUME NEW t \in Sessions \ {s} PROVE RowsOk(t)'
    OBVIOUS
  <2>1. \A g \in refused[t].before : g \in Hooks \ {h} /\ gpc[g] = "bump" /\ gop[g].sess = t
    <3>1. refused[t].before \subseteq {g \in Hooks : gpc[g] = "bump" /\ gop[g].sess = t}
      BY DEF RowsInv, RowsOk
    <3> QED BY <3>1
  <2>2. \A g \in refused[t].before : gpc'[g] = "bump" /\ gop'[g].sess = t
    BY <1>9, <2>1
  <2>3. refused'[t] = refused[t] /\ stall' = stall /\ RowsOk(t)
    BY <1>1, <1>8 DEF RowsInv
  <2> QED BY <2>1, <2>2, <2>3 DEF RowsOk
<1>11. RowsOk(s)'
  <2>1. \A g \in refused[s].before \ {h} : g \in Hooks /\ gpc'[g] = "bump" /\ gop'[g].sess = s
    BY <1>4, <1>9
  <2>2. \/ refused'[s] = less \/ refused'[s] = more
    BY <1>8
  <2>3. /\ refused'[s].same \in Nat /\ refused'[s].before = refused[s].before \ {h}
    BY <1>4, <1>5, <1>6, <2>2
  <2>4. stall'[s] = stall[s] /\ RowsOk(s)
    BY <1>1 DEF RowsInv
  <2> QED BY <2>1, <2>3, <2>4 DEF RowsOk
<1>12. RowsInv'
  <2>1. \A t \in Sessions : RowsOk(t)'
    BY <1>10, <1>11
  <2> QED BY <1>1, <2>1 DEF RowsInv
<1>13. \/ /\ budget'[s].notice # "none"
          /\ refused'[s].same = refused[s].same /\ refused'[s].sig = refused[s].sig
       \/ /\ budget[s].notice = "none" /\ refused'[s] = Refusal(refused[s], h)
  BY <1>3, <1>5, <1>8 DEF more
<1> QED BY <1>1, <1>8, <1>9, <1>12, <1>13

LEMMA SameIsEqual ==
    ASSUME NEW a, NEW b, IsFingerprint(a), IsFingerprint(b), SameEvidence(a, b)
    PROVE  a = b
BY DEF IsFingerprint, SameEvidence

LEMMA FoundFingerprint ==
    ASSUME NEW h \in Hooks, NEW sig \in Found(h)
    PROVE  IsFingerprint(sig)
<1> DEFINE base == BaselineOf(gop[h].sess)
           row == ledger[gop[h].sess]
<1>1. \/ sig \in PlanSignals(base, "guard") \/ sig \in FlawSignals(base)
      \/ sig \in VerificationSignals(row) \/ sig \in AcceptanceSignals(base)
  BY DEF Found
<1>2. CASE sig \in PlanSignals(base, "guard")
  <2>1. sig = [kind |-> "plan", path |-> "guard", ev |-> planDone]
    BY <1>2 DEF PlanSignals
  <2> QED BY <2>1 DEF IsFingerprint
<1>3. CASE sig \in FlawSignals(base)
  <2>1. PICK kind \in Flaws \ {"none"}, p \in Paths :
            sig = [kind |-> kind, path |-> p, ev |-> tree[p]]
    BY <1>3 DEF FlawSignals
  <2> QED BY <2>1 DEF IsFingerprint, Flaws, LineFlaws
<1>4. CASE sig \in VerificationSignals(row)
  <2>1. sig = [kind |-> "verification", path |-> Nobody, ev |-> row.mut]
    BY <1>4 DEF VerificationSignals
  <2> QED BY <2>1 DEF IsFingerprint
<1>5. CASE sig \in AcceptanceSignals(base)
  <2>1. sig = [kind |-> "acceptance", path |-> Nobody, ev |-> Nobody]
    BY <1>5 DEF AcceptanceSignals
  <2> QED BY <2>1 DEF IsFingerprint
<1> QED BY <1>1, <1>2, <1>3, <1>4, <1>5

\* With one hook at a time, the others are idle while one works.
LEMMA OthersIdle ==
    ASSUME HookInv, Lone, NEW h \in Hooks, gpc[h] # "idle"
    PROVE  \A g \in Hooks \ {h} : gpc[g] = "idle"
BY DEF HookInv, Lone

\* A hook that goes on without touching a row, and does not begin or end to count.
LEMMA HookMoves ==
    ASSUME StallInv, UNCHANGED <<scene, stall, refused>>, NEW h \in Hooks,
           \A s \in Sessions : budget'[s].notice = "none" => budget[s].notice = "none",
           gpc[h] # "bump", gpc'[h] # "bump",
           \A g \in Hooks \ {h} : gpc'[g] = gpc[g] /\ gop'[g] = gop[g],
           Lone => HookOk(h)'
    PROVE  RowsInv' /\ LoneInv'
<1>1. RowsInv'
  BY RowsStay DEF StallInv
<1>2. Lone' = Lone
  BY DEF Lone
<1>3. ASSUME Lone PROVE /\ \A s \in Sessions : StallOk(s)' /\ IsFingerprint(refused[s].sig)'
                        /\ \A g \in Hooks : HookOk(g)'
  <2>1. \A s \in Sessions : StallOk(s) /\ IsFingerprint(refused[s].sig) /\ RowsOk(s)
    BY <1>3 DEF StallInv, LoneInv, RowsInv
  <2>2. \A s \in Sessions : IsFingerprint(refused[s].sig)'
    BY <2>1 DEF IsFingerprint
  <2>3. \A s \in Sessions : StallOk(s)'
    BY <2>1, Untouched
  <2>4. \A g \in Hooks \ {h} : HookOk(g)'
    BY <1>3 DEF StallInv, LoneInv, HookOk, IsFingerprint
  <2> QED BY <1>3, <2>2, <2>3, <2>4
<1> QED BY <1>1, <1>2, <1>3 DEF LoneInv

LEMMA LoneStays ==
    ASSUME StallInv, UNCHANGED <<scene, stall, refused, budget, gpc, gop>>
    PROVE  RowsInv' /\ LoneInv'
<1>1. RowsInv'
  BY RowsStay DEF StallInv
<1>2. LoneInv'
  BY DEF StallInv, LoneInv, Lone, StallOk, Counting, IsFingerprint, HookOk
<1> QED BY <1>1, <1>2

LEMMA LoneStore ==
    ASSUME StallInv, NEW s \in Sessions, PromptStore(s)
    PROVE  RowsInv' /\ LoneInv'
<1>1. RowsInv /\ BudgetInv /\ LoneInv
  BY DEF StallInv
<1>2. /\ refused'[s].same = 0 /\ refused'[s].sig = NoFingerprint
      /\ refused'[s].before = {h \in Hooks : gpc[h] = "bump" /\ gop[h].sess = s}
      /\ \A t \in Sessions \ {s} : stall'[t] = stall[t] /\ refused'[t] = refused[t]
      /\ UNCHANGED <<scene, budget, gpc, gop>> /\ RowsInv'
  BY <1>1, StoreIs
<1>3. ASSUME Lone PROVE /\ \A t \in Sessions : StallOk(t)' /\ IsFingerprint(refused[t].sig)'
                        /\ \A h \in Hooks : HookOk(h)'
  <2>1. \A t \in Sessions : StallOk(t) /\ IsFingerprint(refused[t].sig) /\ RowsOk(t)
    BY <1>1, <1>3 DEF LoneInv, RowsInv
  <2>2. \A t \in Sessions \ {s} : StallOk(t)' /\ IsFingerprint(refused[t].sig)'
    BY <1>2, <2>1, Untouched DEF IsFingerprint
  <2>3. \A h \in Hooks : ~Counting(s, h)'
    BY <1>2 DEF Counting
  <2>4. StallOk(s)'
    BY <1>2, <2>3, GuardLimitsAssumption DEF StallOk
  <2>5. IsFingerprint(refused[s].sig)'
    BY <1>2 DEF IsFingerprint, NoFingerprint
  <2>6. \A h \in Hooks : HookOk(h)'
    BY <1>1, <1>2, <1>3 DEF LoneInv, HookOk, IsFingerprint
  <2> QED BY <2>2, <2>4, <2>5, <2>6
<1> QED BY <1>2, <1>3 DEF LoneInv, Lone

LEMMA LoneReset ==
    ASSUME StallInv, NEW s \in Sessions, PromptReset(s)
    PROVE  RowsInv' /\ LoneInv'
<1>1. RowsInv /\ BudgetInv /\ LoneInv
  BY DEF StallInv
<1>2. /\ refused'[s].same = 0 /\ refused'[s].sig = NoFingerprint
      /\ refused'[s].before = refused[s].before
      /\ \A t \in Sessions \ {s} : refused'[t] = refused[t] /\ budget'[t] = budget[t]
      /\ UNCHANGED <<scene, stall, gpc, gop>> /\ RowsInv'
  BY <1>1, ResetIs
<1>3. ASSUME Lone PROVE /\ \A t \in Sessions : StallOk(t)' /\ IsFingerprint(refused[t].sig)'
                        /\ \A h \in Hooks : HookOk(h)'
  <2>1. \A t \in Sessions : StallOk(t) /\ IsFingerprint(refused[t].sig) /\ RowsOk(t)
    BY <1>1, <1>3 DEF LoneInv, RowsInv
  <2>2. \A t \in Sessions \ {s} : StallOk(t)' /\ IsFingerprint(refused[t].sig)'
    BY <1>2, <2>1, Untouched DEF IsFingerprint
  <2>3. \A h \in Hooks : Counting(s, h)' <=> Counting(s, h)
    BY <1>2 DEF Counting
  <2>4. StallOk(s)'
    BY <1>2, <2>1, <2>3, GuardLimitsAssumption DEF StallOk
  <2>5. IsFingerprint(refused[s].sig)'
    BY <1>2 DEF IsFingerprint, NoFingerprint
  <2>6. \A h \in Hooks : HookOk(h)'
    BY <1>1, <1>2, <1>3 DEF LoneInv, HookOk, IsFingerprint
  <2> QED BY <2>2, <2>4, <2>5, <2>6
<1> QED BY <1>2, <1>3 DEF LoneInv, Lone

LEMMA LoneStall ==
    ASSUME StallInv, NEW h \in Hooks, Stall(h)
    PROVE  RowsInv' /\ LoneInv'
<1>1. RowsInv /\ BudgetInv /\ LoneInv /\ HookInv
  BY DEF StallInv
<1>2. PICK s : s = gop[h].sess
  OBVIOUS
<1>3. /\ gpc[h] = "stall" /\ s \in Sessions /\ UNCHANGED <<scene, budget, refused>>
      /\ stall'[s].fp = gop[h].sig
      /\ stall'[s].n = IF stall[s].fp # gop[h].sig THEN 1
                       ELSE Least(stall[s].n + 1, MaxStall + 2)
      /\ \A t \in Sessions \ {s} : stall'[t] = stall[t]
      /\ IF stall'[s].n > MaxStall THEN gpc'[h] # "bump" ELSE gpc'[h] = "bump" /\ gop' = gop
      /\ \A g \in Hooks \ {h} : gpc'[g] = gpc[g] /\ gop'[g] = gop[g]
      /\ gop[h].src = "guard" => gpc'[h] \in {"bump", "end"}
      /\ RowsInv'
  BY <1>1, <1>2, StallIs
<1>4. ASSUME Lone PROVE /\ \A t \in Sessions : StallOk(t)' /\ IsFingerprint(refused[t].sig)'
                        /\ \A g \in Hooks : HookOk(g)'
  <2>1. \A t \in Sessions : StallOk(t) /\ IsFingerprint(refused[t].sig) /\ RowsOk(t)
    BY <1>1, <1>4 DEF LoneInv, RowsInv
  <2>2. \A g \in Hooks \ {h} : gpc[g] = "idle"
    BY <1>1, <1>3, <1>4, OthersIdle
  <2>3. \A g \in Hooks : gpc[g] # "bump"
    BY <1>3, <2>2
  <2>4. IsFingerprint(gop[h].sig) /\ gop[h].src = "guard"
    BY <1>1, <1>3, <1>4 DEF LoneInv, HookOk
  <2>5. \A g \in Hooks : HookOk(g)'
    <3>1. HookOk(h)'
      BY <1>3, <2>4 DEF HookOk
    <3>2. \A g \in Hooks \ {h} : HookOk(g)'
      BY <1>3, <2>2 DEF HookOk
    <3> QED BY <3>1, <3>2
  <2>6. \A t \in Sessions : IsFingerprint(refused[t].sig)'
    BY <1>3, <2>1 DEF IsFingerprint
  <2>7. ASSUME NEW t \in Sessions \ {s} PROVE StallOk(t)'
    <3>1. \A g \in Hooks : ~Counting(t, g)
      BY <2>3 DEF Counting
    <3>2. \A g \in Hooks : ~Counting(t, g)'
      BY <1>2, <1>3, <2>2 DEF Counting
    <3>3. stall'[t] = stall[t] /\ refused'[t] = refused[t] /\ budget'[t] = budget[t]
      BY <1>3, <2>7
    <3> QED BY <2>1, <3>1, <3>2, <3>3 DEF StallOk
  <2>8. StallOk(s)'
    <3>1. \A g \in Hooks : ~Counting(s, g)
      BY <2>3 DEF Counting
    <3>2. /\ refused[s].same \in Nat /\ refused[s].same <= MaxStall /\ stall[s].n \in Nat
          /\ budget[s].notice = "none" /\ refused[s].same > 0 =>
               refused[s].sig = stall[s].fp /\ refused[s].same <= stall[s].n
      BY <1>3, <2>1, <3>1 DEF StallOk, RowsOk
    <3>3. \A g \in Hooks \ {h} : ~Counting(s, g)'
      BY <1>3, <2>2 DEF Counting
    <3>4. refused'[s] = refused[s] /\ budget'[s] = budget[s]
      BY <1>3
    <3>5. CASE stall'[s].n > MaxStall
      <4>1. ~Counting(s, h)'
        BY <1>3, <3>5 DEF Counting
      <4>2. stall[s].fp = gop[h].sig /\ stall'[s].fp = stall[s].fp
        BY <1>3, <3>5, GuardLimitsAssumption
      <4>3. budget[s].notice = "none" /\ refused[s].same > 0 => refused[s].same <= stall'[s].n
        BY <1>3, <3>2, <3>5, GuardLimitsAssumption DEF RowsInv, RowsOk
      <4> QED BY <3>2, <3>3, <3>4, <4>1, <4>2, <4>3 DEF StallOk
    <3>6. CASE ~(stall'[s].n > MaxStall)
      <4>1. gpc'[h] = "bump" /\ gop' = gop
        BY <1>3, <3>6
      <4>2. refused[s].before \subseteq {g \in Hooks : gpc[g] = "bump" /\ gop[g].sess = s}
        BY <1>3, <2>1 DEF RowsOk
      <4>3. Counting(s, h)'
        BY <1>2, <1>3, <3>4, <4>1, <4>2 DEF Counting
      <4>4. stall'[s].n \in 1..MaxStall
        BY <1>3, <3>2, <3>6, GuardLimitsAssumption DEF Least
      <4>5. ASSUME budget[s].notice = "none", refused[s].same > 0, refused[s].sig = gop[h].sig
            PROVE  refused[s].same + 1 <= stall'[s].n
        <5>1. stall[s].fp = gop[h].sig /\ refused[s].same <= stall[s].n
          BY <3>2, <4>5
        <5> QED BY <1>3, <3>2, <3>6, <5>1, GuardLimitsAssumption DEF Least
      <4> QED BY <1>3, <3>2, <3>3, <3>4, <4>1, <4>3, <4>4, <4>5 DEF StallOk
    <3> QED BY <3>5, <3>6
  <2> QED BY <2>5, <2>6, <2>7, <2>8
<1> QED BY <1>3, <1>4 DEF LoneInv, Lone

LEMMA LoneBump ==
    ASSUME StallInv, NEW h \in Hooks, NEW late \in BOOLEAN, Bump(h, late)
    PROVE  RowsInv' /\ LoneInv'
<1>1. RowsInv /\ BudgetInv /\ LoneInv /\ HookInv
  BY DEF StallInv
<1>2. PICK s : s = gop[h].sess
  OBVIOUS
<1>3. /\ gpc[h] = "bump" /\ s \in Sessions /\ UNCHANGED <<scene, stall>>
      /\ \A t \in Sessions \ {s} : refused'[t] = refused[t] /\ budget'[t] = budget[t]
      /\ gop[h].src = "guard" => gpc'[h] \in {"end", "idle"}
      /\ \A g \in Hooks \ {h} : gpc'[g] = gpc[g] /\ gop'[g] = gop[g]
      /\ \/ /\ budget'[s].notice # "none"
            /\ refused'[s].same = refused[s].same /\ refused'[s].sig = refused[s].sig
         \/ /\ budget[s].notice = "none" /\ refused'[s] = Refusal(refused[s], h)
      /\ RowsInv'
  BY <1>1, <1>2, BumpIs
<1>4. ASSUME Lone PROVE /\ \A t \in Sessions : StallOk(t)' /\ IsFingerprint(refused[t].sig)'
                        /\ \A g \in Hooks : HookOk(g)'
  <2>1. \A t \in Sessions : StallOk(t) /\ IsFingerprint(refused[t].sig) /\ RowsOk(t)
    BY <1>1, <1>4 DEF LoneInv, RowsInv
  <2>2. \A g \in Hooks \ {h} : gpc[g] = "idle"
    BY <1>1, <1>3, <1>4, OthersIdle
  <2>3. IsFingerprint(gop[h].sig) /\ gop[h].src = "guard"
    BY <1>1, <1>3, <1>4 DEF LoneInv, HookOk
  <2>4. \A g \in Hooks : gpc'[g] # "bump" /\ HookOk(g)'
    <3>1. gpc'[h] \in {"end", "idle"}
      BY <1>3, <2>3
    <3>2. \A g \in Hooks \ {h} : gpc'[g] = "idle"
      BY <1>3, <2>2
    <3> QED BY <3>1, <3>2 DEF HookOk
  <2>5. \A t \in Sessions, g \in Hooks : ~Counting(t, g)'
    BY <2>4 DEF Counting
  <2>6. ASSUME NEW t \in Sessions \ {s} PROVE StallOk(t)' /\ IsFingerprint(refused[t].sig)'
    <3>1. \A g \in Hooks : ~Counting(t, g)
      BY <1>2, <2>2, <2>6 DEF Counting
    <3>2. stall'[t] = stall[t] /\ refused'[t] = refused[t] /\ budget'[t] = budget[t]
      BY <1>3, <2>6
    <3> QED BY <2>1, <2>5, <3>1, <3>2 DEF StallOk, IsFingerprint
  <2>7. StallOk(s)' /\ IsFingerprint(refused[s].sig)'
    <3>0. stall'[s] = stall[s] /\ refused[s].same \in Nat /\ RefusedShape(refused[s])
      BY <1>1, <1>3, <2>1 DEF RowsOk, BudgetInv
    <3>1. refused[s].same <= MaxStall /\ IsFingerprint(refused[s].sig)
      BY <1>3, <2>1 DEF StallOk
    <3>2. CASE budget'[s].notice # "none" /\ refused'[s].same = refused[s].same
               /\ refused'[s].sig = refused[s].sig
      BY <1>3, <2>5, <3>1, <3>2 DEF StallOk, IsFingerprint
    <3>3. CASE budget[s].notice = "none" /\ refused'[s] = Refusal(refused[s], h)
      <4>1. CASE h \in refused[s].before
        <5>1. refused'[s].same = refused[s].same /\ refused'[s].sig = refused[s].sig
          BY <3>0, <3>3, <4>1 DEF Refusal, RefusedShape
        <5>2. \A g \in Hooks : ~Counting(s, g)
          BY <2>2, <4>1 DEF Counting
        <5>3. refused[s].same > 0 =>
                 refused[s].sig = stall[s].fp /\ refused[s].same <= stall[s].n
          BY <1>3, <2>1, <3>3, <5>2 DEF StallOk
        <5> QED BY <1>3, <2>5, <3>0, <3>1, <5>1, <5>3 DEF StallOk, IsFingerprint
      <4>2. CASE h \notin refused[s].before
        <5>1. refused'[s] = [refused[s] EXCEPT !.n = @ + 1, !.sig = gop[h].sig,
                 !.same = IF SameEvidence(refused[s].sig, gop[h].sig) THEN @ + 1 ELSE 1]
          BY <3>3, <4>2 DEF Refusal
        <5>2. /\ refused'[s].sig = gop[h].sig
              /\ refused'[s].same = IF SameEvidence(refused[s].sig, gop[h].sig)
                                    THEN refused[s].same + 1 ELSE 1
          BY <3>0, <5>1 DEF RefusedShape
        <5>3. Counting(s, h)
          BY <1>2, <1>3, <4>2 DEF Counting
        <5>4. /\ stall[s].fp = gop[h].sig /\ stall[s].n \in 1..MaxStall
              /\ refused[s].same > 0 /\ refused[s].sig = gop[h].sig =>
                    refused[s].same + 1 <= stall[s].n
          BY <1>3, <2>1, <3>3, <5>3 DEF StallOk
        <5>5. SameEvidence(refused[s].sig, gop[h].sig) => refused[s].sig = gop[h].sig
          BY <2>3, <3>1, SameIsEqual
        <5>6. refused'[s].same <= stall[s].n
          BY <3>0, <5>2, <5>4, <5>5, GuardLimitsAssumption
        <5>7. refused'[s].same <= MaxStall
          BY <3>0, <5>2, <5>4, <5>6, GuardLimitsAssumption
        <5>8. IsFingerprint(refused[s].sig)'
          BY <2>3, <5>2 DEF IsFingerprint
        <5> QED BY <1>3, <2>5, <3>0, <5>2, <5>4, <5>6, <5>7, <5>8 DEF StallOk
      <4> QED BY <4>1, <4>2
    <3> QED BY <1>3, <3>2, <3>3
  <2> QED BY <2>4, <2>6, <2>7
<1> QED BY <1>3, <1>4 DEF LoneInv, Lone

LEMMA StallStep == StallInv /\ [GuardNext]_guardVars => RowsInv' /\ LoneInv'
<1> SUFFICES ASSUME StallInv, [GuardNext]_guardVars PROVE RowsInv' /\ LoneInv'
  OBVIOUS
<1>1. HookInv /\ BudgetInv
  BY DEF StallInv
<1>2. ASSUME NEW h \in Hooks, NEW s \in Sessions, NEW kind, NEW rail, StopBegin(h, s, kind, rail)
      PROVE  RowsInv' /\ LoneInv'
  <2>1. /\ gpc[h] = "idle" /\ UNCHANGED <<scene, stall, budget, refused>>
        /\ gpc' = [gpc EXCEPT ![h] = IF rail THEN "end"
                      ELSE IF scene.cont /\ kind = "stop" THEN "cont" ELSE "guard"]
        /\ \A g \in Hooks \ {h} : gop'[g] = gop[g]
    BY <1>1, <1>2 DEF StopBegin, GuardGoto, treeVars, stateVars, HookInv
  <2>2. gpc'[h] \in {"end", "cont", "guard"} /\ (Lone => gpc'[h] # "cont")
    BY <1>1, <2>1 DEF HookInv, Lone
  <2>3. \A g \in Hooks \ {h} : gpc'[g] = gpc[g]
    BY <1>1, <2>1 DEF HookInv
  <2> QED BY <2>1, <2>2, <2>3, HookMoves DEF HookOk
<1>3. ASSUME NEW h \in Hooks, ContinuationReads(h) PROVE RowsInv' /\ LoneInv'
  <2>1. /\ gpc[h] = "cont" /\ UNCHANGED <<scene, stall, budget, refused>>
        /\ gpc'[h] \in {"guard", "stall"}
    BY <1>1, <1>3 DEF ContinuationReads, GuardGoto, treeVars, stateVars, HookInv
  <2>2. \A g \in Hooks \ {h} : gpc'[g] = gpc[g]
    BY <1>1, <1>3 DEF ContinuationReads, GuardGoto, HookInv
  <2>3. \A g \in Hooks \ {h} : gop'[g] = gop[g]
    BY <1>1, <1>3 DEF ContinuationReads, HookInv
  <2>4. ~Lone
    BY <2>1 DEF StallInv, LoneInv, HookOk
  <2> QED BY <2>1, <2>2, <2>3, <2>4, HookMoves
<1>4. ASSUME NEW h \in Hooks, GuardReads(h) PROVE RowsInv' /\ LoneInv'
  <2>1. UNCHANGED <<scene, stall, budget, refused>>
    BY <1>4 DEF GuardReads, treeVars, stateVars
  <2>2. /\ gpc[h] = "guard"
        /\ gop' = [gop EXCEPT ![h] = [gop[h] EXCEPT !.src = "guard", !.sig = SigFound(h),
                                                   !.how = HowFound(h)]]
        /\ gop'[h].sig = SigFound(h) /\ gop'[h].src = "guard"
        /\ gpc' = [gpc EXCEPT ![h] = IF Found(h) # {} THEN "stall"
                                     ELSE IF Uncertain(h) THEN "note" ELSE "end"]
    BY <1>1, <1>4, GuardReadsIs
  <2>3. \A g \in Hooks \ {h} : gpc'[g] = gpc[g] /\ gop'[g] = gop[g]
    BY <1>1, <2>2 DEF HookInv
  <2>4. gpc'[h] = IF Found(h) # {} THEN "stall" ELSE IF Uncertain(h) THEN "note" ELSE "end"
    BY <1>1, <2>2 DEF HookInv
  <2>5. Found(h) # {} => IsFingerprint(SigFound(h))
    BY SigIn, FoundFingerprint
  <2>6. HookOk(h)'
    BY <2>2, <2>4, <2>5 DEF HookOk, IsFingerprint
  <2>7. gpc[h] # "bump" /\ gpc'[h] # "bump"
    BY <2>2, <2>4
  <2> QED BY <2>1, <2>3, <2>6, <2>7, HookMoves
<1>5. ASSUME NEW h \in Hooks, NoteDegraded(h) PROVE RowsInv' /\ LoneInv'
  <2>1. /\ UNCHANGED <<scene, stall, budget, refused, gop>> /\ gpc[h] = "note"
        /\ gpc'[h] = "end" /\ \A g \in Hooks \ {h} : gpc'[g] = gpc[g]
    BY <1>1, <1>5 DEF NoteDegraded, GuardGoto, treeVars, HookInv
  <2> QED BY <2>1, HookMoves DEF HookOk
<1>6. ASSUME NEW h \in Hooks, LetGo(h) PROVE RowsInv' /\ LoneInv'
  <2>1. /\ UNCHANGED <<scene, stall, refused>> /\ gpc[h] = "end" /\ gpc'[h] = "idle"
        /\ \A g \in Hooks \ {h} : gpc'[g] = gpc[g] /\ gop'[g] = gop[g]
    BY <1>1, <1>6 DEF LetGo, GuardGoto, treeVars, HookInv
  <2>2. PICK s : s = gop[h].sess
    OBVIOUS
  <2>3. \E told : /\ budget' = [budget EXCEPT ![s] = [budget[s] EXCEPT !.notice = told]]
                  /\ told = "none" => budget[s].notice = "none"
    <3> DEFINE told == IF budget[s].notice = "pending" /\ gop[h].kind = "stop" THEN "emitted"
                       ELSE budget[s].notice
    <3>1. budget' = [budget EXCEPT ![s] = [budget[s] EXCEPT !.notice = told]]
      BY <1>6, <2>2 DEF LetGo
    <3>2. told = "none" => budget[s].notice = "none"
      OBVIOUS
    <3> HIDE DEF told
    <3> QED BY <3>1, <3>2
  <2>4. \A t \in Sessions : budget'[t].notice = "none" => budget[t].notice = "none"
    BY <1>1, <2>3 DEF BudgetInv
  <2> QED BY <2>1, <2>4, HookMoves DEF HookOk
<1>7. ASSUME NEW h \in Hooks, Hook(h) PROVE RowsInv' /\ LoneInv'
  BY <1>3, <1>4, <1>5, <1>6, <1>7, LoneStall, LoneBump DEF Hook
<1>8. ASSUME \/ \E p \in Paths : \E c \in Contents[p] : OutsideEdit(p, c)
             \/ \E s, p, c, told, level : ToolRuns(s, p, c, told, level)
             \/ \E pass : AcceptanceRuns(pass)
             \/ PlanMarked
             \/ \E toolCall \in calls : ToolObserved(toolCall)
             \/ \E s \in Sessions : PromptCapture(s)
             \/ BaselineExpires
             \/ UNCHANGED guardVars
      PROVE  UNCHANGED <<scene, stall, refused, budget, gpc, gop>>
  BY <1>8 DEF OutsideEdit, ToolRuns, AcceptanceRuns, PlanMarked, ToolObserved, PromptCapture,
     BaselineExpires, guardVars, treeVars, stateVars, hookVars, historyVars
<1> QED BY <1>2, <1>7, <1>8, LoneStays, LoneStore, LoneReset DEF GuardNext

\* No evidence refuses more than MAX_STALL_REPEATS stops of a request in a row, when one hook
\* runs at a time and plans are not continued: whatever the tools, the user and the other
\* sessions do between the stops.
THEOREM StallBounded == GuardSpec => []StallYields
<1>1. StallInv => StallYields
  <2> SUFFICES ASSUME StallInv, ~scene.cont, Cardinality(scene.who \cap Hooks) <= 1,
                      NEW s \in Sessions
               PROVE  refused[s].same <= MaxStall
    BY DEF StallYields
  <2>1. \A g, h \in scene.who \cap Hooks : g = h
    <3> DEFINE S == scene.who \cap Hooks
    <3>1. IsFiniteSet(S)
      BY GuardNamesAssumption, FS_Subset
    <3> SUFFICES ASSUME NEW g \in S, NEW h \in S, g # h PROVE FALSE
      OBVIOUS
    <3>2. /\ Cardinality(S \ {g}) = Cardinality(S) - 1 /\ IsFiniteSet(S \ {g})
          /\ Cardinality(S) \in Nat
      BY <3>1, FS_RemoveElement, FS_CardinalityType
    <3>3. Cardinality(S \ {g}) \in Nat
      BY <3>2, FS_CardinalityType
    <3>4. Cardinality(S \ {g}) = 0
      BY <3>2, <3>3
    <3>5. S \ {g} = {}
      BY <3>2, <3>4, FS_EmptySet
    <3> QED BY <3>5
  <2>2. Lone
    BY <2>1 DEF Lone
  <2> QED BY <2>2 DEF StallInv, LoneInv, StallOk
<1>2. GuardInit => StallInv
  BY BudgetInvInit, HookInit, StallInit DEF StallInv
<1>3. StallInv /\ [GuardNext]_guardVars => StallInv'
  BY BudgetInvStep, HookStep, StallStep DEF StallInv
<1> QED BY <1>1, <1>2, <1>3, PTL DEF GuardSpec
=============================================================================
