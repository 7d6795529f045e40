--------------------------- MODULE SteppingProofs ---------------------------
(***************************************************************************)
(* Theorems of Debugger about stepping: every single-step exception is     *)
(* claimed, and every lifted breakpoint is put back.  Both are about       *)
(* behaviours in which the Windows calls succeed, whatever the threads of  *)
(* the game and the user do.                                               *)
(***************************************************************************)
EXTENDS DebuggerProofs

-----------------------------------------------------------------------------
(* Behaviours in which every Windows call succeeds.                        *)

\* While no call has failed nothing is left behind: a step after which none
\* has failed leaves nothing.
LEMMA NothingFailed ==
  ASSUME TypeOK, [Next]_vars, failures' = 0
  PROVE  failures = 0 /\ residue' = residue
<1>n. failures \in Nat /\ residue \in BOOLEAN
  BY MaxFailuresNat DEF TypeOK
<1>s. ASSUME NEW n \in Nat, Spend(n) PROVE n = 0 /\ failures = 0
  BY <1>n, <1>s DEF Spend
<1>i. ASSUME NEW orig, NEW o \in InsertOutcomes(orig), Spend(o.cost), Leaves(o)
      PROVE  failures = 0 /\ residue' = residue
  <2>1. o.cost \in Nat
    BY <1>i DEF InsertOutcomes
  <2>2. o.cost = 0 /\ failures = 0
    BY <1>i, <2>1, <1>s
  <2> QED BY <1>i, <1>n, <2>2 DEF Leaves
<1>c. ASSUME NEW t, NEW status, ContinueEvent(t, status) PROVE failures = 0
  BY <1>c, <1>s DEF ContinueEvent
<1>d. ASSUME NEW s, Detach(s) PROVE failures = 0 /\ residue' = residue
  <2>1. PICK stuck \in SUBSET { a \in Addrs : breakpoint[a] = "inserted" },
             kept \in SUBSET trap_threads :
          /\ Spend(Cardinality(stuck) + Cardinality(kept))
          /\ residue' = (residue \/ stuck \cup kept # {})
    BY <1>d DEF Detach
  <2>2. IsFiniteSet(stuck) /\ IsFiniteSet(kept)
    <3>1. stuck \subseteq Addrs /\ kept \subseteq Threads
      BY DEF TypeOK
    <3> QED BY <3>1, FS_Subset, Finite
  <2>3. Cardinality(stuck) \in Nat /\ Cardinality(kept) \in Nat
    BY <2>2, FS_CardinalityType
  <2>4. Cardinality(stuck) + Cardinality(kept) = 0 /\ failures = 0
    BY <2>1, <2>3, <1>s
  <2>5. Cardinality(stuck) = 0 /\ Cardinality(kept) = 0
    BY <2>3, <2>4
  <2>6. stuck = {} /\ kept = {}
    BY <2>2, <2>5, FS_EmptySet
  <2> QED BY <2>1, <2>4, <2>6, <1>n
<1>r. ASSUME NEW o, NEW b, o \in ReinsertOutcomes(b), Leaves(o),
             \/ o.ok /\ failures = 0
             \/ Spend(IF o.ok THEN 1 ELSE o.cost)
             \/ Spend(o.cost) \/ Spend(o.cost + 1)
      PROVE  failures = 0 /\ residue' = residue
  <2>1. o.cost \in {0, 1, 2} /\ (o.ok => o.cost = 0) /\ (~ o.ok => o.cost # 0)
    BY <1>r DEF ReinsertOutcomes, InsertOutcomes
  <2>2. /\ o.cost \in Nat /\ o.cost + 1 \in Nat /\ (IF o.ok THEN 1 ELSE o.cost) \in Nat
        /\ o.cost + 1 # 0 /\ (IF o.ok THEN 1 ELSE o.cost) # 0
    BY <2>1
  <2>3. failures = 0 /\ o.cost # 2
    BY <1>r, <2>1, <2>2, <1>s
  <2> QED BY <1>r, <1>n, <2>3 DEF Leaves
<1>1. ASSUME NEW t \in Threads, Game(t) PROVE failures = 0 /\ residue' = residue
  BY <1>1 DEF Game, ExecInt3, ExecInstruction, ExecBreakIn, ExitThread, SpawnThread,
     RaiseFault, DispatchFault, core
<1>2. CASE ExitProcess \/ Relaunch \/ UNCHANGED vars
  BY <1>2 DEF ExitProcess, Relaunch, vars, core
<1>3. CASE User
  <2>1. ASSUME NEW a \in Addrs, AddBreakpoint(a) PROVE failures = 0 /\ residue' = residue
    BY <2>1, <1>i DEF AddBreakpoint
  <2>2. ASSUME NEW a \in Addrs, RemoveBreakpoint(a) PROVE failures = 0 /\ residue' = residue
    <3>1. \A o \in RestoreOutcomes(a) : o.cost \in Nat
      BY DEF RestoreOutcomes
    <3> QED BY <2>2, <3>1, <1>s DEF RemoveBreakpoint
  <2>3. ASSUME NEW step \in BOOLEAN, ContinueHeld(step) PROVE failures = 0 /\ residue' = residue
    BY <2>3, <1>s DEF ContinueHeld
  <2>4. ASSUME NEW k \in BreakInThreads, Attach(k) \/ Pause(k)
        PROVE  failures = 0 /\ residue' = residue
    BY <2>4 DEF Attach, Pause
  <2>5. CASE LeaveDebugMode
    BY <2>5 DEF LeaveDebugMode
  <2> QED BY <1>3, <2>1, <2>2, <2>3, <2>4, <2>5 DEF User, Continue, Step
<1>4. CASE HandleCommand \/ WaitFails
  <2>1. CASE HandleDetach /\ ~ Detach("none")
    BY <2>1 DEF HandleDetach
  <2> QED BY <1>4, <2>1, <1>d DEF HandleCommand, HandleDetach, DeferredDetach, WaitFails
<1>5. CASE HandleEvents
  <2> DEFINE e == Head(events)
  <2>e. HandleEvent(e)
    BY <1>5 DEF HandleEvents
  <2> HIDE DEF e
  <2>1. CASE BreakpointHit(e)
    BY <2>1, <1>s DEF BreakpointHit
  <2>2. CASE OtherBreakpoint(e) \/ OtherException(e)
    BY <2>2, <1>c DEF OtherBreakpoint, OtherException
  <2>3. CASE StepOverDone(e)
    <3>1. PICK o \in ReinsertOutcomes(pending_reinsert[e.thread].addr) :
            /\ Leaves(o)
            /\ \/ o.ok /\ (UNCHANGED failures \/ ContinueEvent(e.thread, "continue"))
               \/ Spend(IF o.ok THEN 1 ELSE o.cost)
      BY <2>3 DEF StepOverDone
    <3>2. \/ o.ok /\ failures = 0
          \/ Spend(IF o.ok THEN 1 ELSE o.cost)
      BY <3>1, <1>c
    <3> QED BY <3>1, <3>2, <1>r
  <2>4. CASE ExplicitStepDone(e)
    BY <2>4, <1>s DEF ExplicitStepDone
  <2>5. CASE ThreadExited(e)
    <3>1. CASE pending_reinsert[e.thread] = None
      <4>1. PICK o \in { [ok |-> TRUE, cost |-> 0] } :
              Leaves(o) /\ (Spend(o.cost) \/ Spend(o.cost + 1))
        BY <2>5, <3>1 DEF ThreadExited
      <4>2. o.cost = 0 /\ o.cost + 1 = 1
        BY <4>1
      <4> QED BY <4>1, <4>2, <1>s, <1>n DEF Leaves
    <3>2. CASE pending_reinsert[e.thread] # None
      <4>1. PICK o \in ReinsertOutcomes(pending_reinsert[e.thread].addr) :
              Leaves(o) /\ (Spend(o.cost) \/ Spend(o.cost + 1))
        BY <2>5, <3>2 DEF ThreadExited
      <4> QED BY <4>1, <1>r
    <3> QED BY <3>1, <3>2
  <2>6. CASE ProcessExited(e)
    BY <2>6, <1>s DEF ProcessExited
  <2> QED BY <2>e, <2>1, <2>2, <2>3, <2>4, <2>5, <2>6 DEF HandleEvent
<1> QED BY <1>1, <1>2, <1>3, <1>4, <1>5 DEF Next

\* Nothing is left behind as long as no call has failed.
Clean == failures = 0 => ~ residue

\* Only a clean-up that fails leaves something behind.
LEMMA StaysClean == Spec => []Clean
<1>1. Init => Clean
  BY DEF Init, Clean
<1>2. TypeOK /\ Clean /\ [Next]_vars => Clean'
  BY NothingFailed DEF Clean
<1> QED BY <1>1, <1>2, TypeCorrect, PTL DEF Spec

-----------------------------------------------------------------------------
(* Steps.                                                                  *)

\* The single-step exception of a thread is one the debugger will claim.
StepClaimed(t) ==
  /\ tf[t] => \/ pending_reinsert[t] # None
              \/ t \in explicit_steps
              \/ HeldBy(t) /\ held.kind = "Breakpoint"
  /\ thread[t] = "single_step" /\ ~ HeldBy(t) => tf[t]

\* States in which no event of a thread waits for the debugger.
Loose == {"unborn", "running", "dispatching", "lost"}

StepInv ==
  failures = 0 /\ alive =>
    IF Debugged THEN \A t \in Threads : StepClaimed(t)
                ELSE \A t \in Threads : thread[t] \in Loose

\* Whatever was reported of a thread, continuing it or letting go of it
\* leaves no event of it.
LEMMA LooseAgain ==
  /\ \A s, status : s \in ThreadState => Resumed(s, status) \in Loose
  /\ \A s \in ThreadState : Released(s) \subseteq Loose
BY DEF Resumed, Released, Loose, ThreadState

\* A breakpoint to put back is not None.
LEMMA PendingIsSome ==
  ASSUME NEW a \in Addrs, NEW stop \in BOOLEAN
  PROVE  [addr |-> a, stop |-> stop] # None
BY NoneIsNoRecord DEF PendingReinsert

\* The steps of the game's threads.
LEMMA GameClaims ==
  ASSUME TypeOK, NEW t \in Threads, Game(t), StepInv, failures = 0, alive
  PROVE  StepInv'
<1>t. thread \in [Threads -> ThreadState] /\ tf \in [Threads -> BOOLEAN]
  BY DEF TypeOK
<1>1. UNCHANGED <<session, pending_reinsert, explicit_steps, held, alive>> /\ held = None
  BY DEF Game, ExecInt3, ExecInstruction, ExecBreakIn, ExitThread, SpawnThread,
     RaiseFault, DispatchFault, core, steps, Runs, Scheduled
<1>2. \A u \in Threads : u # t => thread'[u] = thread[u] /\ tf'[u] = tf[u]
  BY <1>t DEF Game, ExecInt3, ExecInstruction, ExecBreakIn, ExitThread, SpawnThread,
     RaiseFault, DispatchFault, Trap
<1>3. tf'[t] => tf[t]
  BY <1>t DEF Game, ExecInt3, ExecInstruction, ExecBreakIn, ExitThread, SpawnThread,
     RaiseFault, DispatchFault
<1>4. thread'[t] = "single_step" => thread[t] = "single_step" \/ (Debugged /\ tf'[t])
  BY <1>t DEF Game, ExecInt3, ExecInstruction, ExecBreakIn, ExitThread, SpawnThread,
     RaiseFault, DispatchFault, Trap
<1>5. thread[t] \in Loose
  BY DEF Game, ExecInt3, ExecInstruction, ExecBreakIn, ExitThread, SpawnThread,
     RaiseFault, DispatchFault, Runs, Loose
<1>6. ~ Debugged => thread'[t] \in Loose
  BY <1>t, <1>5 DEF Game, ExecInt3, ExecInstruction, ExecBreakIn, ExitThread, SpawnThread,
     RaiseFault, DispatchFault, Trap, Loose
<1>7. CASE Debugged
  <2>1. ASSUME NEW u \in Threads PROVE StepClaimed(u)'
    <3>1. StepClaimed(u)
      BY <1>7 DEF StepInv
    <3>2. CASE u = t
      BY <1>1, <1>3, <1>4, <1>5, <3>1, <3>2 DEF StepClaimed, HeldBy, Loose
    <3>3. CASE u # t
      BY <1>1, <1>2, <3>1, <3>3 DEF StepClaimed, HeldBy
    <3> QED BY <3>2, <3>3
  <2> QED BY <1>1, <1>7, <2>1 DEF StepInv, Debugged
<1>8. CASE ~ Debugged
  BY <1>1, <1>2, <1>6, <1>8 DEF StepInv, Debugged
<1> QED BY <1>7, <1>8

\* The clicks of the user.
LEMMA UserClaims ==
  ASSUME TypeOK, Clean, TrapFlagsOwned, User, StepInv, failures = 0, failures' = 0, alive
  PROVE  StepInv'
<1>t. /\ thread \in [Threads -> ThreadState] /\ tf \in [Threads -> BOOLEAN]
      /\ pending_reinsert \in [Threads -> PendingReinsert \cup {None}]
  BY DEF TypeOK
<1>1. ASSUME NEW k \in BreakInThreads, Attach(k) PROVE StepInv'
  <2>1. k \in Threads /\ ~ Debugged /\ \A u \in Threads : ~ tf[u]
    BY <1>1 DEF Attach, Debugged, TrapFlagsOwned, Clean, Threads
  <2>2. ASSUME NEW u \in Threads PROVE StepClaimed(u)'
    BY <1>1, <1>t, <2>1 DEF Attach, StepInv, StepClaimed, Loose
  <2>3. Debugged'
    BY <1>1 DEF Attach, Debugged
  <2> QED BY <2>2, <2>3 DEF StepInv
<1>2. ASSUME NEW k \in BreakInThreads, Pause(k) PROVE StepInv'
  <2>1. k \in Threads /\ Debugged /\ Debugged'
    BY <1>2 DEF Pause, TakesCommands, Debugged, Threads
  <2>2. ASSUME NEW u \in Threads PROVE StepClaimed(u)'
    BY <1>2, <1>t, <2>1 DEF Pause, StepInv, StepClaimed, HeldBy, steps
  <2> QED BY <2>1, <2>2 DEF StepInv
<1>3. ASSUME UNCHANGED <<thread, tf, pending_reinsert, explicit_steps, held>>,
             Debugged' <=> Debugged
      PROVE  StepInv'
  BY <1>3 DEF StepInv, StepClaimed, HeldBy
<1>4. ASSUME NEW a \in Addrs, AddBreakpoint(a) \/ RemoveBreakpoint(a) PROVE StepInv'
  BY <1>4, <1>3 DEF AddBreakpoint, RemoveBreakpoint, game, steps, Debugged
<1>5. CASE LeaveDebugMode
  BY <1>5, <1>3 DEF LeaveDebugMode, game, steps, Debugged
<1>6. ASSUME NEW step \in BOOLEAN, ContinueHeld(step) PROVE StepInv'
  <2>0. Debugged /\ Debugged' /\ held # None /\ held.thread \in Threads
    BY <1>6, HeldFields DEF ContinueHeld, TakesCommands, Debugged
  <2> DEFINE t == held.thread
             sets_trap == step /\ held.kind # "Breakpoint"
  <2>1. ~ Spend(1)
    BY MaxFailuresNat DEF Spend
  <2>2. /\ tf' = IF sets_trap THEN [tf EXCEPT ![t] = TRUE] ELSE tf
        /\ Resume(t, IF step THEN "continue" ELSE held.status)
        /\ held' = None
        /\ pending_reinsert' = IF held.kind = "Breakpoint"
                                 THEN [pending_reinsert EXCEPT
                                         ![t] = [addr |-> held.addr, stop |-> step]]
                                 ELSE pending_reinsert
        /\ explicit_steps' = IF sets_trap THEN explicit_steps \cup {t} ELSE explicit_steps
    BY <1>6, <2>1 DEF ContinueHeld
  <2>3. thread'[t] \in Loose /\ \A u \in Threads : u # t => thread'[u] = thread[u]
    BY <1>t, <2>0, <2>2, LooseAgain DEF Resume
  <2>4. held.kind = "Breakpoint" => pending_reinsert'[t] # None
    <3>1. [addr |-> held.addr, stop |-> step] # None \/ held.kind # "Breakpoint"
      BY PendingIsSome, HeldFields, <2>0
    <3> QED BY <1>t, <2>0, <2>2, <3>1
  <2>5. ASSUME NEW u \in Threads PROVE StepClaimed(u)'
    <3>1. StepClaimed(u)
      BY <2>0 DEF StepInv
    <3>2. CASE u = t
      <4>1. tf'[u] => pending_reinsert'[u] # None \/ u \in explicit_steps'
        BY <1>t, <2>0, <2>2, <2>4, <3>1, <3>2 DEF StepClaimed
      <4> QED BY <2>3, <3>2, <4>1 DEF StepClaimed, Loose
    <3>3. CASE u # t
      BY <1>t, <2>0, <2>2, <2>3, <3>1, <3>3 DEF StepClaimed, HeldBy
    <3> QED BY <3>2, <3>3
  <2> QED BY <2>0, <2>5 DEF StepInv
<1> QED BY <1>1, <1>2, <1>4, <1>5, <1>6 DEF User, Continue, Step

\* A detach leaves no event of any thread.
LEMMA DetachClaims ==
  ASSUME TypeOK, NEW s \in {"none", "ended"}, Detach(s)
  PROVE  StepInv'
<1>1. session' = s
  BY DEF Detach
<1>2. ASSUME NEW u \in Threads PROVE thread'[u] \in Loose
  BY LooseAgain DEF Detach, TypeOK
<1> QED BY <1>1, <1>2 DEF StepInv, Debugged

\* What the worker does with an event of thread t: the others are as they
\* were, and t is held or continued.
LEMMA ReportClaims ==
  ASSUME TypeOK, StepInv, failures = 0, alive, Debugged, Debugged', held = None,
         NEW t \in Threads,
         \A u \in Threads : u # t => /\ thread'[u] = thread[u] /\ tf'[u] = tf[u]
                                     /\ pending_reinsert'[u] = pending_reinsert[u]
                                     /\ u \in explicit_steps => u \in explicit_steps',
         held' = None \/ held'.thread = t,
         HeldBy(t)' \/ thread'[t] \in Loose,
         tf'[t] => \/ pending_reinsert'[t] # None
                   \/ t \in explicit_steps'
                   \/ HeldBy(t)' /\ held'.kind = "Breakpoint"
  PROVE  StepInv'
<1>1. ASSUME NEW u \in Threads PROVE StepClaimed(u)'
  <2>1. StepClaimed(u)
    BY DEF StepInv
  <2>2. CASE u = t
    BY <2>2 DEF StepClaimed, Loose
  <2>3. CASE u # t
    <3>1. /\ thread'[u] = thread[u] /\ tf'[u] = tf[u]
          /\ pending_reinsert'[u] = pending_reinsert[u]
          /\ u \in explicit_steps => u \in explicit_steps'
      BY <2>3
    <3>2. ~ HeldBy(u) /\ ~ HeldBy(u)'
      BY <2>3 DEF HeldBy
    <3> QED BY <2>1, <3>1, <3>2 DEF StepClaimed
  <2> QED BY <2>2, <2>3
<1> QED BY <1>1 DEF StepInv

\* The worker's handlers.
LEMMA HandlerClaims ==
  ASSUME TypeOK, ExitMeansDead, HandleEvents, StepInv, failures = 0, failures' = 0, alive
  PROVE  StepInv'
<1>e. PICK e : e = Head(events) /\ HandleEvent(e)
  BY DEF HandleEvents
<1>x. ~ ProcessExited(e)
  BY <1>e, DeadWhenExitReported
<1> DEFINE t == e.thread
<1>r. Reports(e)
  BY <1>e, <1>x DEF HandleEvent, BreakpointHit, OtherBreakpoint, StepOverDone,
     ExplicitStepDone, OtherException, ThreadExited
<1>t. /\ thread \in [Threads -> ThreadState] /\ tf \in [Threads -> BOOLEAN]
      /\ pending_reinsert \in [Threads -> PendingReinsert \cup {None}]
      /\ t \in Threads
  BY <1>r, ReportedEvent DEF TypeOK
<1>h. held = None /\ Debugged
  BY <1>r DEF Reports
<1>s. ~ Spend(1)
  BY DEF Spend
<1>n. ASSUME NEW kind, NEW a, NEW status,
             Hold(t, kind, a, status), a \in Addrs \/ a = None,
             kind \in {"SingleStep", "Exception", "Breakpoint"}, status \in Status,
             kind = "Breakpoint" <=> a \in Addrs
      PROVE  held'.thread = t /\ held'.kind = kind /\ HeldBy(t)'
  <2>1. [thread |-> t, kind |-> kind, addr |-> a, status |-> status] \in HeldEvent
    BY <1>n, <1>t, NoneDistinct DEF HeldEvent
  <2> QED BY <1>n, <2>1, NoneIsNoRecord DEF Hold, HeldBy
<1>c. ASSUME NEW status, ContinueEvent(t, status)
      PROVE  /\ held' = None /\ thread'[t] \in Loose
             /\ \A u \in Threads : u # t => thread'[u] = thread[u]
  <2>1. Resume(t, status) /\ held' = None
    BY <1>c, <1>s, <1>h DEF ContinueEvent
  <2> QED BY <2>1, <1>t, LooseAgain DEF Resume
<1>m. tf[t] => pending_reinsert[t] # None \/ t \in explicit_steps
  BY <1>h, <1>t DEF StepInv, StepClaimed, HeldBy
<1>1. CASE BreakpointHit(e)
  <2>1. /\ thread' = [thread EXCEPT ![t] = "stopped"]
        /\ tf' = [tf EXCEPT ![t] = TRUE]
        /\ Hold(t, "Breakpoint", e.addr, "continue")
        /\ UNCHANGED <<pending_reinsert, explicit_steps, session>> /\ e.addr \in Addrs
    BY <1>1, <1>s DEF BreakpointHit
  <2>2. held'.thread = t /\ held'.kind = "Breakpoint" /\ HeldBy(t)'
    BY <2>1, <1>n DEF Status
  <2>3. Debugged'
    BY <1>h, <2>1 DEF Debugged
  <2> QED BY <1>t, <1>h, <2>1, <2>2, <2>3, ReportClaims
<1>2. CASE OtherBreakpoint(e) \/ OtherException(e)
  <2>1. UNCHANGED <<tf, pending_reinsert, explicit_steps, session>>
    BY <1>2 DEF OtherBreakpoint, OtherException, steps
  <2>2. \/ \E status : ContinueEvent(t, status)
        \/ \E status \in Status : Hold(t, "Exception", None, status) /\ UNCHANGED thread
    BY <1>2 DEF OtherBreakpoint, OtherException, Status
  <2>3. /\ held' = None \/ held'.thread = t
        /\ HeldBy(t)' \/ thread'[t] \in Loose
        /\ \A u \in Threads : u # t => thread'[u] = thread[u]
    BY <2>2, <1>n, <1>c, NoneDistinct
  <2>4. Debugged'
    BY <1>h, <2>1 DEF Debugged
  <2> QED BY <1>t, <1>h, <1>m, <2>1, <2>3, <2>4, ReportClaims
<1>3. CASE StepOverDone(e)
  <2>1. /\ ClearTrapFlag(t)
        /\ pending_reinsert' = [pending_reinsert EXCEPT ![t] = None]
        /\ \/ Hold(t, "SingleStep", None, "continue") /\ UNCHANGED thread
           \/ ContinueEvent(t, "continue")
        /\ UNCHANGED <<explicit_steps, session>>
    <3>1. \A a : \A o \in ReinsertOutcomes(a) : ~ Spend(IF o.ok THEN 1 ELSE o.cost)
      BY DEF ReinsertOutcomes, InsertOutcomes, Spend
    <3> QED BY <1>3, <3>1 DEF StepOverDone
  <2>2. /\ held' = None \/ held'.thread = t
        /\ HeldBy(t)' \/ thread'[t] \in Loose
        /\ \A u \in Threads : u # t => thread'[u] = thread[u]
    BY <2>1, <1>n, <1>c, NoneDistinct DEF Status
  <2>3. Debugged'
    BY <1>h, <2>1 DEF Debugged
  <2>4. ~ tf'[t] /\ \A u \in Threads : u # t => tf'[u] = tf[u]
    BY <1>t, <2>1 DEF ClearTrapFlag
  <2>5. \A u \in Threads : u # t => pending_reinsert'[u] = pending_reinsert[u]
    BY <1>t, <2>1
  <2> QED BY <1>t, <1>h, <2>1, <2>2, <2>3, <2>4, <2>5, ReportClaims
<1>4. CASE ExplicitStepDone(e)
  <2>1. /\ ClearTrapFlag(t)
        /\ explicit_steps' = explicit_steps \ {t}
        /\ Hold(t, "SingleStep", None, "continue")
        /\ UNCHANGED <<thread, pending_reinsert, session>>
    BY <1>4, <1>s DEF ExplicitStepDone
  <2>2. held'.thread = t /\ HeldBy(t)'
    BY <2>1, <1>n, NoneDistinct DEF Status
  <2>3. Debugged'
    BY <1>h, <2>1 DEF Debugged
  <2>4. ~ tf'[t] /\ \A u \in Threads : u # t => tf'[u] = tf[u]
    BY <1>t, <2>1 DEF ClearTrapFlag
  <2> QED BY <1>t, <1>h, <2>1, <2>2, <2>3, <2>4, ReportClaims
<1>5. CASE ThreadExited(e)
  <2>1. /\ tf' = [tf EXCEPT ![t] = FALSE]
        /\ explicit_steps' = explicit_steps \ {t}
        /\ pending_reinsert' = [pending_reinsert EXCEPT ![t] = None]
        /\ UNCHANGED session
        /\ \/ Resume(t, "continue") /\ UNCHANGED held
           \/ Hold(t, "Exception", None, "continue") /\ UNCHANGED thread
    BY <1>5 DEF ThreadExited
  <2>2. /\ held' = None \/ held'.thread = t
        /\ HeldBy(t)' \/ thread'[t] \in Loose
        /\ \A u \in Threads : u # t => thread'[u] = thread[u]
    <3>1. CASE Resume(t, "continue") /\ UNCHANGED held
      BY <3>1, <1>h, <1>t, LooseAgain DEF Resume
    <3>2. CASE Hold(t, "Exception", None, "continue") /\ UNCHANGED thread
      BY <3>2, <1>n, NoneDistinct DEF Status
    <3> QED BY <2>1, <3>1, <3>2
  <2>3. Debugged'
    BY <1>h, <2>1 DEF Debugged
  <2> QED BY <1>t, <1>h, <2>1, <2>2, <2>3, ReportClaims
<1> QED BY <1>e, <1>x, <1>1, <1>2, <1>3, <1>4, <1>5 DEF HandleEvent

\* Whatever the threads of the game and the user do, a thread that runs with
\* the trap flag, or whose single-step exception is queued, is one the
\* debugger will claim: it never passes an exception of its own to the game.
THEOREM EveryStepIsClaimed == Spec => []StepsAreClaimed
<1>1. Init => StepInv
  BY DEF Init, StepInv, Debugged, FreshThreads, Loose
<1>2. /\ TypeOK /\ ExitMeansDead /\ TrapFlagsOwned /\ Clean /\ StepInv /\ [Next]_vars
      => StepInv'
  <2> SUFFICES ASSUME TypeOK, ExitMeansDead, TrapFlagsOwned, Clean, StepInv, [Next]_vars,
                      failures' = 0, alive'
               PROVE  StepInv'
    BY DEF StepInv
  <2>1. failures = 0
    BY NothingFailed
  <2>2. CASE Relaunch
    BY <2>2 DEF Relaunch, StepInv, Debugged, core, FreshThreads, Loose
  <2>3. CASE ExitProcess
    BY <2>3 DEF ExitProcess
  <2>4. CASE UNCHANGED vars
    BY <2>4 DEF vars, game, steps, StepInv, StepClaimed, HeldBy, Debugged
  <2>5. CASE (\E t \in Threads : Game(t)) \/ User \/ HandleCommand \/ HandleEvents \/ WaitFails
    <3>1. alive
      BY <2>5 DEF Game, ExecInt3, ExecInstruction, ExecBreakIn, ExitThread, SpawnThread,
         RaiseFault, DispatchFault, User, Attach, Pause, AddBreakpoint, RemoveBreakpoint,
         Continue, Step, ContinueHeld, LeaveDebugMode, HandleCommand, HandleDetach,
         DeferredDetach, WaitFails, Detach, HandleEvents, HandleEvent, BreakpointHit,
         OtherBreakpoint, StepOverDone, ExplicitStepDone, OtherException, ThreadExited,
         ProcessExited, game
    <3>2. CASE \E t \in Threads : Game(t)
      BY <2>1, <3>1, <3>2, GameClaims
    <3>3. CASE User
      BY <2>1, <3>1, <3>3, UserClaims
    <3>4. CASE HandleCommand \/ WaitFails
      <4>1. CASE HandleDetach /\ ~ Detach("none")
        BY <4>1 DEF HandleDetach, game, steps, StepInv, StepClaimed, HeldBy, Debugged
      <4> QED
        BY <3>4, <4>1, DetachClaims DEF HandleCommand, HandleDetach, DeferredDetach, WaitFails
    <3>5. CASE HandleEvents
      BY <2>1, <3>1, <3>5, HandlerClaims
    <3> QED BY <2>5, <3>2, <3>3, <3>4, <3>5
  <2> QED BY <2>2, <2>3, <2>4, <2>5 DEF Next
<1>3. StepInv => StepsAreClaimed
  BY DEF StepInv, StepClaimed, StepsAreClaimed, HeldBy
<1> QED BY <1>1, <1>2, <1>3, TypeCorrect, ExitEventIsLast, TrapFlagsAreOwned, StaysClean,
           PTL DEF Spec

-----------------------------------------------------------------------------
(* Lifted breakpoints.  The queue of debug events, the held event and the  *)
(* threads agree with each other as long as no call fails and no           *)
(* instruction of the game raises an exception of its own.                 *)

\* The thread of a queued event is stopped the way the event says.
Fits(e) ==
  \/ /\ e.code = "breakpoint" /\ e.addr \in Addrs
     /\ thread[e.thread] = "breakpoint" /\ at[e.thread] = e.addr
  \/ e.code = "breakpoint" /\ e.addr \notin Addrs /\ thread[e.thread] = "stopped"
  \/ e.code = "single_step" /\ thread[e.thread] = "single_step"
  \/ e.code = "exit_thread" /\ thread[e.thread] = "exited"

\* A thread has one event at most, queued or held.
QueueFits ==
  /\ \A i \in 1 .. Len(events) : Fits(events[i]) /\ ~ HeldBy(events[i].thread)
  /\ \A i, j \in 1 .. Len(events) : events[i].thread = events[j].thread => i = j

HeldFits ==
  held # None =>
    IF held.kind = "Breakpoint"
      THEN /\ thread[held.thread] = "stopped" /\ at[held.thread] = held.addr
           /\ tf[held.thread]
      ELSE thread[held.thread] \in {"stopped", "breakpoint", "single_step"}

\* A thread with a breakpoint to put back is still at it with the trap flag
\* set, is held on it again, has its step or its exit queued, or is lost.
StepFits(t) ==
  pending_reinsert[t] # None =>
    \/ /\ thread[t] \in {"running", "breakpoint"}
       /\ at[t] = pending_reinsert[t].addr /\ tf[t]
    \/ /\ thread[t] = "stopped" /\ HeldBy(t) /\ held.kind = "Breakpoint"
       /\ held.addr = pending_reinsert[t].addr
    \/ thread[t] \in {"single_step", "exited"} /\ ~ HeldBy(t)
    \/ thread[t] = "lost"

AllFits == QueueFits /\ HeldFits /\ \A t \in Threads : StepFits(t)

LiftInv == failures = 0 /\ alive /\ Debugged => AllFits

\* Without a session nothing is held, pending or queued.
SessionOnly ==
  ~ Debugged => /\ held = None
                /\ \A t \in Threads : pending_reinsert[t] = None
                /\ alive => events = << >>

NoFaults == \A t \in Threads : thread[t] \notin {"fault", "second_chance", "dispatching"}

-----------------------------------------------------------------------------
\* The worker's state belongs to its session.
LEMMA StateNeedsSession == Spec => []SessionOnly
<1>1. Init => SessionOnly
  BY DEF Init, SessionOnly
<1>2. TypeOK /\ ExitMeansDead /\ SessionOnly /\ [Next]_vars => SessionOnly'
  <2> SUFFICES ASSUME TypeOK, ExitMeansDead, SessionOnly, [Next]_vars, ~ Debugged'
               PROVE  SessionOnly'
    BY DEF SessionOnly
  <2>1. CASE ~ Debugged
    <3>1. UNCHANGED <<held, pending_reinsert>>
      <4>1. held = None
        BY <2>1 DEF SessionOnly
      <4>2. ASSUME NEW t \in Threads, Game(t) PROVE UNCHANGED <<held, pending_reinsert>>
        BY <4>2 DEF Game, ExecInt3, ExecInstruction, ExecBreakIn, ExitThread, SpawnThread,
           RaiseFault, DispatchFault, core, steps
      <4>3. CASE ExitProcess \/ Relaunch \/ UNCHANGED vars
        BY <4>3 DEF ExitProcess, Relaunch, vars, core, steps
      <4>4. CASE User
        BY <2>1, <4>1, <4>4 DEF User, Attach, Pause, AddBreakpoint, RemoveBreakpoint, Continue,
           Step, ContinueHeld, LeaveDebugMode, TakesCommands, steps, Debugged
      <4>5. ~ HandleCommand /\ ~ HandleEvents /\ ~ WaitFails
        BY <2>1 DEF HandleCommand, HandleDetach, DeferredDetach, WaitFails, HandleEvents,
           HandleEvent, BreakpointHit, OtherBreakpoint, StepOverDone, ExplicitStepDone,
           OtherException, ThreadExited, ProcessExited, Reports
      <4> QED BY <4>2, <4>3, <4>4, <4>5 DEF Next
    <3>2. alive' => events' = << >>
      <4>1. ASSUME NEW t \in Threads, Game(t) PROVE UNCHANGED <<alive, events>>
        BY <2>1, <4>1 DEF Game, ExecInt3, ExecInstruction, ExecBreakIn, ExitThread,
           SpawnThread, RaiseFault, DispatchFault, Trap
      <4>2. CASE ExitProcess \/ Relaunch \/ UNCHANGED vars
        BY <4>2, <2>1 DEF ExitProcess, Relaunch, vars, game, SessionOnly
      <4>3. CASE User
        BY <2>1, <4>3 DEF User, Attach, Pause, AddBreakpoint, RemoveBreakpoint, Continue,
           Step, ContinueHeld, LeaveDebugMode, TakesCommands, game, SessionOnly
      <4>4. ~ HandleCommand /\ ~ HandleEvents /\ ~ WaitFails
        BY <2>1 DEF HandleCommand, HandleDetach, DeferredDetach, WaitFails, HandleEvents,
           HandleEvent, BreakpointHit, OtherBreakpoint, StepOverDone, ExplicitStepDone,
           OtherException, ThreadExited, ProcessExited, Reports
      <4> QED BY <2>1, <4>1, <4>2, <4>3, <4>4 DEF Next, SessionOnly
    <3> QED BY <2>1, <3>1, <3>2 DEF SessionOnly
  <2>2. CASE Debugged
    <3>1. CASE \E s : Detach(s)
      BY <3>1 DEF Detach, DropCore, SessionOnly
    <3>2. CASE HandleEvents /\ ProcessExited(Head(events)) /\ DropCore
      <4>1. ~ alive /\ UNCHANGED alive
        BY <3>2, DeadWhenExitReported DEF ProcessExited, game
      <4> QED BY <3>2, <4>1 DEF DropCore, SessionOnly
    <3>3. CASE UNCHANGED session
      BY <2>2, <3>3 DEF Debugged
    <3>4. (\E s : Detach(s)) \/ UNCHANGED session
          \/ (HandleEvents /\ ProcessExited(Head(events)) /\ DropCore)
      <4>1. ASSUME NEW t \in Threads, Game(t) PROVE UNCHANGED session
        BY <4>1 DEF Game, ExecInt3, ExecInstruction, ExecBreakIn, ExitThread, SpawnThread,
           RaiseFault, DispatchFault, core
      <4>2. CASE ExitProcess \/ Relaunch \/ UNCHANGED vars
        BY <4>2 DEF ExitProcess, Relaunch, vars, core
      <4>3. CASE User
        BY <2>2, <4>3 DEF User, Attach, Pause, AddBreakpoint, RemoveBreakpoint, Continue,
           Step, ContinueHeld, LeaveDebugMode, Debugged
      <4>4. CASE HandleCommand \/ WaitFails
        BY <4>4 DEF HandleCommand, HandleDetach, DeferredDetach, WaitFails
      <4>5. CASE HandleEvents
        BY <4>5 DEF HandleEvents, HandleEvent, BreakpointHit, OtherBreakpoint, StepOverDone,
           ExplicitStepDone, OtherException, ThreadExited, ProcessExited
      <4> QED BY <4>1, <4>2, <4>3, <4>4, <4>5 DEF Next
    <3> QED BY <3>1, <3>2, <3>3, <3>4
  <2> QED BY <2>1, <2>2
<1> QED BY <1>1, <1>2, TypeCorrect, ExitEventIsLast, PTL DEF Spec

\* Where the game raises no exceptions of its own, no thread is ever in the
\* middle of one.
LEMMA FaultsNeedFaults == ASSUME ~ GameFaults PROVE Spec => []NoFaults
<1>1. Init => NoFaults
  BY DEF Init, NoFaults, FreshThreads
<1>2. TypeOK /\ NoFaults /\ [Next]_vars => NoFaults'
  <2> SUFFICES ASSUME TypeOK, NoFaults, [Next]_vars, NEW u \in Threads
               PROVE  thread'[u] \notin {"fault", "second_chance", "dispatching"}
    BY DEF NoFaults
  <2>t. /\ thread \in [Threads -> ThreadState]
        /\ thread[u] \notin {"fault", "second_chance", "dispatching"}
    BY DEF TypeOK, NoFaults
  <2>r. ASSUME NEW t \in Threads, NEW status, Resume(t, status)
        PROVE  thread'[u] \notin {"fault", "second_chance", "dispatching"}
    BY <2>r, <2>t DEF Resume, Resumed
  <2>c. ASSUME NEW t \in Threads, NEW status, ContinueEvent(t, status)
        PROVE  thread'[u] \notin {"fault", "second_chance", "dispatching"}
    BY <2>c, <2>r, <2>t DEF ContinueEvent
  <2>1. ASSUME NEW t \in Threads, Game(t)
        PROVE  thread'[u] \notin {"fault", "second_chance", "dispatching"}
    BY <2>1, <2>t DEF Game, ExecInt3, ExecInstruction, ExecBreakIn, ExitThread, SpawnThread,
       RaiseFault, DispatchFault, Trap, NoFaults
  <2>2. CASE ExitProcess \/ Relaunch \/ UNCHANGED vars
    BY <2>2, <2>t DEF ExitProcess, Relaunch, FreshThreads, vars, game
  <2>3. CASE User
    <3>1. ASSUME NEW step \in BOOLEAN, ContinueHeld(step)
          PROVE  thread'[u] \notin {"fault", "second_chance", "dispatching"}
      BY <3>1, <2>r, <2>t, HeldFields DEF ContinueHeld
    <3> QED
      BY <2>3, <2>t, <3>1 DEF User, Attach, Pause, AddBreakpoint, RemoveBreakpoint, Continue,
         Step, LeaveDebugMode, game
  <2>d. ASSUME NEW s, Detach(s)
        PROVE  thread'[u] \notin {"fault", "second_chance", "dispatching"}
    BY <2>d, <2>t DEF Detach, Released, Resumed
  <2>4. CASE HandleCommand \/ WaitFails
    BY <2>4, <2>d, <2>t DEF HandleCommand, HandleDetach, DeferredDetach, WaitFails, game
  <2>5. CASE HandleEvents
    <3>e. PICK e : e = Head(events) /\ HandleEvent(e)
      BY <2>5 DEF HandleEvents
    <3>t. Reports(e) => e.thread \in Threads
      BY ReportedEvent
    <3>1. CASE BreakpointHit(e)
      BY <3>1, <3>t, <2>t DEF BreakpointHit
    <3>2. CASE OtherBreakpoint(e) \/ OtherException(e)
      BY <3>2, <3>t, <2>t, <2>c DEF OtherBreakpoint, OtherException
    <3>3. CASE StepOverDone(e) \/ ExplicitStepDone(e)
      BY <3>3, <3>t, <2>t, <2>c DEF StepOverDone, ExplicitStepDone
    <3>4. CASE ThreadExited(e)
      BY <3>4, <3>t, <2>t, <2>r DEF ThreadExited
    <3>5. CASE ProcessExited(e)
      BY <3>5, <2>t DEF ProcessExited, game
    <3> QED BY <3>e, <3>1, <3>2, <3>3, <3>4, <3>5 DEF HandleEvent
  <2> QED BY <2>1, <2>2, <2>3, <2>4, <2>5 DEF Next
<1> QED BY <1>1, <1>2, TypeCorrect, PTL DEF Spec

-----------------------------------------------------------------------------
\* An event that stays queued still fits when its thread is left alone.
LEMMA QueueKept ==
  ASSUME TypeOK, QueueFits, UNCHANGED events,
         \A i \in 1 .. Len(events) :
           /\ thread'[events[i].thread] = thread[events[i].thread]
           /\ at'[events[i].thread] = at[events[i].thread]
           /\ held' # None => held'.thread # events[i].thread
  PROVE  QueueFits'
<1>1. ASSUME NEW i \in 1 .. Len(events) PROVE Fits(events[i])' /\ ~ HeldBy(events[i].thread)'
  <2>1. Fits(events[i])
    BY DEF QueueFits
  <2> QED BY <2>1 DEF Fits, HeldBy
<1> QED BY <1>1 DEF QueueFits

\* A thread that runs, or does not exist yet, has no event queued.
LEMMA QueuedAreStopped ==
  ASSUME QueueFits, NEW i \in 1 .. Len(events)
  PROVE  thread[events[i].thread] \in {"breakpoint", "stopped", "single_step", "exited"}
BY DEF QueueFits, Fits

\* A thread that runs traps: its event goes to the end of the queue.
LEMMA QueueGrown ==
  ASSUME TypeOK, QueueFits, NEW t \in Threads, thread[t] = "running",
         NEW e \in Event, events' = Append(events, e), e.thread = t, Fits(e)',
         held' = None,
         \A u \in Threads : u # t => thread'[u] = thread[u] /\ at'[u] = at[u]
  PROVE  QueueFits'
<1>q. events \in Seq(Event)
  BY DEF TypeOK
<1>1. /\ Len(events') = Len(events) + 1 /\ Len(events) \in Nat
      /\ \A i \in 1 .. Len(events) : events'[i] = events[i]
      /\ events'[Len(events) + 1] = e
  BY <1>q
<1>2. ASSUME NEW i \in 1 .. Len(events)
      PROVE  /\ events[i].thread \in Threads /\ events[i].thread # t
             /\ Fits(events[i])'
  <2>1. events[i] \in Event
    BY <1>q
  <2>2. events[i].thread \in Threads /\ events[i].thread # t
    BY <2>1, QueuedAreStopped DEF Event
  <2>3. Fits(events[i])
    BY DEF QueueFits
  <2>4. events'[i] = events[i]
    BY <1>1
  <2>5. /\ thread'[events[i].thread] = thread[events[i].thread]
        /\ at'[events[i].thread] = at[events[i].thread]
    BY <2>2
  <2> QED BY <2>2, <2>3, <2>4, <2>5 DEF Fits
<1>3. ASSUME NEW i \in 1 .. Len(events')
      PROVE  Fits(events[i])' /\ ~ HeldBy(events[i].thread)'
  <2>1. i \in 1 .. Len(events) \/ i = Len(events) + 1
    BY <1>1
  <2>2. Fits(events[i])'
    <3>1. CASE i \in 1 .. Len(events)
      BY <3>1, <1>2
    <3>2. CASE i = Len(events) + 1
      <4>1. events'[i] = e
        BY <3>2, <1>1
      <4> QED BY <4>1 DEF Fits
    <3> QED BY <2>1, <3>1, <3>2
  <2> QED BY <2>2 DEF HeldBy
<1>4. ASSUME NEW i \in 1 .. Len(events'), NEW j \in 1 .. Len(events'),
             events'[i].thread = events'[j].thread
      PROVE  i = j
  <2>1. /\ i \in 1 .. Len(events) \/ i = Len(events) + 1
        /\ j \in 1 .. Len(events) \/ j = Len(events) + 1
    BY <1>1
  <2>2. \A k \in 1 .. Len(events) : events'[k] = events[k] /\ events'[k].thread # t
    BY <1>1, <1>2
  <2>3. events'[Len(events) + 1].thread = t
    BY <1>1
  <2> QED BY <1>4, <2>1, <2>2, <2>3 DEF QueueFits
<1> QED BY <1>3, <1>4 DEF QueueFits

\* The first event is taken and its thread held or continued.
LEMMA QueueTaken ==
  ASSUME TypeOK, QueueFits, events # << >>, events' = Tail(events),
         NEW t \in Threads, t = Head(events).thread,
         held' = None \/ held'.thread = t,
         \A u \in Threads : u # t => thread'[u] = thread[u] /\ at'[u] = at[u]
  PROVE  QueueFits'
<1>q. events \in Seq(Event)
  BY DEF TypeOK
<1>1. /\ Len(events') = Len(events) - 1 /\ Len(events) \in Nat \ {0}
      /\ \A i \in 1 .. Len(events) - 1 : events'[i] = events[i + 1]
      /\ Head(events) = events[1]
  BY <1>q
<1>2. ASSUME NEW i \in 1 .. Len(events')
      PROVE  /\ i + 1 \in 1 .. Len(events) /\ i + 1 # 1 /\ 1 \in 1 .. Len(events)
             /\ events'[i] = events[i + 1]
  BY <1>1
<1>3. ASSUME NEW i \in 1 .. Len(events')
      PROVE  Fits(events[i])' /\ ~ HeldBy(events[i].thread)'
  <2> DEFINE k == i + 1
  <2>1. k \in 1 .. Len(events) /\ k # 1 /\ 1 \in 1 .. Len(events) /\ events'[i] = events[k]
    BY <1>2
  <2> HIDE DEF k
  <2>2. events[k] \in Event
    BY <2>1, <1>q
  <2>3. events[k].thread \in Threads /\ events[k].thread # t
    BY <1>1, <2>1, <2>2 DEF Event, QueueFits
  <2>4. Fits(events[k])
    BY <2>1 DEF QueueFits
  <2>5. /\ thread'[events[k].thread] = thread[events[k].thread]
        /\ at'[events[k].thread] = at[events[k].thread]
    BY <2>3
  <2>6. Fits(events[i])'
    BY <2>1, <2>4, <2>5 DEF Fits
  <2>7. held' = None \/ held'.thread # events'[i].thread
    BY <2>1, <2>3
  <2> QED BY <2>6, <2>7 DEF HeldBy
<1>4. ASSUME NEW i \in 1 .. Len(events'), NEW j \in 1 .. Len(events'),
             events'[i].thread = events'[j].thread
      PROVE  i = j
  <2>1. /\ i + 1 \in 1 .. Len(events) /\ events'[i] = events[i + 1]
        /\ j + 1 \in 1 .. Len(events) /\ events'[j] = events[j + 1]
    BY <1>2
  <2>2. i + 1 = j + 1
    BY <1>4, <2>1 DEF QueueFits
  <2> QED BY <1>1, <2>2
<1> QED BY <1>3, <1>4 DEF QueueFits

\* The breakpoint of a thread that was left alone.
LEMMA StepKept ==
  ASSUME NEW u, StepFits(u), thread'[u] = thread[u], at'[u] = at[u], tf'[u] = tf[u],
         pending_reinsert'[u] = pending_reinsert[u],
         UNCHANGED held \/ (~ HeldBy(u) /\ ~ HeldBy(u)')
  PROVE  StepFits(u)'
BY DEF StepFits, HeldBy

\* The steps of the game's threads.
LEMMA GameFits ==
  ASSUME TypeOK, ~ GameFaults, NoFaults, AllFits, Debugged, NEW t \in Threads, Game(t)
  PROVE  AllFits'
<1>t. /\ thread \in [Threads -> ThreadState] /\ tf \in [Threads -> BOOLEAN]
      /\ at \in [Threads -> Positions]
      /\ pending_reinsert \in [Threads -> PendingReinsert \cup {None}]
  BY DEF TypeOK
<1>p. pending_reinsert[t] # None => pending_reinsert[t].addr \in Addrs
  BY <1>t DEF PendingReinsert
<1>f. ~ RaiseFault(t) /\ ~ DispatchFault(t)
  BY DEF RaiseFault, DispatchFault, NoFaults
<1>1. UNCHANGED <<held, pending_reinsert>> /\ held = None /\ ~ HeldBy(t)
  BY DEF Game, ExecInt3, ExecInstruction, ExecBreakIn, ExitThread, SpawnThread,
     RaiseFault, DispatchFault, core, steps, Runs, Scheduled, HeldBy
<1>2. \A u \in Threads : u # t => thread'[u] = thread[u] /\ tf'[u] = tf[u] /\ at'[u] = at[u]
  BY <1>t DEF Game, ExecInt3, ExecInstruction, ExecBreakIn, ExitThread, SpawnThread,
     RaiseFault, DispatchFault, Trap
<1>3. HeldFits'
  BY <1>1 DEF HeldFits
<1>4. ASSUME StepFits(t)' PROVE \A u \in Threads : StepFits(u)'
  <2> SUFFICES ASSUME NEW u \in Threads, u # t PROVE StepFits(u)'
    BY <1>4
  <2> QED BY <1>1, <1>2, StepKept DEF AllFits
<1>5. ASSUME NEW e, events' = Append(events, e), e \in Event, e.thread = t,
             thread[t] = "running", Fits(e)'
      PROVE  QueueFits'
  BY <1>5, <1>1, <1>2, QueueGrown DEF AllFits
<1>6. ASSUME UNCHANGED events, thread[t] \in {"running", "unborn"} PROVE QueueFits'
  <2>1. ASSUME NEW i \in 1 .. Len(events)
        PROVE  events[i].thread # t /\ events[i].thread \in Threads
    <3>1. events[i] \in Event
      BY DEF TypeOK
    <3> QED BY <1>6, <3>1, QueuedAreStopped DEF AllFits, Event
  <2> QED BY <1>1, <1>2, <1>6, <2>1, QueueKept DEF AllFits
<1>s. StepFits(t)
  BY DEF AllFits
<1>7. CASE ExecInt3(t)
  <2> DEFINE e == [thread |-> t, code |-> "breakpoint", addr |-> at[t]]
  <2>1. /\ thread[t] = "running" /\ at[t] \in Addrs
        /\ thread' = [thread EXCEPT ![t] = "breakpoint"]
        /\ events' = Append(events, e) /\ UNCHANGED <<at, tf>>
    BY <1>7 DEF ExecInt3, Runs, Trap
  <2>2. e \in Event /\ e.thread = t
    BY <1>t DEF Event
  <2>3. thread'[t] = "breakpoint"
    BY <1>t, <2>1
  <2>4. PICK d : d = e
    OBVIOUS
  <2>5. d.thread = t /\ d.code = "breakpoint" /\ d.addr = at[t]
    BY <2>4
  <2>6. Fits(d)'
    BY <2>1, <2>3, <2>5 DEF Fits
  <2>7. QueueFits'
    BY <1>5, <2>1, <2>2, <2>4, <2>6
  <2>8. StepFits(t)'
    BY <1>1, <1>s, <2>1, <2>3 DEF StepFits
  <2> QED BY <1>3, <1>4, <2>7, <2>8 DEF AllFits
<1>8. CASE ExecInstruction(t) /\ tf[t]
  <2> DEFINE e == [thread |-> t, code |-> "single_step", addr |-> at[t]]
  <2>1. /\ thread[t] = "running"
        /\ thread' = [thread EXCEPT ![t] = "single_step"]
        /\ events' = Append(events, e)
    BY <1>8 DEF ExecInstruction, Runs, Trap
  <2>2. e \in Event /\ e.thread = t
    BY <1>t DEF Event
  <2>3. thread'[t] = "single_step"
    BY <1>t, <2>1
  <2>4. PICK d : d = e
    OBVIOUS
  <2>5. d.thread = t /\ d.code = "single_step"
    BY <2>4
  <2>6. Fits(d)'
    BY <2>3, <2>5 DEF Fits
  <2>7. QueueFits'
    BY <1>5, <2>1, <2>2, <2>4, <2>6
  <2>8. StepFits(t)'
    BY <1>1, <2>3 DEF StepFits, HeldBy
  <2> QED BY <1>3, <1>4, <2>7, <2>8 DEF AllFits
<1>9. CASE ExecInstruction(t) /\ ~ tf[t]
  <2>1. thread[t] = "running" /\ UNCHANGED <<thread, events>>
    BY <1>9 DEF ExecInstruction, Runs
  <2>2. pending_reinsert[t] = None
    BY <1>9, <1>s, <2>1 DEF StepFits
  <2>3. QueueFits' /\ StepFits(t)'
    BY <1>1, <1>6, <2>1, <2>2 DEF StepFits
  <2> QED BY <1>3, <1>4, <2>3 DEF AllFits
<1>10. CASE ExecBreakIn(t)
  <2> DEFINE e == [thread |-> t, code |-> "breakpoint", addr |-> BreakIn]
  <2>1. /\ thread[t] = "running" /\ at[t] = BreakIn
        /\ thread' = [thread EXCEPT ![t] = "stopped"]
        /\ events' = Append(events, e)
    BY <1>10 DEF ExecBreakIn, Runs
  <2>2. e \in Event /\ e.thread = t
    BY DEF Event, Positions
  <2>3. thread'[t] = "stopped"
    BY <1>t, <2>1
  <2>4. PICK d : d = e
    OBVIOUS
  <2>5. d.thread = t /\ d.code = "breakpoint" /\ d.addr = BreakIn
    BY <2>4
  <2>6. Fits(d)'
    BY <2>3, <2>5, PositionsDistinct DEF Fits
  <2>7. QueueFits'
    BY <1>5, <2>1, <2>2, <2>4, <2>6
  <2>8. pending_reinsert[t] = None
    BY <1>s, <1>p, <2>1, PositionsDistinct DEF StepFits
  <2>9. StepFits(t)'
    BY <1>1, <2>8 DEF StepFits
  <2> QED BY <1>3, <1>4, <2>7, <2>9 DEF AllFits
<1>11. CASE ExitThread(t)
  <2> DEFINE e == [thread |-> t, code |-> "exit_thread", addr |-> Elsewhere]
  <2>1. /\ thread[t] = "running"
        /\ thread' = [thread EXCEPT ![t] = "exited"]
        /\ events' = Append(events, e)
    BY <1>11 DEF ExitThread, Runs
  <2>2. e \in Event /\ e.thread = t
    BY DEF Event, Positions
  <2>3. thread'[t] = "exited"
    BY <1>t, <2>1
  <2>4. PICK d : d = e
    OBVIOUS
  <2>5. d.thread = t /\ d.code = "exit_thread"
    BY <2>4
  <2>6. Fits(d)'
    BY <2>3, <2>5 DEF Fits
  <2>7. QueueFits'
    BY <1>5, <2>1, <2>2, <2>4, <2>6
  <2>8. StepFits(t)'
    BY <1>1, <2>3 DEF StepFits, HeldBy
  <2> QED BY <1>3, <1>4, <2>7, <2>8 DEF AllFits
<1>12. CASE SpawnThread(t)
  <2>1. thread[t] = "unborn" /\ UNCHANGED events
    BY <1>12 DEF SpawnThread
  <2>2. pending_reinsert[t] = None
    BY <1>s, <2>1 DEF StepFits
  <2>3. QueueFits' /\ StepFits(t)'
    BY <1>1, <1>6, <2>1, <2>2 DEF StepFits
  <2> QED BY <1>3, <1>4, <2>3 DEF AllFits
<1> QED BY <1>f, <1>7, <1>8, <1>9, <1>10, <1>11, <1>12 DEF Game

\* The clicks of the user.
LEMMA UserFits ==
  ASSUME TypeOK, SessionOnly, LiftInv, User, Debugged', failures = 0, failures' = 0, alive
  PROVE  AllFits'
<1>t. /\ thread \in [Threads -> ThreadState] /\ tf \in [Threads -> BOOLEAN]
      /\ at \in [Threads -> Positions] /\ events \in Seq(Event)
      /\ pending_reinsert \in [Threads -> PendingReinsert \cup {None}]
  BY DEF TypeOK
<1>q. ASSUME NEW i \in 1 .. Len(events) PROVE events[i].thread \in Threads
  <2>1. events[i] \in Event
    BY <1>t
  <2> QED BY <2>1 DEF Event
<1>1. ASSUME NEW k \in BreakInThreads, Attach(k) PROVE AllFits'
  <2>1. events' = << >> /\ held' = None /\ pending_reinsert' = pending_reinsert
        /\ \A u \in Threads : pending_reinsert[u] = None
    BY <1>1 DEF Attach, Debugged, SessionOnly, steps
  <2>2. QueueFits'
    BY <2>1 DEF QueueFits
  <2> QED BY <2>1, <2>2 DEF AllFits, HeldFits, StepFits
<1>2. ASSUME NEW k \in BreakInThreads, Pause(k) PROVE AllFits'
  <2>1. /\ k \in Threads /\ AllFits /\ thread[k] = "unborn" /\ UNCHANGED <<events, held>>
        /\ pending_reinsert' = pending_reinsert
        /\ \A u \in Threads : u # k => /\ thread'[u] = thread[u] /\ at'[u] = at[u]
                                       /\ tf'[u] = tf[u]
    BY <1>2, <1>t DEF Pause, TakesCommands, LiftInv, steps, Threads
  <2>2. held # None => held.thread # k /\ held.thread \in Threads
    BY <2>1, HeldFields DEF AllFits, HeldFits
  <2>3. HeldFits'
    BY <2>1, <2>2 DEF AllFits, HeldFits
  <2>4. pending_reinsert[k] = None
    BY <2>1 DEF AllFits, StepFits
  <2>5. ASSUME NEW u \in Threads PROVE StepFits(u)'
    <3>1. CASE u = k
      BY <3>1, <2>1, <2>4 DEF StepFits
    <3>2. CASE u # k
      BY <3>2, <2>1, StepKept DEF AllFits
    <3> QED BY <3>1, <3>2
  <2>6. ASSUME NEW i \in 1 .. Len(events)
        PROVE  /\ thread'[events[i].thread] = thread[events[i].thread]
               /\ at'[events[i].thread] = at[events[i].thread]
               /\ held' # None => held'.thread # events[i].thread
    <3>1. events[i].thread # k /\ events[i].thread \in Threads
      BY <1>q, <2>1, QueuedAreStopped DEF AllFits
    <3>2. ~ HeldBy(events[i].thread)
      BY <2>1 DEF AllFits, QueueFits
    <3> QED BY <2>1, <3>1, <3>2 DEF HeldBy
  <2>7. QueueFits'
    BY <2>1, <2>6, QueueKept DEF AllFits
  <2> QED BY <2>3, <2>5, <2>7 DEF AllFits
<1>3. ASSUME UNCHANGED <<game, events, pending_reinsert, held>>, Debugged PROVE AllFits'
  <2>1. AllFits
    BY <1>3 DEF LiftInv
  <2> QED BY <1>3, <2>1 DEF game, AllFits, QueueFits, HeldFits, StepFits, HeldBy, Fits
<1>4. ASSUME NEW a \in Addrs, AddBreakpoint(a) \/ RemoveBreakpoint(a) PROVE AllFits'
  BY <1>4, <1>3 DEF AddBreakpoint, RemoveBreakpoint, TakesCommands, steps
<1>5. CASE LeaveDebugMode
  BY <1>5, <1>3 DEF LeaveDebugMode, steps, Debugged
<1>6. ASSUME NEW step \in BOOLEAN, ContinueHeld(step) PROVE AllFits'
  <2>0. Debugged /\ AllFits /\ held # None /\ held.thread \in Threads
    BY <1>6, HeldFields DEF ContinueHeld, TakesCommands, LiftInv
  <2>1. ~ Spend(1)
    BY DEF Spend
  <2>2. PICK t : t = held.thread
    OBVIOUS
  <2>3. /\ Resume(t, IF step THEN "continue" ELSE held.status)
        /\ held' = None /\ UNCHANGED <<at, events>>
        /\ tf' = IF step /\ held.kind # "Breakpoint" THEN [tf EXCEPT ![t] = TRUE] ELSE tf
        /\ pending_reinsert' = IF held.kind = "Breakpoint"
                                 THEN [pending_reinsert EXCEPT
                                         ![t] = [addr |-> held.addr, stop |-> step]]
                                 ELSE pending_reinsert
    BY <1>6, <2>1, <2>2 DEF ContinueHeld
  <2>4. \A u \in Threads : u # t => /\ thread'[u] = thread[u] /\ tf'[u] = tf[u]
                                    /\ pending_reinsert'[u] = pending_reinsert[u]
    BY <1>t, <2>0, <2>2, <2>3 DEF Resume
  <2>5. HeldFits'
    BY <2>3 DEF HeldFits
  <2>6. ASSUME NEW i \in 1 .. Len(events)
        PROVE  /\ thread'[events[i].thread] = thread[events[i].thread]
               /\ at'[events[i].thread] = at[events[i].thread]
               /\ held' # None => held'.thread # events[i].thread
    <3>1. ~ HeldBy(events[i].thread)
      BY <2>0 DEF AllFits, QueueFits
    <3>2. events[i].thread # t
      BY <2>0, <2>2, <3>1 DEF HeldBy
    <3> QED BY <1>q, <2>3, <2>4, <3>2
  <2>7. QueueFits'
    BY <2>0, <2>3, <2>6, QueueKept DEF AllFits
  <2>8. StepFits(t)'
    <3>1. CASE held.kind = "Breakpoint"
      <4>1. /\ thread[t] = "stopped" /\ at[t] = held.addr /\ tf[t]
        BY <2>0, <2>2, <3>1 DEF AllFits, HeldFits
      <4>2. thread'[t] = "running"
        BY <1>t, <2>0, <2>2, <2>3, <4>1 DEF Resume, Resumed
      <4>3. pending_reinsert'[t].addr = held.addr
        BY <1>t, <2>0, <2>2, <2>3, <3>1
      <4>4. at'[t] = held.addr /\ tf'[t]
        BY <2>3, <3>1, <4>1
      <4> QED BY <4>2, <4>3, <4>4 DEF StepFits
    <3>2. CASE held.kind # "Breakpoint" /\ pending_reinsert[t] # None
      <4>1. thread[t] = "breakpoint"
        <5>1. thread[t] \in {"stopped", "breakpoint", "single_step"} /\ HeldBy(t)
          BY <2>0, <2>2, <3>2 DEF AllFits, HeldFits, HeldBy
        <5>2. StepFits(t)
          BY <2>0, <2>2 DEF AllFits
        <5> QED BY <3>2, <5>1, <5>2 DEF StepFits
      <4>2. thread'[t] = "lost"
        BY <1>t, <2>0, <2>2, <2>3, <4>1 DEF Resume, Resumed
      <4> QED BY <4>2 DEF StepFits
    <3>3. CASE held.kind # "Breakpoint" /\ pending_reinsert[t] = None
      BY <2>3, <3>3 DEF StepFits
    <3> QED BY <3>1, <3>2, <3>3
  <2>9. ASSUME NEW u \in Threads PROVE StepFits(u)'
    <3>1. CASE u # t
      BY <2>0, <2>2, <2>3, <2>4, <3>1, StepKept DEF AllFits, HeldBy
    <3> QED BY <2>8, <3>1
  <2> QED BY <2>5, <2>7, <2>9 DEF AllFits
<1> QED BY <1>1, <1>2, <1>4, <1>5, <1>6 DEF User, Continue, Step

\* The worker's handlers.
LEMMA HandlerFits ==
  ASSUME TypeOK, ExitMeansDead, HandleEvents, LiftInv, failures = 0, failures' = 0, alive
  PROVE  AllFits'
<1>e. PICK e : e = Head(events) /\ HandleEvent(e)
  BY DEF HandleEvents
<1>x. ~ ProcessExited(e)
  BY <1>e, DeadWhenExitReported
<1>r. Reports(e)
  BY <1>e, <1>x DEF HandleEvent, BreakpointHit, OtherBreakpoint, StepOverDone,
     ExplicitStepDone, OtherException, ThreadExited
<1>h. /\ held = None /\ Debugged /\ events # << >> /\ events' = Tail(events)
      /\ AllFits
  BY <1>r DEF Reports, LiftInv
<1>p. PICK t : t = e.thread
  OBVIOUS
<1>t. /\ thread \in [Threads -> ThreadState] /\ tf \in [Threads -> BOOLEAN]
      /\ at \in [Threads -> Positions]
      /\ pending_reinsert \in [Threads -> PendingReinsert \cup {None}]
      /\ t \in Threads
  BY <1>p, <1>r, ReportedEvent DEF TypeOK
<1>f. Fits(e)
  <2>1. events \in Seq(Event)
    BY DEF TypeOK
  <2>2. 1 \in 1 .. Len(events) /\ Head(events) = events[1]
    BY <1>h, <2>1
  <2> QED BY <1>e, <1>h, <2>2 DEF AllFits, QueueFits
<1>s. ~ Spend(1)
  BY DEF Spend
<1>n. ASSUME NEW kind, NEW a, NEW status, Hold(t, kind, a, status)
      PROVE  held'.thread = t /\ held'.kind = kind /\ held'.addr = a
  BY <1>n DEF Hold
<1>c. ASSUME NEW status, ContinueEvent(t, status)
      PROVE  /\ held' = None /\ thread'[t] = Resumed(thread[t], status)
             /\ \A u \in Threads : u # t => thread'[u] = thread[u]
  BY <1>c, <1>s, <1>h, <1>t DEF ContinueEvent, Resume
<1>w. StepFits(t)
  BY <1>h, <1>t DEF AllFits
<1>k. ASSUME held' = None \/ held'.thread = t, UNCHANGED at,
             \A u \in Threads : u # t => /\ thread'[u] = thread[u] /\ tf'[u] = tf[u]
                                         /\ pending_reinsert'[u] = pending_reinsert[u],
             HeldFits', StepFits(t)'
      PROVE  AllFits'
  <2>1. QueueFits'
    BY <1>e, <1>h, <1>k, <1>p, <1>t, QueueTaken DEF AllFits
  <2>2. ASSUME NEW u \in Threads PROVE StepFits(u)'
    <3>1. CASE u # t
      BY <1>h, <1>k, <3>1, StepKept DEF AllFits, HeldBy
    <3> QED BY <1>k, <3>1
  <2> QED BY <1>k, <2>1, <2>2 DEF AllFits
<1>1. CASE BreakpointHit(e)
  <2>1. /\ thread' = [thread EXCEPT ![t] = "stopped"]
        /\ tf' = [tf EXCEPT ![t] = TRUE]
        /\ Hold(t, "Breakpoint", e.addr, "continue")
        /\ UNCHANGED <<pending_reinsert, at>> /\ e.addr \in Addrs /\ e.code = "breakpoint"
    BY <1>1, <1>s, <1>p DEF BreakpointHit
  <2>2. /\ held'.thread = t /\ held'.kind = "Breakpoint" /\ held'.addr = e.addr
        /\ thread'[t] = "stopped" /\ tf'[t] /\ at'[t] = e.addr /\ thread[t] = "breakpoint"
    BY <1>f, <1>n, <1>p, <1>t, <2>1 DEF Fits
  <2>3. held' # None
    <3>1. [thread |-> t, kind |-> "Breakpoint", addr |-> e.addr, status |-> "continue"]
            \in HeldEvent
      BY <1>t, <2>1 DEF HeldEvent, Status
    <3> QED BY <2>1, <3>1, NoneIsNoRecord DEF Hold
  <2>4. HeldFits'
    BY <2>2 DEF HeldFits
  <2>5. StepFits(t)'
    <3>1. pending_reinsert[t] # None => pending_reinsert[t].addr = e.addr
      BY <1>w, <2>1, <2>2 DEF StepFits
    <3>2. pending_reinsert'[t] = pending_reinsert[t]
      BY <2>1
    <3> QED BY <2>2, <2>3, <3>1, <3>2 DEF StepFits, HeldBy
  <2>6. \A u \in Threads : u # t => /\ thread'[u] = thread[u] /\ tf'[u] = tf[u]
                                    /\ pending_reinsert'[u] = pending_reinsert[u]
    BY <1>t, <2>1
  <2> QED BY <1>k, <2>1, <2>2, <2>4, <2>5, <2>6
<1>2. CASE OtherBreakpoint(e)
  <2>1. UNCHANGED <<tf, pending_reinsert, at>> /\ e.code = "breakpoint"
    BY <1>2 DEF OtherBreakpoint, steps
  <2>2. /\ thread[t] \in {"breakpoint", "stopped"}
        /\ thread[t] = "stopped" => pending_reinsert[t] = None
    BY <1>f, <1>h, <1>p, <1>w, <2>1 DEF Fits, StepFits, HeldBy
  <2>3. CASE \E status : ContinueEvent(t, status)
    <3>1. PICK status : ContinueEvent(t, status)
      BY <2>3
    <3>2. held' = None /\ \A u \in Threads : u # t => thread'[u] = thread[u]
      BY <1>c, <3>1
    <3>3. HeldFits'
      BY <3>2 DEF HeldFits
    <3>4. thread[t] = "breakpoint" => thread'[t] = "lost"
      BY <1>c, <3>1 DEF Resumed
    <3>5. StepFits(t)'
      BY <2>1, <2>2, <3>4 DEF StepFits
    <3> QED BY <1>k, <2>1, <3>2, <3>3, <3>5
  <2>4. CASE (\E status : Hold(t, "Exception", None, status)) /\ UNCHANGED thread
    <3>1. held'.thread = t /\ held'.kind = "Exception"
      BY <1>n, <2>4
    <3>2. HeldFits'
      BY <2>2, <2>4, <3>1 DEF HeldFits
    <3>3. StepFits(t)'
      BY <1>w, <2>1, <2>2, <2>4 DEF StepFits
    <3> QED BY <1>k, <2>1, <2>4, <3>1, <3>2, <3>3
  <2> QED BY <1>2, <1>p, <2>3, <2>4 DEF OtherBreakpoint
<1>3. CASE StepOverDone(e)
  <2>1. /\ ClearTrapFlag(t)
        /\ pending_reinsert' = [pending_reinsert EXCEPT ![t] = None]
        /\ \/ Hold(t, "SingleStep", None, "continue") /\ UNCHANGED thread
           \/ ContinueEvent(t, "continue")
        /\ UNCHANGED at /\ e.code = "single_step"
    <3>1. \A a : \A o \in ReinsertOutcomes(a) : ~ Spend(IF o.ok THEN 1 ELSE o.cost)
      BY DEF ReinsertOutcomes, InsertOutcomes, Spend
    <3> QED BY <1>3, <1>p, <3>1 DEF StepOverDone
  <2>2. thread[t] = "single_step"
    BY <1>f, <1>p, <2>1 DEF Fits
  <2>3. /\ held' = None \/ (held'.thread = t /\ held'.kind = "SingleStep" /\ UNCHANGED thread)
        /\ \A u \in Threads : u # t => thread'[u] = thread[u]
    BY <2>1, <1>n, <1>c
  <2>4. HeldFits'
    BY <2>2, <2>3 DEF HeldFits
  <2>5. /\ StepFits(t)'
        /\ \A u \in Threads : u # t => /\ tf'[u] = tf[u]
                                       /\ pending_reinsert'[u] = pending_reinsert[u]
    BY <1>t, <2>1 DEF ClearTrapFlag, StepFits
  <2> QED BY <1>k, <2>1, <2>3, <2>4, <2>5
<1>4. CASE ExplicitStepDone(e)
  <2>1. /\ ClearTrapFlag(t)
        /\ Hold(t, "SingleStep", None, "continue")
        /\ UNCHANGED <<thread, pending_reinsert, at>>
        /\ e.code = "single_step" /\ pending_reinsert[t] = None
    BY <1>4, <1>s, <1>p DEF ExplicitStepDone
  <2>2. thread[t] = "single_step" /\ held'.thread = t /\ held'.kind = "SingleStep"
    BY <1>f, <1>n, <1>p, <2>1 DEF Fits
  <2>3. HeldFits'
    BY <2>1, <2>2 DEF HeldFits
  <2>4. StepFits(t)'
    BY <2>1 DEF StepFits
  <2>5. \A u \in Threads : u # t => tf'[u] = tf[u]
    BY <1>t, <2>1 DEF ClearTrapFlag
  <2> QED BY <1>k, <2>1, <2>2, <2>3, <2>4, <2>5
<1>5. CASE OtherException(e)
  <2>1. /\ ContinueEvent(t, "not_handled") /\ pending_reinsert[t] = None
        /\ UNCHANGED <<tf, at, pending_reinsert>>
    BY <1>5, <1>f, <1>p DEF OtherException, Fits, steps
  <2>2. held' = None /\ \A u \in Threads : u # t => thread'[u] = thread[u]
    BY <1>c, <2>1
  <2>3. HeldFits' /\ StepFits(t)'
    BY <2>1, <2>2 DEF HeldFits, StepFits
  <2> QED BY <1>k, <2>1, <2>2, <2>3
<1>6. CASE ThreadExited(e)
  <2>1. /\ tf' = [tf EXCEPT ![t] = FALSE]
        /\ pending_reinsert' = [pending_reinsert EXCEPT ![t] = None]
        /\ UNCHANGED at
    BY <1>6, <1>p DEF ThreadExited
  <2>2. Resume(t, "continue") /\ UNCHANGED held
    <3>1. \A a : \A o \in ReinsertOutcomes(a) : ~ Spend(o.cost + 1)
      BY DEF ReinsertOutcomes, InsertOutcomes, Spend
    <3>2. \A o \in { [ok |-> TRUE, cost |-> 0] } : ~ Spend(o.cost + 1)
      BY DEF Spend
    <3>3. \A o \in IF pending_reinsert[t] = None THEN { [ok |-> TRUE, cost |-> 0] }
                   ELSE ReinsertOutcomes(pending_reinsert[t].addr) : ~ Spend(o.cost + 1)
      BY <3>1, <3>2
    <3> QED BY <1>6, <1>p, <3>3 DEF ThreadExited
  <2>3. held' = None
    BY <1>h, <2>2
  <2>4. HeldFits' /\ StepFits(t)'
    BY <1>t, <2>1, <2>3 DEF HeldFits, StepFits
  <2>5. \A u \in Threads : u # t => /\ thread'[u] = thread[u] /\ tf'[u] = tf[u]
                                    /\ pending_reinsert'[u] = pending_reinsert[u]
    BY <1>t, <2>1, <2>2 DEF Resume
  <2> QED BY <1>k, <2>1, <2>3, <2>4, <2>5
<1> QED BY <1>e, <1>x, <1>1, <1>2, <1>3, <1>4, <1>5, <1>6 DEF HandleEvent

\* Events, threads and the tables of the worker agree while no call fails.
LEMMA EventsFit == ASSUME ~ GameFaults PROVE Spec => []LiftInv
<1>1. Init => LiftInv
  BY DEF Init, LiftInv, Debugged
<1>2. TypeOK /\ ExitMeansDead /\ SessionOnly /\ NoFaults /\ LiftInv /\ [Next]_vars => LiftInv'
  <2> SUFFICES ASSUME TypeOK, ExitMeansDead, SessionOnly, NoFaults, LiftInv, [Next]_vars,
                      failures' = 0, alive', Debugged'
               PROVE  AllFits'
    BY DEF LiftInv
  <2>1. failures = 0
    BY NothingFailed
  <2>2. CASE Debugged /\ UNCHANGED <<game, events, pending_reinsert, held>>
    <3>1. AllFits
      BY <2>1, <2>2 DEF LiftInv, game
    <3> QED BY <2>2, <3>1 DEF game, AllFits, QueueFits, HeldFits, StepFits, HeldBy, Fits
  <2>3. ASSUME NEW t \in Threads, Game(t) PROVE AllFits'
    <3>1. Debugged /\ alive
      BY <2>3 DEF Game, ExecInt3, ExecInstruction, ExecBreakIn, ExitThread, SpawnThread,
         RaiseFault, DispatchFault, core, Debugged
    <3> QED BY <2>1, <2>3, <3>1, GameFits DEF LiftInv
  <2>4. CASE ExitProcess \/ Relaunch
    BY <2>4 DEF ExitProcess, Relaunch, core, Debugged
  <2>5. CASE User
    <3>1. alive
      BY <2>5 DEF User, Attach, Pause, AddBreakpoint, RemoveBreakpoint, Continue, Step,
         ContinueHeld, LeaveDebugMode, game
    <3> QED BY <2>1, <2>5, <3>1, UserFits
  <2>6. CASE HandleEvents
    <3>1. alive
      BY <2>6 DEF HandleEvents, HandleEvent, BreakpointHit, OtherBreakpoint, StepOverDone,
         ExplicitStepDone, OtherException, ThreadExited, ProcessExited, game
    <3> QED BY <2>1, <2>6, <3>1, HandlerFits
  <2>7. CASE HandleCommand \/ WaitFails
    <3>1. ASSUME NEW s \in {"none", "ended"} PROVE ~ Detach(s)
      BY <3>1 DEF Detach, Debugged
    <3> QED
      BY <2>2, <2>7, <3>1 DEF HandleCommand, HandleDetach, DeferredDetach, WaitFails, steps
  <2>8. CASE UNCHANGED vars
    BY <2>2, <2>8 DEF vars, steps, Debugged
  <2> QED BY <2>3, <2>4, <2>5, <2>6, <2>7, <2>8 DEF Next
<1> QED BY <1>1, <1>2, TypeCorrect, ExitEventIsLast, StateNeedsSession, FaultsNeedFaults,
           PTL DEF Spec

-----------------------------------------------------------------------------
(* A thread held on a breakpoint that still has one to put back is on the  *)
(* same one, so that continuing it does not forget the first.              *)
HeldPending ==
  /\ failures = 0 /\ alive /\ Debugged
  /\ held # None /\ held.kind = "Breakpoint"
  /\ pending_reinsert[held.thread] # None
  => pending_reinsert[held.thread].addr = held.addr

\* What continue_held overwrites in pending_reinsert is the same breakpoint,
\* if the instructions of the game raise no exceptions or there is a single
\* address with a breakpoint.
LEMMA OverwritesItself ==
  ASSUME ~ GameFaults \/ \A a, b \in Addrs : a = b
  PROVE  Spec => []HeldPending
<1>1. CASE ~ GameFaults
  <2>1. TypeOK /\ LiftInv => HeldPending
    <3> SUFFICES ASSUME TypeOK, AllFits, held # None, held.kind = "Breakpoint",
                        pending_reinsert[held.thread] # None
                 PROVE  pending_reinsert[held.thread].addr = held.addr
      BY DEF LiftInv, HeldPending
    <3>1. held.thread \in Threads
      BY HeldFields DEF TypeOK
    <3>2. thread[held.thread] = "stopped" /\ StepFits(held.thread)
      BY <3>1 DEF AllFits, HeldFits
    <3> QED BY <3>2 DEF StepFits
  <2> QED BY <1>1, <2>1, TypeCorrect, EventsFit, PTL
<1>2. CASE \A a, b \in Addrs : a = b
  <2>1. TypeOK => HeldPending
    <3> SUFFICES ASSUME TypeOK, held # None, held.kind = "Breakpoint",
                        pending_reinsert[held.thread] # None
                 PROVE  pending_reinsert[held.thread].addr = held.addr
      BY DEF HeldPending
    <3>1. held.thread \in Threads /\ held.addr \in Addrs
      BY DEF TypeOK, HeldEvent
    <3>2. pending_reinsert[held.thread].addr \in Addrs
      BY <3>1 DEF TypeOK, PendingReinsert
    <3> QED BY <1>2, <3>1, <3>2
  <2> QED BY <2>1, TypeCorrect, PTL
<1> QED BY <1>1, <1>2

\* Somebody will put the breakpoint at a back.
Kept(a) ==
  \/ held # None /\ held.kind = "Breakpoint" /\ held.addr = a
  \/ \E t \in Threads : pending_reinsert[t] # None /\ pending_reinsert[t].addr = a

AllKept == \A a \in Addrs : breakpoint[a] = "lifted" => Kept(a)

\* The commands of the user keep every lifted breakpoint in somebody's care.
LEMMA UserKeeps ==
  ASSUME TypeOK, HeldPending, AllKept, TableInSession, User, alive, failures = 0, failures' = 0
  PROVE  AllKept'
<1>1. ASSUME NEW a \in Addrs, AddBreakpoint(a) \/ RemoveBreakpoint(a) PROVE AllKept'
  <2>1. /\ UNCHANGED <<held, pending_reinsert>>
        /\ \A b \in Addrs : breakpoint'[b] = "lifted" => breakpoint[b] = "lifted"
    BY <1>1 DEF AddBreakpoint, RemoveBreakpoint, steps, TypeOK
  <2> QED BY <2>1 DEF AllKept, Kept
<1>2. ASSUME NEW step \in BOOLEAN, ContinueHeld(step) PROVE AllKept'
  <2>1. held # None /\ Debugged /\ UNCHANGED breakpoint
    BY <1>2 DEF ContinueHeld, TakesCommands
  <2>2. PICK t \in Threads : t = held.thread
    BY <2>1, HeldFields DEF TypeOK
  <2>3. CASE UNCHANGED <<held, pending_reinsert>>
    BY <2>1, <2>3 DEF AllKept, Kept
  <2>4. CASE held.kind # "Breakpoint" /\ UNCHANGED pending_reinsert
    BY <2>1, <2>4 DEF AllKept, Kept
  <2>5. CASE /\ held.kind = "Breakpoint"
             /\ pending_reinsert' = [pending_reinsert EXCEPT
                                       ![t] = [addr |-> held.addr, stop |-> step]]
    <3>1. /\ pending_reinsert'[t] = [addr |-> held.addr, stop |-> step]
          /\ \A u \in Threads : u # t => pending_reinsert'[u] = pending_reinsert[u]
      BY <2>5 DEF TypeOK
    <3>2. held.addr \in Addrs
      BY <2>1, <2>5 DEF TypeOK, HeldEvent
    <3>3. pending_reinsert'[t] # None /\ pending_reinsert'[t].addr = held.addr
      BY <3>1, <3>2, NoneIsNoRecord DEF PendingReinsert
    <3>4. pending_reinsert[t] # None => pending_reinsert[t].addr = held.addr
      BY <2>1, <2>2, <2>5 DEF HeldPending
    <3>5. ASSUME NEW a \in Addrs, Kept(a)
          PROVE  \E u \in Threads : pending_reinsert'[u] # None /\ pending_reinsert'[u].addr = a
      BY <3>1, <3>3, <3>4, <3>5 DEF Kept
    <3> QED BY <2>1, <3>5 DEF AllKept, Kept
  <2>6. ~ Spend(1)
    BY DEF Spend
  <2> QED BY <1>2, <2>2, <2>3, <2>4, <2>5, <2>6 DEF ContinueHeld
<1>3. CASE LeaveDebugMode \/ \E k \in BreakInThreads : Attach(k) \/ Pause(k)
  BY <1>3 DEF LeaveDebugMode, Attach, Pause, steps, AllKept, Kept
<1> QED BY <1>1, <1>2, <1>3 DEF User, Continue, Step

\* A handler of a debug event that calls no Windows function in vain keeps
\* every lifted breakpoint in somebody's care.
LEMMA HandlerKeeps ==
  ASSUME TypeOK, ExitMeansDead, AllKept, HandleEvents, alive, failures = 0, failures' = 0
  PROVE  AllKept'
<1>e. PICK e \in Event : e = Head(events) /\ HandleEvent(e) /\ held = None
  BY ReportedEvent DEF HandleEvents, HandleEvent, BreakpointHit, OtherBreakpoint, StepOverDone,
     ExplicitStepDone, OtherException, ThreadExited, ProcessExited, Reports, TypeOK
<1>t. PICK t \in Threads : t = e.thread
  BY DEF Event
<1>p. ~ Spend(1)
  BY DEF Spend
<1>k. ASSUME NEW a \in Addrs, Kept(a)
      PROVE  \E u \in Threads : pending_reinsert[u] # None /\ pending_reinsert[u].addr = a
  BY <1>k, <1>e DEF Kept
<1>r. ASSUME NEW a \in Addrs, NEW o, o \in ReinsertOutcomes(a), o.ok, Reinsert(a, o),
             pending_reinsert[t] # None, pending_reinsert[t].addr = a,
             pending_reinsert' = [pending_reinsert EXCEPT ![t] = None]
      PROVE  AllKept'
  <2>1. \A b \in Addrs : breakpoint'[b] = "lifted" => b # a /\ breakpoint[b] = "lifted"
    BY <1>r DEF Reinsert, TypeOK
  <2>2. ASSUME NEW b \in Addrs, breakpoint'[b] = "lifted" PROVE Kept(b)'
    <3>1. b # a /\ Kept(b)
      BY <2>1, <2>2 DEF AllKept
    <3>2. PICK u \in Threads : pending_reinsert[u] # None /\ pending_reinsert[u].addr = b
      BY <1>k, <3>1
    <3>3. u # t
      BY <1>r, <3>1, <3>2
    <3>4. pending_reinsert'[u] = pending_reinsert[u]
      BY <1>r, <3>3 DEF TypeOK
    <3> QED BY <3>2, <3>4 DEF Kept
  <2> QED BY <2>2 DEF AllKept
<1>u. ASSUME UNCHANGED <<pending_reinsert, breakpoint>>
      PROVE  AllKept'
  <2>1. ASSUME NEW a \in Addrs, breakpoint'[a] = "lifted" PROVE Kept(a)'
    <3>1. \E u \in Threads : pending_reinsert[u] # None /\ pending_reinsert[u].addr = a
      BY <1>k, <1>u, <2>1 DEF AllKept
    <3> QED BY <1>u, <3>1 DEF Kept
  <2> QED BY <2>1 DEF AllKept
<1>1. CASE BreakpointHit(e)
  <2>1. /\ e.addr \in Addrs /\ Hold(t, "Breakpoint", e.addr, "continue")
        /\ breakpoint' = [breakpoint EXCEPT ![e.addr] = "lifted"]
        /\ UNCHANGED pending_reinsert
    BY <1>1, <1>t, <1>p DEF BreakpointHit
  <2>2. PICK h \in HeldEvent : h = held' /\ h.kind = "Breakpoint" /\ h.addr = e.addr
    BY <2>1 DEF Hold, HeldEvent, Status
  <2>3. Kept(e.addr)'
    BY <2>2, NoneIsNoRecord DEF Kept
  <2>4. ASSUME NEW a \in Addrs, a # e.addr, breakpoint'[a] = "lifted" PROVE Kept(a)'
    <3>1. breakpoint[a] = "lifted"
      BY <2>1, <2>4 DEF TypeOK
    <3>2. \E u \in Threads : pending_reinsert[u] # None /\ pending_reinsert[u].addr = a
      BY <1>k, <3>1 DEF AllKept
    <3> QED BY <2>1, <3>2 DEF Kept
  <2> QED BY <2>3, <2>4 DEF AllKept
<1>2. CASE OtherBreakpoint(e) \/ OtherException(e) \/ ExplicitStepDone(e)
  BY <1>2, <1>u DEF OtherBreakpoint, OtherException, ExplicitStepDone, steps
<1>3. CASE StepOverDone(e)
  <2> DEFINE p == pending_reinsert[t]
  <2>1. p # None /\ p.addr \in Addrs
    BY <1>3, <1>t DEF StepOverDone, TypeOK, PendingReinsert
  <2>2. \A o \in ReinsertOutcomes(p.addr) : ~ Spend(IF o.ok THEN 1 ELSE o.cost)
    BY DEF ReinsertOutcomes, InsertOutcomes, Spend
  <2>3. PICK o \in ReinsertOutcomes(p.addr) :
          /\ o.ok /\ Reinsert(p.addr, o)
          /\ pending_reinsert' = [pending_reinsert EXCEPT ![t] = None]
    BY <1>3, <1>t, <2>2 DEF StepOverDone
  <2> QED BY <2>1, <2>3, <1>r
<1>4. CASE ThreadExited(e)
  <2> DEFINE p == pending_reinsert[t]
  <2>1. CASE p = None
    <3>1. UNCHANGED breakpoint /\ pending_reinsert' = [pending_reinsert EXCEPT ![t] = None]
      BY <1>4, <1>t, <2>1 DEF ThreadExited
    <3>2. UNCHANGED pending_reinsert
      BY <2>1, <3>1 DEF TypeOK
    <3> QED BY <3>1, <3>2, <1>u
  <2>2. CASE p # None
    <3>1. p.addr \in Addrs
      BY <2>2 DEF TypeOK, PendingReinsert
    <3>2. PICK o \in ReinsertOutcomes(p.addr) :
            /\ Reinsert(p.addr, o)
            /\ pending_reinsert' = [pending_reinsert EXCEPT ![t] = None]
            /\ Spend(o.cost) \/ Spend(o.cost + 1)
      BY <1>4, <1>t, <2>2 DEF ThreadExited
    <3>3. o.ok
      BY <3>2 DEF ReinsertOutcomes, InsertOutcomes, Spend
    <3> QED BY <2>2, <3>1, <3>2, <3>3, <1>r
  <2> QED BY <2>1, <2>2
<1>5. ~ ProcessExited(e)
  BY <1>e, DeadWhenExitReported
<1> QED BY <1>e, <1>1, <1>2, <1>3, <1>4, <1>5 DEF HandleEvent

\* A lifted breakpoint is never forgotten while every Windows call succeeds:
\* a thread is held on it, or puts it back when its step over it, or its
\* life, ends.  Either no instruction of the game raises an exception of its
\* own, or there is one address with a breakpoint: a handler of the game can
\* take a thread away from its step and onto another breakpoint, and
\* continue_held then overwrites the entry of pending_reinsert.
THEOREM LiftedIsPutBack ==
  ASSUME ~ GameFaults \/ \A a, b \in Addrs : a = b
  PROVE  Spec => []LiftedComesBack
<1>1. Init => LiftedComesBack
  BY DEF Init, LiftedComesBack
<1>2. TypeOK /\ ExitMeansDead /\ TableInSession /\ HeldPending /\ LiftedComesBack
        /\ [Next]_vars /\ TableInSession' => LiftedComesBack'
  <2> SUFFICES ASSUME TypeOK, ExitMeansDead, TableInSession, HeldPending, LiftedComesBack,
                      [Next]_vars, TableInSession', failures' = 0, alive'
               PROVE  AllKept'
    BY DEF LiftedComesBack, AllKept, Kept
  <2>1. failures = 0
    BY NothingFailed
  <2>2. alive => AllKept
    BY <2>1 DEF LiftedComesBack, AllKept, Kept
  <2>3. CASE alive /\ UNCHANGED <<held, pending_reinsert, breakpoint>>
    BY <2>2, <2>3 DEF AllKept, Kept
  <2>4. ASSUME NEW t \in Threads, Game(t) PROVE AllKept'
    BY <2>3, <2>4 DEF Game, ExecInt3, ExecInstruction, ExecBreakIn, ExitThread, SpawnThread,
       RaiseFault, DispatchFault, core, steps, Runs, Scheduled
  <2>5. CASE ExitProcess
    BY <2>5 DEF ExitProcess
  <2>6. CASE Relaunch
    BY <2>6 DEF Relaunch, core, Debugged, TableInSession, AllKept
  <2>7. CASE User
    <3>1. alive
      BY <2>7 DEF User, Attach, Pause, AddBreakpoint, RemoveBreakpoint, Continue, Step,
         ContinueHeld, LeaveDebugMode, game
    <3> QED BY <2>1, <2>2, <2>7, <3>1, UserKeeps
  <2>8. CASE HandleEvents
    <3>1. alive
      BY <2>8 DEF HandleEvents, HandleEvent, BreakpointHit, OtherBreakpoint, StepOverDone,
         ExplicitStepDone, OtherException, ThreadExited, ProcessExited, game
    <3> QED BY <2>1, <2>2, <2>8, <3>1, HandlerKeeps
  <2>9. CASE HandleCommand \/ WaitFails
    <3>1. ASSUME NEW s, Detach(s) PROVE AllKept'
      BY <3>1 DEF Detach, DropCore, AllKept
    <3>2. CASE HandleDetach /\ ~ Detach("none")
      BY <2>3, <3>2 DEF HandleDetach, game, steps
    <3> QED BY <2>9, <3>1, <3>2 DEF HandleCommand, HandleDetach, DeferredDetach, WaitFails
  <2>10. CASE UNCHANGED vars
    BY <2>3, <2>10 DEF vars, steps, game
  <2> QED BY <2>4, <2>5, <2>6, <2>7, <2>8, <2>9, <2>10 DEF Next
<1> QED BY <1>1, <1>2, TypeCorrect, ExitEventIsLast, TableNeedsSession, OverwritesItself,
           PTL DEF Spec
=============================================================================
