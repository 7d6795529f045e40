--------------------------- MODULE DebuggerProofs ---------------------------
(***************************************************************************)
(* Theorems of Debugger for every set of threads and of addresses and      *)
(* every bound on the calls that fail: the types, that the game's code is  *)
(* what the table of breakpoints says, and that the debugger owns every    *)
(* trap flag in the game.                                                  *)
(***************************************************************************)
EXTENDS Debugger, TLAPS, FiniteSetTheorems

(* Bookkeeping facts about the pieces the actions are made of.             *)

\* A thread continued by ContinueDebugEvent is in a thread state again.
LEMMA ResumedType ==
  ASSUME NEW s \in ThreadState, NEW status \in Status
  PROVE  Resumed(s, status) \in ThreadState
BY DEF Resumed, ThreadState, Status

\* A thread the debugger lets go of when it detaches is in a thread state.
LEMMA ReleasedType ==
  ASSUME NEW s \in ThreadState, NEW r \in Released(s)
  PROVE  r \in ThreadState
BY DEF Released, ThreadState

\* The fields of a held event have the types its readers (continue_held,
\* detach) rely on; a held breakpoint has an address.
LEMMA HeldFields ==
  ASSUME TypeOK, held # None
  PROVE  /\ held.thread \in Threads
         /\ held.status \in Status
         /\ held.kind = "Breakpoint" => held.addr \in Addrs
BY DEF TypeOK, HeldEvent

\* What WaitForDebugEvent reports is an event, and what stays queued is a
\* queue.
LEMMA ReportedEvent ==
  ASSUME TypeOK, NEW e, Reports(e)
  PROVE  /\ e \in Event
         /\ e.thread \in Threads /\ e.addr \in Positions
         /\ events' \in Seq(Event)
<1>1. e \in Event /\ events' \in Seq(Event)
  BY DEF TypeOK, Reports
<1> QED
  BY <1>1 DEF Event

\* Appending an element of S to a sequence over S gives a sequence over S.
LEMMA AppendType ==
  ASSUME NEW S, NEW q \in Seq(S), NEW e \in S
  PROVE  Append(q, e) \in Seq(S)
OBVIOUS

\* Whatever the writes of restore_breakpoint, add_breakpoint and
\* reinsert_breakpoint do, a byte of code is left in place.
LEMMA OutcomeTypes ==
  ASSUME TypeOK, NEW a \in Addrs
  PROVE  /\ \A o \in RestoreOutcomes(a) : o.byte \in Byte /\ o.cost \in Nat
         /\ \A b \in Byte : \A o \in InsertOutcomes(b) : o.byte \in Byte /\ o.cost \in Nat
         /\ \A o \in ReinsertOutcomes(a) : o.byte \in Byte /\ o.cost \in Nat
BY DEF TypeOK, RestoreOutcomes, InsertOutcomes, ReinsertOutcomes, Byte

\* The count of failed Windows calls stays within its bound.
LEMMA SpendType ==
  ASSUME failures \in 0 .. MaxFailures, NEW n \in Nat, Spend(n)
  PROVE  failures' \in 0 .. MaxFailures /\ failures' = failures + n
BY MaxFailuresNat DEF Spend

-----------------------------------------------------------------------------
(* Types.  One lemma per group of actions, the long handlers on their own. *)

\* The steps of the game's threads preserve the types.
LEMMA GameTypes ==
  ASSUME TypeOK, NEW t \in Threads, Game(t)
  PROVE  TypeOK'
<1> USE DEF TypeOK, core, steps, flags, Positions
<1>0. /\ "lost" \in ThreadState /\ "breakpoint" \in ThreadState
      /\ "single_step" \in ThreadState /\ "stopped" \in ThreadState
      /\ "exited" \in ThreadState /\ "unborn" \in ThreadState
      /\ "running" \in ThreadState /\ "fault" \in ThreadState
      /\ "second_chance" \in ThreadState
  BY DEF ThreadState
<1>e. ASSUME NEW code \in {"breakpoint", "single_step", "fault",
                           "second_chance", "exit_thread"},
             NEW p \in Positions
      PROVE  Append(events, [thread |-> t, code |-> code, addr |-> p]) \in Seq(Event)
  BY AppendType DEF Event
<1>t. ASSUME NEW state \in ThreadState, Trap(t, state, state),
             state \in {"breakpoint", "single_step", "fault", "second_chance"}
      PROVE  /\ thread' \in [Threads -> ThreadState]
             /\ events' \in Seq(Event)
  <2>1. Append(events, [thread |-> t, code |-> state, addr |-> at[t]]) \in Seq(Event)
    BY <1>t, <1>e
  <2>2. events' \in Seq(Event)
    BY <1>t, <2>1 DEF Trap
  <2> QED
    BY <1>t, <1>0, <2>2 DEF Trap
<1>1. CASE ExecInt3(t)
  BY <1>1, <1>0, <1>t DEF ExecInt3
<1>2. CASE ExecInstruction(t)
  BY <1>2, <1>0, <1>t DEF ExecInstruction
<1>3. CASE ExecBreakIn(t)
  <2>1. Append(events, [thread |-> t, code |-> "breakpoint", addr |-> BreakIn])
          \in Seq(Event)
    BY <1>e
  <2>2. events' \in Seq(Event)
    BY <1>3, <2>1 DEF ExecBreakIn
  <2>3. thread' \in [Threads -> ThreadState] /\ at' \in [Threads -> Positions]
    BY <1>3, <1>0 DEF ExecBreakIn
  <2> QED
    BY <1>3, <2>2, <2>3 DEF ExecBreakIn
<1>4. CASE ExitThread(t)
  <2>1. Append(events, [thread |-> t, code |-> "exit_thread", addr |-> Elsewhere])
          \in Seq(Event)
    BY <1>e
  <2>2. events' \in Seq(Event)
    BY <1>4, <2>1 DEF ExitThread
  <2>3. thread' \in [Threads -> ThreadState]
    BY <1>4, <1>0 DEF ExitThread
  <2> QED
    BY <1>4, <2>2, <2>3 DEF ExitThread
<1>5. CASE SpawnThread(t)
  BY <1>5, <1>0 DEF SpawnThread
<1>6. CASE RaiseFault(t)
  BY <1>6, <1>0, <1>t DEF RaiseFault
<1>7. CASE DispatchFault(t)
  BY <1>7, <1>0, <1>t DEF DispatchFault
<1> QED
  BY <1>1, <1>2, <1>3, <1>4, <1>5, <1>6, <1>7 DEF Game

\* A freshly started process has the types of the game's state.
LEMMA FreshTypes ==
  /\ FreshThreads \in [Threads -> ThreadState] /\ FreshAt \in [Threads -> Positions]
  /\ FreshTf \in [Threads -> BOOLEAN] /\ FreshCode \in [Addrs -> Byte]
BY DEF FreshThreads, FreshAt, FreshTf, FreshCode, Byte, Positions, ThreadState

\* The end of the process and its relaunch preserve the types.
LEMMA ProcessTypes ==
  ASSUME TypeOK, ExitProcess \/ Relaunch
  PROVE  TypeOK'
<1>1. events' \in Seq(Event)
  <2>1. CASE events' = << >>
    BY <2>1
  <2>2. ASSUME NEW t \in GameThreads,
               events' = Append(events, [thread |-> t, code |-> "exit_process",
                                         addr |-> Elsewhere])
        PROVE  events' \in Seq(Event)
    BY <2>2, AppendType DEF TypeOK, Event, Threads, Positions
  <2> QED
    BY <2>1, <2>2 DEF ExitProcess, Relaunch
<1>3. [t \in Threads |-> "exited"] \in [Threads -> ThreadState]
  BY DEF ThreadState
<1> QED
  BY <1>1, FreshTypes, <1>3 DEF TypeOK, core, steps, flags, ExitProcess, Relaunch

\* The commands of the user interface preserve the types.
LEMMA UserTypes ==
  ASSUME TypeOK, User
  PROVE  TypeOK'
<1> USE DEF TypeOK, game, steps, flags
<1>1. ASSUME NEW k \in BreakInThreads, Attach(k) \/ Pause(k)
      PROVE  TypeOK'
  <2>1. "running" \in ThreadState /\ BreakIn \in Positions
    BY DEF ThreadState, Positions
  <2>2. CASE Attach(k)
    BY <2>1, <2>2 DEF Attach
  <2>3. CASE Pause(k)
    BY <2>1, <2>3 DEF Pause
  <2> QED
    BY <1>1, <2>2, <2>3
<1>2. ASSUME NEW a \in Addrs, AddBreakpoint(a)
      PROVE  TypeOK'
  BY <1>2, OutcomeTypes, SpendType DEF AddBreakpoint, Leaves
<1>3. ASSUME NEW a \in Addrs, RemoveBreakpoint(a)
      PROVE  TypeOK'
  <2>1. byte' \in [Addrs -> Byte]
    BY <1>3, OutcomeTypes DEF RemoveBreakpoint
  <2>2. breakpoint' \in [Addrs -> {"absent", "inserted", "lifted"}]
    BY <1>3 DEF RemoveBreakpoint
  <2>3. failures' \in 0 .. MaxFailures
    BY <1>3, OutcomeTypes, SpendType DEF RemoveBreakpoint
  <2> QED
    BY <1>3, <2>1, <2>2, <2>3 DEF RemoveBreakpoint
<1>4. ASSUME NEW step \in BOOLEAN, ContinueHeld(step)
      PROVE  TypeOK'
  <2>1. held # None /\ held.thread \in Threads /\ held.status \in Status
    BY <1>4, HeldFields DEF ContinueHeld
  <2>2. thread' \in [Threads -> ThreadState]
    BY <1>4, <2>1, ResumedType DEF ContinueHeld, Resume, Status
  <2>3. pending_reinsert' \in [Threads -> PendingReinsert \cup {None}]
    BY <1>4, <2>1, HeldFields DEF ContinueHeld, PendingReinsert
  <2>4. failures' \in 0 .. MaxFailures
    BY <1>4, SpendType DEF ContinueHeld
  <2>5. held' \in HeldEvent \cup {None}
    BY <1>4 DEF ContinueHeld
  <2>6. tf' \in [Threads -> BOOLEAN]
    BY <1>4, <2>1 DEF ContinueHeld
  <2>7. trap_threads' \in SUBSET Threads /\ explicit_steps' \in SUBSET Threads
    BY <1>4, <2>1 DEF ContinueHeld
  <2> QED
    BY <1>4, <2>2, <2>3, <2>4, <2>5, <2>6, <2>7 DEF ContinueHeld
<1>5. CASE LeaveDebugMode
  BY <1>5 DEF LeaveDebugMode
<1> QED
  BY <1>1, <1>2, <1>3, <1>4, <1>5 DEF User, Continue, Step

\* DebuggerCore::detach preserves the types, whatever calls fail in it.
LEMMA DetachTypes ==
  ASSUME TypeOK, NEW s \in {"none", "ended"}, Detach(s)
  PROVE  TypeOK'
<1> USE DEF TypeOK
<1>1. /\ byte' \in [Addrs -> Byte]
      /\ tf' \in [Threads -> BOOLEAN]
      /\ failures' \in 0 .. MaxFailures
      /\ residue' \in BOOLEAN
  <2>1. PICK stuck \in SUBSET { a \in Addrs : breakpoint[a] = "inserted" },
             kept \in SUBSET trap_threads :
          /\ Spend(Cardinality(stuck) + Cardinality(kept))
          /\ residue' = (residue \/ stuck \cup kept # {})
          /\ byte' = [a \in Addrs |->
                        IF breakpoint[a] = "inserted" /\ a \notin stuck
                          THEN saved[a] ELSE byte[a]]
          /\ tf' = [t \in Threads |-> tf[t] /\ (t \in trap_threads => t \in kept)]
    BY DEF Detach
  <2>2. IsFiniteSet(stuck) /\ IsFiniteSet(kept)
    <3>1. stuck \subseteq Addrs /\ kept \subseteq Threads
      OBVIOUS
    <3> QED
      BY <3>1, FS_Subset, Finite
  <2>3. Cardinality(stuck) \in Nat /\ Cardinality(kept) \in Nat
    BY <2>2, FS_CardinalityType
  <2>4. Cardinality(stuck) + Cardinality(kept) \in Nat
    BY <2>3
  <2>5. failures' \in 0 .. MaxFailures
    BY <2>1, <2>4, SpendType
  <2> QED
    BY <2>1, <2>5
<1>2. thread' \in [Threads -> ThreadState]
  BY DEF Detach
<1>3. events' \in Seq(Event)
  BY DEF Detach
<1>4. /\ breakpoint' \in [Addrs -> {"absent", "inserted", "lifted"}]
      /\ saved' \in [Addrs -> Byte]
      /\ pending_reinsert' \in [Threads -> PendingReinsert \cup {None}]
  BY DEF Detach, DropCore, Byte
<1> QED
  BY <1>1, <1>2, <1>3, <1>4 DEF Detach, DropCore

\* handle_debug_event and handle_exception preserve the types: in particular
\* a held event has an address exactly when it is a breakpoint.
LEMMA HandlerTypes ==
  ASSUME TypeOK, NEW e, HandleEvent(e)
  PROVE  TypeOK'
<1> USE DEF TypeOK, game, steps, flags, Leaves
<1>r. ASSUME Reports(e)
      PROVE  events' \in Seq(Event) /\ e.thread \in Threads /\ e.addr \in Positions
  BY <1>r, ReportedEvent
<1>h. ASSUME NEW t \in Threads, NEW kind, NEW a, NEW status \in Status,
             Hold(t, kind, a, status),
             \/ kind = "Breakpoint" /\ a \in Addrs
             \/ kind \in {"SingleStep", "Exception"} /\ a = None
      PROVE  held' \in HeldEvent
  BY <1>h DEF Hold, HeldEvent
<1>x. ASSUME NEW t \in Threads, HoldAfterError(t)
      PROVE  held' \in HeldEvent
  BY <1>x, <1>h DEF HoldAfterError, Status
<1>c. ASSUME NEW t \in Threads, NEW status \in Status, ContinueEvent(t, status)
      PROVE  /\ thread' \in [Threads -> ThreadState]
             /\ held' \in HeldEvent \cup {None}
             /\ failures' \in 0 .. MaxFailures
  BY <1>c, <1>h, ResumedType, SpendType DEF ContinueEvent, Resume
<1>f. ASSUME NEW t \in Threads, ClearTrapFlag(t)
      PROVE  tf' \in [Threads -> BOOLEAN] /\ trap_threads' \in SUBSET Threads
  BY <1>f DEF ClearTrapFlag
<1>i. ASSUME NEW a \in Addrs, NEW o \in ReinsertOutcomes(a), Reinsert(a, o)
      PROVE  /\ byte' \in [Addrs -> Byte]
             /\ breakpoint' \in [Addrs -> {"absent", "inserted", "lifted"}]
  BY <1>i, OutcomeTypes DEF Reinsert
<1>p. \A t \in Threads : pending_reinsert[t] # None => pending_reinsert[t].addr \in Addrs
  BY DEF PendingReinsert
<1>1. CASE BreakpointHit(e)
  <2>1. e.thread \in Threads /\ e.addr \in Addrs
    BY <1>1, <1>r DEF BreakpointHit
  <2>2. held' \in HeldEvent
    BY <1>1, <2>1, <1>h, <1>x DEF BreakpointHit, Status
  <2>3. failures' \in 0 .. MaxFailures
    BY <1>1, SpendType DEF BreakpointHit
  <2>4. /\ byte' \in [Addrs -> Byte]
        /\ breakpoint' \in [Addrs -> {"absent", "inserted", "lifted"}]
    BY <1>1, <2>1 DEF BreakpointHit
  <2>5. /\ thread' \in [Threads -> ThreadState]
        /\ tf' \in [Threads -> BOOLEAN] /\ trap_threads' \in SUBSET Threads
    BY <1>1, <2>1 DEF BreakpointHit, ThreadState
  <2>6. events' \in Seq(Event)
    BY <1>1, <1>r DEF BreakpointHit
  <2> QED
    BY <1>1, <2>2, <2>3, <2>4, <2>5, <2>6 DEF BreakpointHit
<1>2. CASE OtherBreakpoint(e)
  <2>1. e.thread \in Threads
    BY <1>2, <1>r DEF OtherBreakpoint
  <2> QED
    BY <1>2, <1>r, <2>1, <1>c, <1>h DEF OtherBreakpoint, Status
<1>3. CASE StepOverDone(e)
  <2>1. e.thread \in Threads /\ pending_reinsert[e.thread].addr \in Addrs
    BY <1>3, <1>r, <1>p DEF StepOverDone
  <2>2. PICK o \in ReinsertOutcomes(pending_reinsert[e.thread].addr) :
          /\ Reinsert(pending_reinsert[e.thread].addr, o) /\ Leaves(o)
          /\ \/ /\ ClearTrapFlag(e.thread)
                /\ pending_reinsert' = [pending_reinsert EXCEPT ![e.thread] = None]
                /\ \/ /\ Hold(e.thread, "SingleStep", None, "continue")
                      /\ UNCHANGED <<thread, failures>>
                   \/ ContinueEvent(e.thread, "continue")
             \/ /\ HoldAfterError(e.thread)
                /\ Spend(IF o.ok THEN 1 ELSE o.cost)
                /\ UNCHANGED <<thread, tf, pending_reinsert, trap_threads>>
    BY <1>3 DEF StepOverDone
  <2>3. /\ byte' \in [Addrs -> Byte] /\ residue' \in BOOLEAN
        /\ breakpoint' \in [Addrs -> {"absent", "inserted", "lifted"}]
    BY <2>1, <2>2, <1>i
  <2>4. (IF o.ok THEN 1 ELSE o.cost) \in Nat
    BY <2>1, <2>2, OutcomeTypes
  <2>5. /\ thread' \in [Threads -> ThreadState] /\ held' \in HeldEvent \cup {None}
        /\ failures' \in 0 .. MaxFailures
    BY <2>1, <2>2, <2>4, <1>c, <1>h, <1>x, SpendType DEF Status
  <2>6. /\ tf' \in [Threads -> BOOLEAN] /\ trap_threads' \in SUBSET Threads
        /\ pending_reinsert' \in [Threads -> PendingReinsert \cup {None}]
    BY <2>1, <2>2, <1>f
  <2>7. events' \in Seq(Event)
    BY <1>3, <1>r DEF StepOverDone
  <2> QED
    BY <1>3, <2>3, <2>5, <2>6, <2>7 DEF StepOverDone
<1>4. CASE ExplicitStepDone(e)
  BY <1>4, <1>r, <1>h, <1>x, <1>f, SpendType DEF ExplicitStepDone, Status
<1>5. CASE OtherException(e)
  BY <1>5, <1>r, <1>c, <1>h DEF OtherException, Status
<1>6. CASE ThreadExited(e)
  <2>1. e.thread \in Threads
    BY <1>6, <1>r DEF ThreadExited
  <2>2. /\ byte' \in [Addrs -> Byte]
        /\ breakpoint' \in [Addrs -> {"absent", "inserted", "lifted"}]
        /\ residue' \in BOOLEAN
    BY <1>6, <2>1, <1>p, <1>i DEF ThreadExited
  <2>3. PICK o \in IF pending_reinsert[e.thread] = None
                   THEN { [ok |-> TRUE, cost |-> 0] }
                   ELSE ReinsertOutcomes(pending_reinsert[e.thread].addr) :
               \/ Spend(o.cost) /\ Resume(e.thread, "continue") /\ UNCHANGED held
               \/ /\ Spend(o.cost + 1)
                  /\ Hold(e.thread, "Exception", None, "continue")
                  /\ UNCHANGED thread
    BY <1>6 DEF ThreadExited
  <2>4. o.cost \in Nat /\ o.cost + 1 \in Nat
    BY <2>1, <1>p, OutcomeTypes
  <2>5. failures' \in 0 .. MaxFailures
    BY <2>3, <2>4, SpendType
  <2>6. thread' \in [Threads -> ThreadState]
    BY <2>1, <2>3, ResumedType DEF Resume, Status
  <2>7. held' \in HeldEvent \cup {None}
    BY <2>1, <2>3, <1>h DEF Status
  <2> QED
    BY <1>6, <1>r, <2>1, <2>2, <2>5, <2>6, <2>7 DEF ThreadExited
<1>7. CASE ProcessExited(e)
  <2>1. e.thread \in Threads /\ events' \in Seq(Event)
    BY <1>7, <1>r DEF ProcessExited
  <2>2. UNCHANGED <<game, byte, residue>>
    BY <1>7 DEF ProcessExited
  <2>3. CASE /\ session' = IF leaving THEN "none" ELSE "ended"
             /\ DropCore /\ UNCHANGED failures
    BY <2>1, <2>2, <2>3 DEF DropCore, Byte
  <2>4. CASE /\ Hold(e.thread, "Exception", None, "continue") /\ Spend(1)
             /\ UNCHANGED <<session, breakpoint, saved, steps, flags,
                            detach_pending, leaving>>
    <3>1. held' \in HeldEvent
      BY <2>1, <2>4, <1>h DEF Status
    <3>2. failures' \in 0 .. MaxFailures
      BY <2>4, SpendType
    <3> QED
      BY <2>1, <2>2, <2>4, <3>1, <3>2
  <2> QED
    BY <1>7, <2>3, <2>4 DEF ProcessExited
<1> QED
  BY <1>1, <1>2, <1>3, <1>4, <1>5, <1>6, <1>7 DEF HandleEvent

\* Every reachable state of the debugger is type-correct.
THEOREM TypeCorrect == Spec => []TypeOK
<1>1. Init => TypeOK
  <2>1. << >> \in Seq(Event) /\ 0 \in 0 .. MaxFailures
    BY MaxFailuresNat
  <2>2. [a \in Addrs |-> "original"] \in [Addrs -> Byte]
    BY DEF Byte
  <2> QED
    BY <2>1, <2>2, FreshTypes DEF Init, TypeOK
<1>2. TypeOK /\ [Next]_vars => TypeOK'
  <2> SUFFICES ASSUME TypeOK, [Next]_vars PROVE TypeOK'
    OBVIOUS
  <2>1. CASE \E t \in Threads : Game(t)
    BY <2>1, GameTypes
  <2>2. CASE ExitProcess \/ Relaunch
    BY <2>2, ProcessTypes
  <2>3. CASE User
    BY <2>3, UserTypes
  <2>4. CASE HandleCommand
    <3>1. CASE Detach("none")
      BY <3>1, DetachTypes
    <3>2. CASE HandleDetach /\ ~ Detach("none")
      BY <3>2 DEF HandleDetach, TypeOK, game, steps, flags
    <3> QED
      BY <2>4, <3>1, <3>2 DEF HandleCommand, DeferredDetach
  <2>5. CASE HandleEvents
    BY <2>5, HandlerTypes DEF HandleEvents
  <2>6. CASE WaitFails
    BY <2>6, DetachTypes DEF WaitFails
  <2>7. CASE UNCHANGED vars
    BY <2>7 DEF TypeOK, vars, game, steps, flags
  <2> QED
    BY <2>1, <2>2, <2>3, <2>4, <2>5, <2>6, <2>7 DEF Next
<1> QED
  BY <1>1, <1>2, PTL DEF Spec

-----------------------------------------------------------------------------
(* A queued exit_process event is the last word of a process that is gone. *)

ExitMeansDead ==
  \A i \in DOMAIN events : events[i].code = "exit_process" => ~ alive

\* An exit-process event is only ever queued for a dead process.
LEMMA ExitEventIsLast == Spec => []ExitMeansDead
<1>1. Init => ExitMeansDead
  BY DEF Init, ExitMeansDead
<1>2. TypeOK /\ ExitMeansDead /\ [Next]_vars => ExitMeansDead'
  <2> SUFFICES ASSUME TypeOK, ExitMeansDead, [Next]_vars PROVE ExitMeansDead'
    OBVIOUS
  <2>q. events \in Seq(Event)
    BY DEF TypeOK
  <2>k. ASSUME UNCHANGED <<alive, events>>
        PROVE  ExitMeansDead'
    BY <2>k DEF ExitMeansDead
  <2>0. ASSUME events' = << >>
        PROVE  ExitMeansDead'
    BY <2>0 DEF ExitMeansDead
  <2>a. ASSUME NEW t, NEW c, NEW p, c # "exit_process", UNCHANGED alive,
               \/ events' = Append(events, [thread |-> t, code |-> c, addr |-> p])
               \/ UNCHANGED events
        PROVE  ExitMeansDead'
    BY <2>a, <2>q DEF ExitMeansDead
  <2>1. ASSUME NEW t \in Threads, Game(t)
        PROVE  ExitMeansDead'
    <3>1. ASSUME NEW s, NEW c, Trap(t, s, c), c # "exit_process", UNCHANGED alive
          PROVE  ExitMeansDead'
      BY <3>1, <2>a DEF Trap
    <3>2. CASE ExecInt3(t)
      BY <3>1, <3>2 DEF ExecInt3
    <3>3. CASE ExecInstruction(t)
      BY <3>1, <3>3, <2>k DEF ExecInstruction
    <3>4. CASE ExecBreakIn(t)
      BY <3>4, <2>a, <2>k DEF ExecBreakIn
    <3>5. CASE ExitThread(t)
      BY <3>5, <2>a, <2>k DEF ExitThread
    <3>6. CASE SpawnThread(t)
      BY <3>6, <2>k DEF SpawnThread
    <3>7. CASE RaiseFault(t)
      BY <3>1, <3>7 DEF RaiseFault
    <3>8. CASE DispatchFault(t)
      BY <3>1, <3>8, <2>k DEF DispatchFault
    <3> QED
      BY <2>1, <3>2, <3>3, <3>4, <3>5, <3>6, <3>7, <3>8 DEF Game
  <2>2. CASE ExitProcess
    BY <2>2 DEF ExitProcess, ExitMeansDead
  <2>3. CASE Relaunch
    BY <2>3, <2>0 DEF Relaunch
  <2>4. CASE User
    BY <2>4, <2>k DEF User, Attach, Pause, AddBreakpoint, RemoveBreakpoint, Continue,
                      Step, ContinueHeld, LeaveDebugMode, game
  <2>5. CASE HandleCommand \/ WaitFails
    BY <2>5, <2>k, <2>0 DEF HandleCommand, HandleDetach, DeferredDetach, WaitFails,
                            Detach, game
  <2>6. CASE HandleEvents
    <3>1. events' = Tail(events) /\ events # << >> /\ UNCHANGED alive
      BY <2>6 DEF HandleEvents, HandleEvent, BreakpointHit, OtherBreakpoint,
                  StepOverDone, ExplicitStepDone, OtherException, ThreadExited,
                  ProcessExited, Reports, game
    <3>2. \A i \in DOMAIN events' : i + 1 \in DOMAIN events /\ events'[i] = events[i + 1]
      BY <3>1, <2>q
    <3> QED
      BY <3>1, <3>2 DEF ExitMeansDead
  <2>7. CASE UNCHANGED vars
    BY <2>7, <2>k DEF vars, game
  <2> QED
    BY <2>1, <2>2, <2>3, <2>4, <2>5, <2>6, <2>7 DEF Next
<1> QED
  BY <1>1, <1>2, TypeCorrect, PTL DEF Spec

\* When the worker handles the exit of the process, the process is dead: the
\* table it drops then describes no code.
LEMMA DeadWhenExitReported ==
  ASSUME TypeOK, ExitMeansDead, HandleEvents, ProcessExited(Head(events))
  PROVE  ~ alive
<1>1. events # << >> /\ events \in Seq(Event)
  BY DEF HandleEvents, TypeOK
<1>2. 1 \in DOMAIN events /\ Head(events) = events[1]
  BY <1>1
<1> QED
  BY <1>2 DEF ExitMeansDead, ProcessExited

-----------------------------------------------------------------------------
(* Trap flags.  With TypeOK the property is inductive: a flag is set only  *)
(* together with its ownership, and given up only when it is cleared.      *)

\* Every trap flag in a live game is owned by the debugger (trap_threads), as
\* long as no failed call has left one behind.
THEOREM TrapFlagsAreOwned == Spec => []TrapFlagsOwned
<1>1. Init => TrapFlagsOwned
  BY DEF Init, TrapFlagsOwned, FreshTf
<1>2. TypeOK /\ ExitMeansDead /\ TrapFlagsOwned /\ [Next]_vars => TrapFlagsOwned'
  <2> SUFFICES ASSUME TypeOK, ExitMeansDead, TrapFlagsOwned, [Next]_vars,
                      ~ residue', alive', NEW u \in Threads, tf'[u]
               PROVE  Debugged' /\ u \in trap_threads'
    BY DEF TrapFlagsOwned
  <2> USE DEF TrapFlagsOwned, Debugged
  <2>t. thread \in [Threads -> ThreadState] /\ tf \in [Threads -> BOOLEAN]
        /\ failures \in Nat
    BY MaxFailuresNat DEF TypeOK
  <2>1. ASSUME NEW t \in Threads, Game(t)
        PROVE  Debugged' /\ u \in trap_threads'
    BY <2>1, <2>t DEF Game, ExecInt3, ExecInstruction, ExecBreakIn, ExitThread,
                      SpawnThread, RaiseFault, DispatchFault, core, steps
  <2>2. CASE ExitProcess \/ Relaunch
    BY <2>2, <2>t DEF ExitProcess, Relaunch, FreshTf
  <2>3. CASE User
    <3>1. ASSUME NEW k \in BreakInThreads, Attach(k) \/ Pause(k)
          PROVE  Debugged' /\ u \in trap_threads'
      BY <3>1, <2>t DEF Attach, Pause, steps, Threads
    <3>2. ASSUME NEW a \in Addrs, AddBreakpoint(a) \/ RemoveBreakpoint(a)
          PROVE  Debugged' /\ u \in trap_threads'
      BY <3>2, <2>t DEF AddBreakpoint, RemoveBreakpoint, game, steps, Leaves
    <3>3. ASSUME NEW step \in BOOLEAN, ContinueHeld(step)
          PROVE  Debugged' /\ u \in trap_threads'
      <4>1. held.thread \in Threads
        BY <3>3, HeldFields DEF ContinueHeld
      <4>2. session' = session /\ residue' = residue /\ alive' = alive
        BY <3>3 DEF ContinueHeld
      <4>3. CASE step /\ held.kind # "Breakpoint"
        <5>1. /\ \/ /\ tf' = [tf EXCEPT ![held.thread] = TRUE]
                    /\ trap_threads' = trap_threads \cup {held.thread}
                 \/ UNCHANGED <<tf, trap_threads>>
              /\ Debugged
          BY <3>3, <4>3 DEF ContinueHeld, TakesCommands, steps
        <5> QED
          BY <5>1, <4>1, <4>2, <2>t
      <4>4. CASE ~ (step /\ held.kind # "Breakpoint")
        <5>1. tf' = tf /\ trap_threads' = trap_threads
          BY <3>3, <4>4 DEF ContinueHeld
        <5> QED
          BY <5>1, <4>2, <2>t
      <4> QED
        BY <4>3, <4>4
    <3>4. CASE LeaveDebugMode
      BY <3>4, <2>t DEF LeaveDebugMode, game, steps
    <3> QED
      BY <2>3, <3>1, <3>2, <3>3, <3>4 DEF User, Continue, Step
  <2>d. ASSUME NEW s \in {"none", "ended"}, Detach(s)
        PROVE  FALSE
    BY <2>d, <2>t DEF Detach
  <2>4. CASE HandleCommand
    <3>1. CASE HandleDetach /\ ~ Detach("none")
      BY <3>1, <2>t DEF HandleDetach, game, steps
    <3> QED
      BY <2>4, <2>d, <3>1 DEF HandleCommand, DeferredDetach
  <2>5. CASE HandleEvents
    <3> DEFINE e == Head(events)
    <3>e. HandleEvent(e)
      BY <2>5 DEF HandleEvents
    <3>1. CASE BreakpointHit(e)
      BY <3>1, <2>t DEF BreakpointHit, Reports
    <3>2. CASE OtherBreakpoint(e) \/ OtherException(e)
      BY <3>2, <2>t DEF OtherBreakpoint, OtherException, Reports, steps
    <3>3. CASE StepOverDone(e)
      BY <3>3, <2>t DEF StepOverDone, Reports, ClearTrapFlag, Leaves
    <3>4. CASE ExplicitStepDone(e)
      BY <3>4, <2>t DEF ExplicitStepDone, Reports, ClearTrapFlag
    <3>5. CASE ThreadExited(e)
      BY <3>5, <2>t DEF ThreadExited, Reports, Leaves
    <3>6. CASE ProcessExited(e)
      BY <3>6, <2>5, DeadWhenExitReported DEF ProcessExited, game
    <3> QED
      BY <3>e, <3>1, <3>2, <3>3, <3>4, <3>5, <3>6 DEF HandleEvent
  <2>6. CASE WaitFails
    BY <2>6, <2>d DEF WaitFails
  <2>7. CASE UNCHANGED vars
    BY <2>7, <2>t DEF vars, game, steps
  <2> QED
    BY <2>1, <2>2, <2>3, <2>4, <2>5, <2>6, <2>7 DEF Next
<1> QED
  BY <1>1, <1>2, TypeCorrect, ExitEventIsLast, PTL DEF Spec

-----------------------------------------------------------------------------
(* The code of the game.  Again inductive with TypeOK, once ExitMeansDead  *)
(* says that a session which ends by itself leaves no process behind.      *)

\* Without a session there is no table.
TableInSession == ~ Debugged => \A a \in Addrs : breakpoint[a] = "absent"

\* The table of breakpoints is empty whenever there is no session: every way
\* out of a session drops the DebuggerCore.
LEMMA TableNeedsSession == Spec => []TableInSession
<1>1. Init => TableInSession
  BY DEF Init, TableInSession
<1>2. TableInSession /\ [Next]_vars => TableInSession'
  <2> SUFFICES ASSUME TableInSession, [Next]_vars PROVE TableInSession'
    OBVIOUS
  <2> USE DEF TableInSession, Debugged
  <2>1. CASE UNCHANGED <<session, breakpoint>>
    BY <2>1
  <2>2. CASE Debugged' \/ DropCore
    BY <2>2 DEF DropCore
  <2>3. CASE User
    <3>1. CASE Debugged'
      BY <3>1
    <3>2. CASE ~ Debugged'
      BY <2>3, <3>2 DEF User, Attach, Pause, AddBreakpoint, RemoveBreakpoint, Continue,
            Step, ContinueHeld, LeaveDebugMode, TakesCommands
    <3> QED
      BY <3>1, <3>2
  <2>4. CASE HandleCommand \/ WaitFails
    BY <2>1, <2>2, <2>4 DEF HandleCommand, HandleDetach, DeferredDetach, WaitFails, Detach
  <2>5. CASE HandleEvents
    BY <2>2, <2>5 DEF HandleEvents, HandleEvent, BreakpointHit, OtherBreakpoint,
          StepOverDone, ExplicitStepDone, OtherException, ThreadExited, ProcessExited,
          Reports
  <2>6. ASSUME NEW t \in Threads, Game(t)
        PROVE  TableInSession'
    BY <2>1, <2>6 DEF Game, ExecInt3, ExecInstruction, ExecBreakIn, ExitThread,
          SpawnThread, RaiseFault, DispatchFault, core
  <2>7. CASE ExitProcess \/ Relaunch \/ UNCHANGED vars
    BY <2>1, <2>7 DEF ExitProcess, Relaunch, vars, core
  <2> QED
    BY <2>3, <2>4, <2>5, <2>6, <2>7 DEF Next
<1> QED
  BY <1>1, <1>2, PTL DEF Spec

\* One address of CodeMatchesTable.
CodeAt(a) ==
  /\ byte[a] = "int3" => Debugged /\ breakpoint[a] = "inserted"
  /\ failures = 0 /\ breakpoint[a] = "inserted" => byte[a] = "int3"
  /\ breakpoint[a] # "absent" => saved[a] = "original"

\* The write that restores a breakpoint puts the game's own byte back.
LEMMA RestoreIsSafe ==
  ASSUME TypeOK, NEW a \in Addrs, CodeAt(a), breakpoint[a] # "absent",
         NEW o \in RestoreOutcomes(a)
  PROVE  /\ o.ok => o.byte = "original" /\ o.cost = 0
         /\ ~ o.ok => o.cost = 1 /\ o.byte \in {"original", byte[a]}
BY DEF RestoreOutcomes, CodeAt

\* An insertion that leaves nothing behind either succeeds or undoes itself.
LEMMA InsertIsSafe ==
  ASSUME NEW orig, NEW o \in InsertOutcomes(orig), o.cost # 2
  PROVE  IF o.ok THEN o.byte = "int3" /\ o.cost = 0 ELSE o.byte = orig /\ o.cost = 1
BY DEF InsertOutcomes

\* Putting a breakpoint back keeps its address consistent.
LEMMA ReinsertIsSafe ==
  ASSUME TypeOK, NEW a \in Addrs, NEW b \in Addrs, CodeAt(a), CodeAt(b), Debugged,
         NEW o \in ReinsertOutcomes(b), Reinsert(b, o), o.cost # 2,
         UNCHANGED <<session, saved>>, failures' >= failures, ~ o.ok => failures' > 0
  PROVE  CodeAt(a)'
<1>0. /\ byte \in [Addrs -> Byte] /\ saved \in [Addrs -> Byte] /\ failures \in Nat
      /\ breakpoint \in [Addrs -> {"absent", "inserted", "lifted"}]
  BY MaxFailuresNat DEF TypeOK
<1>1. CASE breakpoint[b] = "lifted"
  <2>1. IF o.ok THEN o.byte = "int3" ELSE o.byte = saved[b]
    BY <1>1, InsertIsSafe DEF ReinsertOutcomes
  <2>2. saved[b] = "original"
    BY <1>1 DEF CodeAt
  <2>3. /\ byte' = [byte EXCEPT ![b] = o.byte]
        /\ breakpoint' = IF o.ok THEN [breakpoint EXCEPT ![b] = "inserted"] ELSE breakpoint
    BY <1>1 DEF Reinsert
  <2>4. failures' = 0 => failures = 0
    BY <1>0
  <2> QED
    BY <1>0, <1>1, <2>1, <2>2, <2>3, <2>4 DEF CodeAt, Debugged, Byte
<1>2. CASE breakpoint[b] # "lifted"
  <2>1. byte' = byte /\ breakpoint' = breakpoint
    BY <1>0, <1>2 DEF Reinsert, ReinsertOutcomes
  <2>2. failures' = 0 => failures = 0
    BY <1>0
  <2> QED
    BY <2>1, <2>2 DEF CodeAt, Debugged
<1> QED
  BY <1>1, <1>2

\* The game's code is what the table of breakpoints says (CodeMatchesTable).
THEOREM CodeIsSafe == Spec => []CodeMatchesTable
<1>1. Init => CodeMatchesTable
  BY DEF Init, CodeMatchesTable, FreshCode
<1>2. TypeOK /\ ExitMeansDead /\ TableInSession /\ CodeMatchesTable /\ [Next]_vars
        => CodeMatchesTable'
  <2> SUFFICES ASSUME TypeOK, ExitMeansDead, TableInSession, CodeMatchesTable,
                      [Next]_vars, ~ residue', alive', NEW a \in Addrs
               PROVE  CodeAt(a)'
    BY DEF CodeMatchesTable, CodeAt
  <2>t. /\ byte \in [Addrs -> Byte] /\ saved \in [Addrs -> Byte]
        /\ breakpoint \in [Addrs -> {"absent", "inserted", "lifted"}]
        /\ thread \in [Threads -> ThreadState]
    BY DEF TypeOK
  <2>n. failures \in Nat
    BY MaxFailuresNat DEF TypeOK
  <2>i. ~ residue /\ alive => \A b \in Addrs : CodeAt(b)
    BY DEF CodeMatchesTable, CodeAt
  <2>s. ASSUME NEW n \in Nat, Spend(n)
        PROVE  failures' >= failures /\ failures' \in Nat /\ (n > 0 => failures' > 0)
               /\ (failures' = 0 => failures = 0)
    BY <2>s, <2>n DEF Spend
  <2>k. ASSUME UNCHANGED <<alive, byte, session, breakpoint, saved, residue>>,
               failures' = 0 => failures = 0
        PROVE  CodeAt(a)'
    BY <2>k, <2>i DEF CodeAt, Debugged
  <2>1. ASSUME NEW t \in Threads, Game(t)
        PROVE  CodeAt(a)'
    <3>1. UNCHANGED <<alive, byte, session, breakpoint, saved, residue, failures>>
      BY <2>1 DEF Game, ExecInt3, ExecInstruction, ExecBreakIn, ExitThread, SpawnThread,
                  RaiseFault, DispatchFault, core
    <3> QED
      BY <3>1, <2>k
  <2>2. CASE ExitProcess
    BY <2>2 DEF ExitProcess
  <2>3. CASE Relaunch
    <3>1. /\ byte'[a] = "original" /\ session' = session /\ ~ Debugged
          /\ breakpoint' = breakpoint
      BY <2>3 DEF Relaunch, FreshCode, core
    <3> QED
      BY <3>1 DEF TableInSession, CodeAt, Debugged
  <2>4. CASE User
    <3>1. ASSUME NEW k \in BreakInThreads, Attach(k)
          PROVE  CodeAt(a)'
      BY <3>1, <2>i DEF Attach, CodeAt, Debugged, TableInSession
    <3>2. ASSUME NEW k \in BreakInThreads, Pause(k)
          PROVE  CodeAt(a)'
      BY <3>2, <2>k DEF Pause
    <3>3. ASSUME NEW b \in Addrs, AddBreakpoint(b)
          PROVE  CodeAt(a)'
      <4>1. Debugged /\ Debugged' /\ CodeAt(a) /\ CodeAt(b) /\ breakpoint[b] = "absent"
        BY <3>3, <2>i DEF AddBreakpoint, TakesCommands, game, Leaves, Debugged
      <4>2. PICK o \in InsertOutcomes(byte[b]) :
              /\ Spend(o.cost)
              /\ byte' = [byte EXCEPT ![b] = o.byte]
              /\ breakpoint' = IF o.ok THEN [breakpoint EXCEPT ![b] = "inserted"]
                                       ELSE breakpoint
              /\ saved' = IF o.ok THEN [saved EXCEPT ![b] = byte[b]] ELSE saved
              /\ Leaves(o)
        BY <3>3 DEF AddBreakpoint
      <4>3. o.cost # 2 /\ o.cost \in Nat
        <5>1. o.cost # 2
          BY <4>2 DEF Leaves
        <5>2. o.cost \in Nat
          BY <4>2 DEF InsertOutcomes
        <5> QED
          BY <5>1, <5>2
      <4>4. byte[b] = "original"
        BY <4>1, <2>t DEF CodeAt, Byte
      <4>5. failures' = 0 => failures = 0
        BY <4>2, <4>3, <2>s
      <4>6. IF o.ok THEN o.byte = "int3" ELSE o.byte = "original"
        BY <4>3, <4>4, InsertIsSafe
      <4> QED
        BY <4>1, <4>2, <4>4, <4>5, <4>6, <2>t DEF CodeAt
    <3>4. ASSUME NEW b \in Addrs, RemoveBreakpoint(b)
          PROVE  CodeAt(a)'
      <4>1. Debugged /\ Debugged' /\ CodeAt(a) /\ CodeAt(b) /\ saved' = saved
        BY <3>4, <2>i DEF RemoveBreakpoint, TakesCommands, game, Debugged
      <4>2. CASE breakpoint[b] = "inserted"
        <5>1. PICK o \in RestoreOutcomes(b) :
                /\ Spend(o.cost)
                /\ byte' = [byte EXCEPT ![b] = o.byte]
                /\ breakpoint' = IF o.ok THEN [breakpoint EXCEPT ![b] = "absent"]
                                         ELSE breakpoint
          BY <3>4, <4>2 DEF RemoveBreakpoint
        <5>2. /\ o.ok => o.byte = "original" /\ o.cost = 0
              /\ ~ o.ok => o.cost = 1 /\ o.byte \in {"original", byte[b]}
          BY <5>1, <4>1, <4>2, RestoreIsSafe
        <5>3. o.cost \in Nat /\ (~ o.ok => o.cost > 0)
          BY <5>1, <5>2 DEF RestoreOutcomes
        <5>4. (failures' = 0 => failures = 0) /\ (~ o.ok => failures' # 0)
          BY <5>1, <5>3, <2>s
        <5> QED
          BY <5>1, <5>2, <5>4, <4>1, <4>2, <2>t DEF CodeAt
      <4>3. CASE breakpoint[b] = "lifted"
        <5>1. byte' = byte /\ breakpoint' = [breakpoint EXCEPT ![b] = "absent"]
              /\ failures' = failures
          BY <3>4, <4>3 DEF RemoveBreakpoint
        <5> QED
          BY <5>1, <4>1, <4>3, <2>t DEF CodeAt
      <4> QED
        BY <4>2, <4>3, <3>4, <2>t DEF RemoveBreakpoint
    <3>5. ASSUME NEW step \in BOOLEAN, ContinueHeld(step)
          PROVE  CodeAt(a)'
      <4>1. UNCHANGED <<alive, byte, session, breakpoint, saved, residue>>
        BY <3>5 DEF ContinueHeld
      <4>2. failures' = 0 => failures = 0
        BY <3>5, <2>s DEF ContinueHeld
      <4> QED
        BY <4>1, <4>2, <2>k
    <3>6. CASE LeaveDebugMode
      BY <3>6, <2>i, <2>t DEF LeaveDebugMode, CodeAt, Debugged, game, TableInSession
    <3> QED
      BY <2>4, <3>1, <3>2, <3>3, <3>4, <3>5, <3>6 DEF User, Continue, Step
  <2>d. ASSUME NEW s \in {"none", "ended"}, Debugged, Detach(s)
        PROVE  CodeAt(a)'
    <3>1. breakpoint'[a] = "absent"
      BY <2>d DEF Detach, DropCore
    <3>2. byte'[a] = IF breakpoint[a] = "inserted" THEN saved[a] ELSE byte[a]
      BY <2>d DEF Detach
    <3>3. CodeAt(a)
      BY <2>d, <2>i DEF Detach
    <3> QED
      BY <3>1, <3>2, <3>3, <2>t DEF CodeAt, Byte
  <2>5. CASE HandleCommand \/ WaitFails
    <3>1. CASE HandleDetach /\ ~ Detach("none")
      BY <3>1, <2>k DEF HandleDetach, game
    <3> QED
      BY <2>5, <2>d, <3>1 DEF HandleCommand, HandleDetach, DeferredDetach, WaitFails
  <2>6. CASE HandleEvents
    <3> DEFINE e == Head(events)
    <3>e. HandleEvent(e)
      BY <2>6 DEF HandleEvents
    <3>c. ASSUME NEW t, NEW status, ContinueEvent(t, status)
          PROVE  failures' = 0 => failures = 0
      BY <3>c, <2>s DEF ContinueEvent
    <3>1. CASE BreakpointHit(e)
      <4>1. /\ Debugged /\ Debugged' /\ CodeAt(a) /\ saved' = saved
            /\ e.addr \in Addrs /\ CodeAt(e.addr) /\ breakpoint[e.addr] # "absent"
        BY <3>1, <2>i DEF BreakpointHit, Reports, Debugged
      <4>2. CASE /\ byte' = [byte EXCEPT ![e.addr] = IF breakpoint[e.addr] = "inserted"
                                                      THEN saved[e.addr] ELSE @]
                 /\ breakpoint' = [breakpoint EXCEPT ![e.addr] = "lifted"]
        <5>1. failures' = 0 => failures = 0
          BY <3>1, <2>s DEF BreakpointHit
        <5> QED
          BY <4>1, <4>2, <5>1, <2>t DEF CodeAt, Byte
      <4>3. CASE /\ \/ UNCHANGED byte
                    \/ /\ breakpoint[e.addr] = "inserted"
                       /\ byte' = [byte EXCEPT ![e.addr] = saved[e.addr]]
                 /\ Spend(1)
                 /\ UNCHANGED breakpoint
        <5>1. failures' # 0
          BY <4>3, <2>s
        <5> QED
          BY <4>1, <4>3, <5>1, <2>t DEF CodeAt
      <4> QED
        BY <3>1, <4>2, <4>3 DEF BreakpointHit
    <3>2. CASE OtherBreakpoint(e) \/ OtherException(e)
      <4>1. UNCHANGED <<alive, byte, session, breakpoint, saved, residue>>
        BY <3>2 DEF OtherBreakpoint, OtherException
      <4>2. failures' = 0 => failures = 0
        BY <3>2, <3>c DEF OtherBreakpoint, OtherException
      <4> QED
        BY <4>1, <4>2, <2>k
    <3>r. Reports(e) => (e.code # "exit_process" => e.thread \in Threads)
      BY ReportedEvent
    <3>p. \A t \in Threads : pending_reinsert[t] # None => pending_reinsert[t].addr \in Addrs
      BY DEF TypeOK, PendingReinsert
    <3>i. ASSUME NEW b \in Addrs, NEW o \in ReinsertOutcomes(b), Reinsert(b, o), Leaves(o),
                 Reports(e), UNCHANGED <<alive, session, saved>>,
                 failures' \in Nat, failures' >= failures, ~ o.ok => failures' > 0
          PROVE  CodeAt(a)'
      <4>1. o.cost # 2 /\ ~ residue
        BY <3>i DEF Leaves
      <4>2. CodeAt(a) /\ CodeAt(b) /\ Debugged
        BY <3>i, <4>1, <2>i DEF Reports
      <4> QED
        BY <3>i, <4>1, <4>2, ReinsertIsSafe
    <3>o. ASSUME NEW b \in Addrs, NEW o \in ReinsertOutcomes(b)
          PROVE  o.cost \in Nat /\ (~ o.ok => o.cost > 0)
      BY <3>o DEF ReinsertOutcomes, InsertOutcomes
    <3>3. CASE StepOverDone(e)
      <4> DEFINE b == pending_reinsert[e.thread].addr
      <4>1. e.thread \in Threads /\ b \in Addrs /\ Reports(e)
        BY <3>3, <3>p, <3>r DEF StepOverDone
      <4>2. UNCHANGED <<alive, session, saved>>
        BY <3>3 DEF StepOverDone
      <4>3. PICK o \in ReinsertOutcomes(b) :
              /\ Reinsert(b, o) /\ Leaves(o)
              /\ \/ o.ok /\ (UNCHANGED failures \/ ContinueEvent(e.thread, "continue"))
                 \/ Spend(IF o.ok THEN 1 ELSE o.cost)
        BY <3>3 DEF StepOverDone
      <4>4. CASE o.ok /\ (UNCHANGED failures \/ ContinueEvent(e.thread, "continue"))
        <5>1. UNCHANGED failures \/ Spend(1)
          BY <4>4 DEF ContinueEvent
        <5>2. failures' \in Nat /\ failures' >= failures
          BY <5>1, <2>s, <2>n
        <5> HIDE DEF b
        <5> QED
          BY <4>1, <4>2, <4>3, <4>4, <5>2, <3>i
      <4>5. CASE Spend(IF o.ok THEN 1 ELSE o.cost)
        <5> HIDE DEF b
        <5>1. (IF o.ok THEN 1 ELSE o.cost) \in Nat /\ (IF o.ok THEN 1 ELSE o.cost) > 0
          BY <4>1, <4>3, <3>o
        <5>2. failures' \in Nat /\ failures' >= failures /\ failures' > 0
          BY <4>5, <5>1, <2>s
        <5> QED
          BY <4>1, <4>2, <4>3, <5>2, <3>i
      <4> QED
        BY <4>3, <4>4, <4>5
    <3>4. CASE ExplicitStepDone(e)
      <4>1. UNCHANGED <<alive, byte, session, breakpoint, saved, residue>>
        BY <3>4 DEF ExplicitStepDone
      <4>2. failures' = 0 => failures = 0
        BY <3>4, <2>s DEF ExplicitStepDone
      <4> QED
        BY <4>1, <4>2, <2>k
    <3>5. CASE ThreadExited(e)
      <4>1. e.thread \in Threads /\ Reports(e) /\ UNCHANGED <<alive, session, saved>>
        BY <3>5, <3>r DEF ThreadExited
      <4>2. CASE pending_reinsert[e.thread] = None
        <5>1. PICK o \in { [ok |-> TRUE, cost |-> 0] } :
                /\ Leaves(o) /\ UNCHANGED <<byte, breakpoint>>
                /\ Spend(o.cost) \/ Spend(o.cost + 1)
          BY <3>5, <4>2 DEF ThreadExited
        <5>2. residue' = residue
          <6>1. o.cost # 2
            BY <5>1
          <6>2. residue \in BOOLEAN
            BY DEF TypeOK
          <6> QED
            BY <5>1, <6>1, <6>2 DEF Leaves
        <5>3. o.cost \in Nat /\ o.cost + 1 \in Nat
          BY <5>1
        <5>4. failures' = 0 => failures = 0
          BY <5>1, <5>3, <2>s
        <5> QED
          BY <4>1, <5>1, <5>2, <5>4, <2>k
      <4>3. CASE pending_reinsert[e.thread] # None
        <5> DEFINE b == pending_reinsert[e.thread].addr
        <5>1. b \in Addrs
          BY <4>1, <4>3, <3>p
        <5>2. PICK o \in ReinsertOutcomes(b) :
                /\ Reinsert(b, o) /\ Leaves(o)
                /\ Spend(o.cost) \/ Spend(o.cost + 1)
          BY <3>5, <4>3 DEF ThreadExited
        <5> HIDE DEF b
        <5>3. o.cost \in Nat /\ o.cost + 1 \in Nat /\ (~ o.ok => o.cost > 0)
          BY <5>1, <5>2, <3>o
        <5>4. o.cost + 1 > 0
          BY <5>3
        <5>5. failures' \in Nat /\ failures' >= failures /\ (~ o.ok => failures' > 0)
          BY <5>2, <5>3, <5>4, <2>s
        <5> QED
          BY <4>1, <5>1, <5>2, <5>5, <3>i
      <4> QED
        BY <4>2, <4>3
    <3>6. CASE ProcessExited(e)
      BY <3>6, <2>6, DeadWhenExitReported DEF ProcessExited, game
    <3> QED
      BY <3>e, <3>1, <3>2, <3>3, <3>4, <3>5, <3>6 DEF HandleEvent
  <2>7. CASE UNCHANGED vars
    BY <2>7, <2>k DEF vars, game
  <2> QED
    BY <2>1, <2>2, <2>3, <2>4, <2>5, <2>6, <2>7 DEF Next
<1> QED
  BY <1>1, <1>2, TypeCorrect, ExitEventIsLast, TableNeedsSession, PTL DEF Spec
=============================================================================
