------------------------------ MODULE Debugger ------------------------------
(***************************************************************************)
(* The software-breakpoint debugger of the assistant                       *)
(* (crates/assistant/src/debugger.rs): one worker thread owns the Windows  *)
(* debug relationship with CoE5, takes the commands of the user interface  *)
(* from a channel and the debug events of the game from Windows.           *)
(*                                                                         *)
(* While a debug event is reported and not yet continued every thread of   *)
(* the game is frozen, so that handling an event is one step.  Threads     *)
(* that trapped before the freeze have their events queued behind it: this *)
(* is where the interesting interleavings come from.                       *)
(*                                                                         *)
(* Abstractions: the code of the game is the set Addrs of the addresses a  *)
(* user puts breakpoints at, and Elsewhere; a byte of code is its original *)
(* or int3 (0xcc); registers other than Rip and the trap flag, modules,    *)
(* thread handles and the text of events are left out.                     *)
(***************************************************************************)
EXTENDS Naturals, Sequences, FiniteSets

CONSTANTS
  GameThreads,     \* threads of the game
  BreakInThreads,  \* ids of the threads Windows injects to break in
  Addrs,           \* addresses that may carry a breakpoint
  Elsewhere,       \* every other address of the game
  BreakIn,         \* the int3 of ntdll that break-in threads execute
  None,            \* Option::None
  MaxFailures,     \* bound: Windows calls that fail in a behaviour
  GameFaults       \* whether instructions of the game raise exceptions

Threads == GameThreads \cup BreakInThreads
Positions == Addrs \cup {Elsewhere, BreakIn}

ASSUME PositionsDistinct == /\ Elsewhere \notin Addrs
                            /\ BreakIn \notin Addrs
                            /\ Elsewhere # BreakIn
ASSUME NoneDistinct == None \notin Addrs \cup Threads
ASSUME Finite == IsFiniteSet(Addrs) /\ IsFiniteSet(Threads)
ASSUME ThreadsDistinct == GameThreads \cap BreakInThreads = {}
ASSUME MaxFailuresNat == MaxFailures \in Nat
ASSUME GameFaultsBool == GameFaults \in BOOLEAN

VARIABLES
  \* the game process
  alive,      \* the process exists
  thread,     \* what each thread is doing (ThreadState)
  at,         \* the instruction each thread executes next
  tf,         \* the trap flag in each thread's EFlags
  byte,       \* the first byte of the instruction at each address
  \* the queue of debug events Windows has not reported yet
  events,
  \* DebuggerCore
  session,    \* "none", "attached", or "ended": worker gone, session kept
  breakpoint, \* breakpoints: absent, inserted, or lifted for a step
  saved,      \* SoftwareBreakpoint.original_byte
  pending_reinsert, explicit_steps, trap_threads, held,
  pause_pending, initial_breakpoint_pending, detach_pending,
  \* the session was dropped: Detach is sent and the drop joins the worker
  leaving,
  \* Windows calls that have failed so far, and whether a failed clean-up
  \* left an int3 or a trap flag in the game that no table lists
  failures, residue

game == <<alive, thread, at, tf>>
steps == <<pending_reinsert, explicit_steps, trap_threads>>
flags == <<pause_pending, initial_breakpoint_pending>>
vars == <<game, byte, events, session, breakpoint, saved, steps, held, flags,
          detach_pending, leaving, failures, residue>>

-----------------------------------------------------------------------------
(* States a thread can be in.  "breakpoint": stopped with Rip just past an *)
(* int3 at at[t]; "stopped": stopped with a consistent Rip; "dispatching": *)
(* the game's own handlers look at an exception; "lost": resumed inside an *)
(* instruction, or with an exception of the debugger's making that nobody  *)
(* claimed, either of which takes the game down.                           *)
ThreadState == {"unborn", "running", "stopped", "breakpoint", "single_step",
                "fault", "second_chance", "dispatching", "exited", "lost"}
Byte == {"original", "int3"}
Status == {"continue", "not_handled"}  \* DBG_CONTINUE, DBG_EXCEPTION_NOT_HANDLED
PendingReinsert == [addr : Addrs, stop : BOOLEAN]
HeldEvent == [thread : Threads, kind : {"Breakpoint"}, addr : Addrs,
              status : Status]
             \cup [thread : Threads, kind : {"SingleStep", "Exception"},
                   addr : {None}, status : Status]
Event == [thread : Threads, addr : Positions,
          code : {"breakpoint", "single_step", "fault", "second_chance",
                  "exit_thread", "exit_process"}]

\* Option::None is none of the values Option::Some wraps.
ASSUME NoneIsNoRecord == None \notin PendingReinsert \cup HeldEvent

TypeOK ==
  /\ alive \in BOOLEAN
  /\ thread \in [Threads -> ThreadState]
  /\ at \in [Threads -> Positions]
  /\ tf \in [Threads -> BOOLEAN]
  /\ byte \in [Addrs -> Byte]
  /\ events \in Seq(Event)
  /\ session \in {"none", "attached", "ended"}
  /\ breakpoint \in [Addrs -> {"absent", "inserted", "lifted"}]
  /\ saved \in [Addrs -> Byte]
  /\ pending_reinsert \in [Threads -> PendingReinsert \cup {None}]
  /\ explicit_steps \in SUBSET Threads
  /\ trap_threads \in SUBSET Threads
  /\ held \in HeldEvent \cup {None}
  /\ pause_pending \in BOOLEAN
  /\ initial_breakpoint_pending \in BOOLEAN
  /\ detach_pending \in BOOLEAN
  /\ leaving \in BOOLEAN
  /\ failures \in 0 .. MaxFailures
  /\ residue \in BOOLEAN

FreshThreads == [t \in Threads |-> IF t \in GameThreads THEN "running" ELSE "unborn"]
FreshAt == [t \in Threads |-> Elsewhere]
FreshTf == [t \in Threads |-> FALSE]
FreshCode == [a \in Addrs |-> "original"]

Init ==
  /\ alive = TRUE /\ thread = FreshThreads /\ at = FreshAt /\ tf = FreshTf
  /\ byte = FreshCode /\ events = << >>
  /\ session = "none"
  /\ breakpoint = [a \in Addrs |-> "absent"]
  /\ saved = [a \in Addrs |-> "original"]
  /\ pending_reinsert = [t \in Threads |-> None]
  /\ explicit_steps = {} /\ trap_threads = {}
  /\ held = None
  /\ pause_pending = FALSE /\ initial_breakpoint_pending = FALSE
  /\ detach_pending = FALSE /\ leaving = FALSE
  /\ failures = 0 /\ residue = FALSE

-----------------------------------------------------------------------------
(* Windows calls.                                                          *)

\* n more calls fail in this step.
Spend(n) == /\ failures + n <= MaxFailures
            /\ failures' = failures + n

\* MUTANT: a breakpoint is removed without restoring its byte.
RestoreNothing(a) == { [ok |-> TRUE, byte |-> byte[a], cost |-> 0] }

\* What write_process_byte(a, original_byte) can do: succeed; fail without
\* an effect; write the byte and then fail to flush the instruction cache.
RestoreOutcomes(a) ==
  { [ok |-> TRUE,  byte |-> saved[a], cost |-> 0],
    [ok |-> FALSE, byte |-> byte[a],  cost |-> 1],
    [ok |-> FALSE, byte |-> saved[a], cost |-> 1] }

\* MUTANT: no write-back when the insertion fails half way.
InsertWithoutRollback(orig) ==
  { [ok |-> TRUE,  byte |-> "int3", cost |-> 0],
    [ok |-> FALSE, byte |-> "int3", cost |-> 1] }

\* What writing 0xcc at a with the write-back on error can do, the byte to
\* write back being orig: succeed; fail with the old byte in place; write
\* the int3 and fail both to flush and to write back.
InsertOutcomes(orig) ==
  { [ok |-> TRUE,  byte |-> "int3", cost |-> 0],
    [ok |-> FALSE, byte |-> orig,   cost |-> 1],
    [ok |-> FALSE, byte |-> "int3", cost |-> 2] }

\* An insertion that cost two calls leaves an int3 behind.
Leaves(o) == residue' = (residue \/ o.cost = 2)

\* ContinueDebugEvent(t, status): the state thread t resumes in.
Resumed(s, status) ==
  IF \/ s = "breakpoint"
     \/ s \in {"single_step", "second_chance"} /\ status = "not_handled"
    THEN "lost"
  ELSE IF s = "fault" /\ status = "not_handled" THEN "dispatching"
  ELSE IF s = "exited" THEN "unborn"
  ELSE "running"

Resume(t, status) == thread' = [thread EXCEPT ![t] = Resumed(@, status)]

-----------------------------------------------------------------------------
(* The game.  Its threads run unless a reported event is outstanding.      *)

\* What a game does after a thread of it was lost is anybody's guess: here
\* nothing, until it crashes.
Sound == \A t \in Threads : thread[t] # "lost"

Scheduled == alive /\ Sound /\ held = None

Runs(t) == Scheduled /\ thread[t] = "running"

Debugged == session = "attached"

\* A thread traps: with a debugger it stops and the event is queued,
\* without one nobody handles the exception.
Trap(t, state, code) ==
  IF Debugged
    THEN /\ thread' = [thread EXCEPT ![t] = state]
         /\ events' = Append(events, [thread |-> t, code |-> code, addr |-> at[t]])
    ELSE /\ thread' = [thread EXCEPT ![t] = "lost"]
         /\ UNCHANGED events

core == <<session, breakpoint, saved, steps, held, flags, detach_pending,
          leaving, failures, residue>>

\* A thread reaches an inserted breakpoint.
ExecInt3(t) ==
  /\ Runs(t) /\ at[t] \in Addrs /\ byte[at[t]] = "int3"
  /\ Trap(t, "breakpoint", "breakpoint")
  /\ UNCHANGED <<alive, at, tf, byte, core>>

\* A thread executes one instruction and, with the trap flag set, raises
\* the single-step exception after it.  Break-in threads stay in ntdll.
ExecInstruction(t) ==
  /\ Runs(t) /\ at[t] # BreakIn
  /\ at[t] \in Addrs => byte[at[t]] = "original"
  /\ \E p \in {Elsewhere} \cup (IF t \in GameThreads THEN Addrs ELSE {}) :
       at' = [at EXCEPT ![t] = p]
  /\ IF tf[t] THEN Trap(t, "single_step", "single_step")
              ELSE UNCHANGED <<thread, events>>
  /\ UNCHANGED <<alive, tf, byte, core>>

\* A break-in thread executes DbgBreakPoint, which ntdll guards with a
\* handler of its own: whatever the debugger answers, the thread goes on.
ExecBreakIn(t) ==
  /\ Runs(t) /\ at[t] = BreakIn
  /\ IF Debugged
       THEN /\ thread' = [thread EXCEPT ![t] = "stopped"]
            /\ events' = Append(events, [thread |-> t, code |-> "breakpoint",
                                         addr |-> BreakIn])
       ELSE UNCHANGED <<thread, events>>
  /\ at' = [at EXCEPT ![t] = Elsewhere]
  /\ UNCHANGED <<alive, tf, byte, core>>

\* A thread executes the system call that ends it.
ExitThread(t) ==
  /\ Runs(t) /\ at[t] # BreakIn
  /\ at[t] \in Addrs => byte[at[t]] = "original"
  /\ IF Debugged
       THEN /\ thread' = [thread EXCEPT ![t] = "exited"]
            /\ events' = Append(events, [thread |-> t, code |-> "exit_thread",
                                         addr |-> Elsewhere])
       ELSE /\ thread' = [thread EXCEPT ![t] = "unborn"]
            /\ UNCHANGED events
  /\ at' = [at EXCEPT ![t] = Elsewhere]
  /\ tf' = [tf EXCEPT ![t] = FALSE]
  /\ UNCHANGED <<alive, byte, core>>

\* The game starts a thread; Windows may reuse the id of one that exited.
SpawnThread(t) ==
  /\ Scheduled /\ t \in GameThreads /\ thread[t] = "unborn"
  /\ thread' = [thread EXCEPT ![t] = "running"]
  /\ at' = [at EXCEPT ![t] = Elsewhere]
  /\ tf' = [tf EXCEPT ![t] = FALSE]
  /\ UNCHANGED <<alive, byte, events, core>>

\* An instruction of the game raises an exception of its own.
RaiseFault(t) ==
  /\ GameFaults /\ Runs(t) /\ t \in GameThreads
  /\ Trap(t, "fault", "fault")
  /\ UNCHANGED <<alive, at, tf, byte, core>>

\* The game's handlers take the exception, which may lose the trap flag on
\* the way, or nobody does and the debugger gets its second chance.
DispatchFault(t) ==
  /\ Scheduled /\ thread[t] = "dispatching"
  /\ \/ /\ thread' = [thread EXCEPT ![t] = "running"]
        /\ at' = [at EXCEPT ![t] = Elsewhere]
        /\ \E keep \in BOOLEAN : tf' = [tf EXCEPT ![t] = @ /\ keep]
        /\ UNCHANGED events
     \/ /\ Trap(t, "second_chance", "second_chance")
        /\ UNCHANGED <<at, tf>>
  /\ UNCHANGED <<alive, byte, core>>

\* The process ends: the user quits, it crashes, or a restart kills it.
ExitProcess ==
  /\ alive /\ held = None
  /\ alive' = FALSE
  /\ thread' = [t \in Threads |-> "exited"] /\ at' = FreshAt /\ tf' = FreshTf
  /\ IF Debugged
       THEN \E t \in GameThreads :  \* the one whose exit was the last
              events' = Append(events, [thread |-> t, code |-> "exit_process",
                                        addr |-> Elsewhere])
       ELSE events' = << >>
  /\ UNCHANGED <<byte, core>>

\* The user starts CoE5 again.
Relaunch ==
  /\ ~ alive /\ ~ Debugged
  /\ alive' = TRUE /\ thread' = FreshThreads /\ at' = FreshAt /\ tf' = FreshTf
  /\ byte' = FreshCode /\ events' = << >>
  /\ UNCHANGED core

-----------------------------------------------------------------------------
(* DebuggerSession: attach, and the commands the worker takes.             *)

\* DebuggerSession::attach: Windows breaks into the game with a new thread.
Attach(k) ==
  /\ session = "none" /\ alive
  /\ k \in BreakInThreads /\ thread[k] = "unborn"
  /\ session' = "attached"
  /\ thread' = [thread EXCEPT ![k] = "running"]
  /\ at' = [at EXCEPT ![k] = BreakIn]
  /\ tf' = [tf EXCEPT ![k] = FALSE]
  /\ initial_breakpoint_pending' = TRUE
  /\ UNCHANGED <<alive, byte, events, breakpoint, saved, steps, held,
                 pause_pending, detach_pending, leaving, failures, residue>>

\* The session is dropped: Detach goes out after every other command, and
\* the drop joins the worker, at once when it has already returned.
LeaveDebugMode ==
  /\ \/ Debugged /\ ~ leaving /\ leaving' = TRUE /\ UNCHANGED session
     \/ session = "ended" /\ session' = "none" /\ UNCHANGED leaving
  /\ UNCHANGED <<game, byte, events, breakpoint, saved, steps, held, flags,
                 detach_pending, failures, residue>>

TakesCommands == Debugged /\ ~ leaving

AddBreakpoint(a) ==
  /\ TakesCommands /\ breakpoint[a] = "absent"
  /\ \E o \in InsertOutcomes(byte[a]) :
       /\ Spend(o.cost)
       /\ byte' = [byte EXCEPT ![a] = o.byte]
       /\ breakpoint' = IF o.ok THEN [breakpoint EXCEPT ![a] = "inserted"]
                                ELSE breakpoint
       /\ saved' = IF o.ok THEN [saved EXCEPT ![a] = byte[a]] ELSE saved
       /\ Leaves(o)
  /\ UNCHANGED <<game, events, session, steps, held, flags, detach_pending,
                 leaving>>

RemoveBreakpoint(a) ==
  /\ TakesCommands /\ breakpoint[a] # "absent"
  /\ \/ /\ breakpoint[a] = "inserted"
        /\ \E o \in RestoreOutcomes(a) :
             /\ Spend(o.cost)
             /\ byte' = [byte EXCEPT ![a] = o.byte]
             /\ breakpoint' = IF o.ok THEN [breakpoint EXCEPT ![a] = "absent"]
                                      ELSE breakpoint
     \/ /\ breakpoint[a] = "lifted"
        /\ breakpoint' = [breakpoint EXCEPT ![a] = "absent"]
        /\ UNCHANGED <<byte, failures>>
  /\ UNCHANGED <<game, events, session, saved, steps, held, flags,
                 detach_pending, leaving, residue>>

\* DebugBreakProcess; a bound on break-in threads is a bound on the pauses
\* outstanding at a time.
Pause(k) ==
  /\ TakesCommands /\ alive
  /\ k \in BreakInThreads /\ thread[k] = "unborn"
  /\ thread' = [thread EXCEPT ![k] = "running"]
  /\ at' = [at EXCEPT ![k] = BreakIn]
  /\ tf' = [tf EXCEPT ![k] = FALSE]
  /\ pause_pending' = TRUE
  /\ UNCHANGED <<alive, byte, events, session, breakpoint, saved, steps, held,
                 initial_breakpoint_pending, detach_pending, leaving, failures,
                 residue>>

\* continue_held(step, thread): needs a held event, and for a step the
\* thread that holds it.  A breakpoint's hit has already set the trap flag.
ContinueHeld(step) ==
  /\ TakesCommands /\ held # None
  /\ LET t == held.thread
         sets_trap == step /\ held.kind # "Breakpoint"
     IN \/ /\ tf' = IF sets_trap THEN [tf EXCEPT ![t] = TRUE] ELSE tf
           /\ trap_threads' = IF sets_trap THEN trap_threads \cup {t}
                                           ELSE trap_threads
           /\ \/ /\ Resume(t, IF step THEN "continue" ELSE held.status)
                 /\ held' = None
                 /\ pending_reinsert' =
                      IF held.kind = "Breakpoint"
                        THEN [pending_reinsert EXCEPT
                                ![t] = [addr |-> held.addr, stop |-> step]]
                        ELSE pending_reinsert
                 /\ explicit_steps' = IF sets_trap THEN explicit_steps \cup {t}
                                                   ELSE explicit_steps
                 /\ UNCHANGED failures
              \/ \* ContinueDebugEvent fails after the trap flag is set
                 /\ Spend(1)
                 /\ UNCHANGED <<thread, held, pending_reinsert, explicit_steps>>
        \/ \* GetThreadContext or SetThreadContext fails
           /\ sets_trap /\ Spend(1)
           /\ UNCHANGED <<thread, tf, steps, held>>
  /\ UNCHANGED <<alive, at, byte, events, session, breakpoint, saved, flags,
                 detach_pending, leaving, residue>>

Continue == ContinueHeld(FALSE)
Step(t) == held # None /\ held.thread = t /\ ContinueHeld(TRUE)

-----------------------------------------------------------------------------
(* Detaching.                                                              *)

\* The state a thread is left in when the debug relationship ends.  An
\* event nobody handled goes unhandled, or the thread just resumes.
Released(s) ==
  IF s = "breakpoint" THEN {"lost"}
  ELSE IF s = "single_step" THEN {"lost", "running"}
  ELSE IF s \in {"fault", "second_chance"} THEN {"dispatching"}
  ELSE IF s = "exited" THEN {"unborn"}
  ELSE IF s = "stopped" THEN {"running"}
  ELSE {s}

\* The worker returns: its DebuggerCore is dropped, its state with it, and a
\* join that waits for it ends.
DropCore ==
  /\ breakpoint' = [a \in Addrs |-> "absent"]
  /\ saved' = [a \in Addrs |-> "original"]
  /\ pending_reinsert' = [t \in Threads |-> None]
  /\ explicit_steps' = {} /\ trap_threads' = {}
  /\ held' = None
  /\ pause_pending' = FALSE /\ initial_breakpoint_pending' = FALSE
  /\ detach_pending' = FALSE /\ leaving' = FALSE

\* DebuggerCore::detach: restore every breakpoint, clear the trap flags the
\* debugger owns, continue the held event, end the relationship.  Failed
\* restores are reported and skipped.
Detach(next_session) ==
  /\ \E stuck \in SUBSET { a \in Addrs : breakpoint[a] = "inserted" },
        kept \in SUBSET trap_threads :
       /\ Spend(Cardinality(stuck) + Cardinality(kept))
       /\ residue' = (residue \/ stuck \cup kept # {})
       /\ byte' = [a \in Addrs |->
                     IF breakpoint[a] = "inserted" /\ a \notin stuck
                       THEN saved[a] ELSE byte[a]]
       /\ tf' = [t \in Threads |-> tf[t] /\ (t \in trap_threads => t \in kept)]
  /\ \E after \in [Threads -> ThreadState] :
       /\ \A t \in Threads :
            after[t] \in IF held # None /\ held.thread = t
                           THEN {Resumed(thread[t], "continue")}
                           ELSE Released(thread[t])
       /\ thread' = after
  /\ events' = << >>
  /\ session' = next_session
  /\ DropCore
  /\ UNCHANGED <<alive, at>>

\* The Detach command: put off while the game runs with a trap flag set.
HandleDetach ==
  /\ Debugged /\ leaving /\ ~ detach_pending
  /\ IF held = None /\ trap_threads # {}
       THEN /\ detach_pending' = TRUE
            /\ UNCHANGED <<game, byte, events, session, breakpoint, saved, steps,
                           held, flags, leaving, failures, residue>>
       ELSE Detach("none")

\* MUTANT: a deferred detach waits for a held event only.
DetachDueWhenHeld == detach_pending /\ held # None

\* The top of the worker's loop.
DetachDue == detach_pending /\ (held # None \/ trap_threads = {})

DeferredDetach == Debugged /\ DetachDue /\ Detach("none")

\* WaitForDebugEvent fails: the worker detaches and returns.
WaitFails ==
  /\ Debugged /\ held = None /\ ~ DetachDue
  /\ failures < MaxFailures
  /\ Detach(IF leaving THEN "none" ELSE "ended")

-----------------------------------------------------------------------------
(* Debug events: handle_debug_event and handle_exception.                  *)

\* WaitForDebugEvent reports event e.
Reports(e) ==
  /\ Debugged /\ held = None /\ ~ DetachDue
  /\ events # << >> /\ e = Head(events)
  /\ events' = Tail(events)

Hold(t, kind, a, status) ==
  held' = [thread |-> t, kind |-> kind, addr |-> a, status |-> status]

\* MUTANT: the address of the breakpoint ends up in the held event.
HoldAtAddress(t) == Hold(t, "Exception", at[t], "not_handled")

\* An error while an exception is handled is reported and the event held.
HoldAfterError(t) == Hold(t, "Exception", None, "not_handled")

\* A handler that ends in ContinueDebugEvent; when that fails, it holds.
ContinueEvent(t, status) ==
  \/ Resume(t, status) /\ UNCHANGED <<held, failures>>
  \/ /\ Hold(t, "Exception", None, status)
     /\ Spend(1) /\ UNCHANGED thread

\* A thread hit a breakpoint of ours: lift it, rewind Rip to it, set the
\* trap flag for the step over it, and hold the event.
BreakpointHit(e) ==
  LET t == e.thread
      a == e.addr
  IN /\ Reports(e) /\ e.code = "breakpoint"
     /\ a \in Addrs /\ breakpoint[a] # "absent"
     /\ \/ /\ byte' = [byte EXCEPT ![a] = IF breakpoint[a] = "inserted"
                                            THEN saved[a] ELSE @]
           /\ breakpoint' = [breakpoint EXCEPT ![a] = "lifted"]
           /\ \/ /\ thread' = [thread EXCEPT ![t] = "stopped"]
                 /\ tf' = [tf EXCEPT ![t] = TRUE]
                 /\ trap_threads' = trap_threads \cup {t}
                 /\ Hold(t, "Breakpoint", a, "continue")
                 /\ UNCHANGED failures
              \/ \* SetThreadContext fails
                 /\ HoldAfterError(t) /\ Spend(1)
                 /\ UNCHANGED <<thread, tf, trap_threads>>
        \/ \* GetThreadContext or the restoring write fails
           /\ \/ UNCHANGED byte
              \/ /\ breakpoint[a] = "inserted"
                 /\ byte' = [byte EXCEPT ![a] = saved[a]]
           /\ HoldAfterError(t) /\ Spend(1)
           /\ UNCHANGED <<thread, tf, trap_threads, breakpoint>>
     /\ UNCHANGED <<alive, at, session, saved, pending_reinsert, explicit_steps,
                    flags, detach_pending, leaving, residue>>

\* A breakpoint exception that is none of ours: the attach breakpoint, the
\* one a pause asked for, or a first-chance exception for the game.
OtherBreakpoint(e) ==
  LET t == e.thread
  IN /\ Reports(e) /\ e.code = "breakpoint"
     /\ e.addr \in Addrs => breakpoint[e.addr] = "absent"
     /\ \/ /\ initial_breakpoint_pending
           /\ initial_breakpoint_pending' = FALSE
           /\ ContinueEvent(t, "continue")
           /\ UNCHANGED pause_pending
        \/ /\ ~ initial_breakpoint_pending /\ pause_pending
           /\ pause_pending' = FALSE
           /\ Hold(t, "Exception", None, "continue")
           /\ UNCHANGED <<thread, initial_breakpoint_pending, failures>>
        \/ /\ ~ initial_breakpoint_pending /\ ~ pause_pending
           /\ ContinueEvent(t, "not_handled")
           /\ UNCHANGED flags
     /\ UNCHANGED <<alive, at, tf, byte, session, breakpoint, saved, steps,
                    detach_pending, leaving, residue>>

\* MUTANT: the thread is disowned, its trap flag stays.
DisownTrapFlag(t) == UNCHANGED tf /\ trap_threads' = trap_threads \ {t}

\* The step of t is over: its trap flag is cleared and no longer owned.
ClearTrapFlag(t) ==
  /\ tf' = [tf EXCEPT ![t] = FALSE]
  /\ trap_threads' = trap_threads \ {t}

\* reinsert_breakpoint(a): nothing to do unless the breakpoint is lifted.
ReinsertOutcomes(a) ==
  IF breakpoint[a] = "lifted"
    THEN InsertOutcomes(saved[a])
    ELSE { [ok |-> TRUE, byte |-> byte[a], cost |-> 0] }

\* MUTANT: the breakpoint is not put back.
ForgetReinsert(a, o) == UNCHANGED <<byte, breakpoint>>

Reinsert(a, o) ==
  /\ byte' = [byte EXCEPT ![a] = o.byte]
  /\ breakpoint' = IF o.ok /\ breakpoint[a] = "lifted"
                     THEN [breakpoint EXCEPT ![a] = "inserted"] ELSE breakpoint

\* The step over a lifted breakpoint is done: put the breakpoint back and
\* clear the trap flag; stop if the user asked for a step.
StepOverDone(e) ==
  LET t == e.thread
      p == pending_reinsert[t]
  IN /\ Reports(e) /\ e.code = "single_step"
     /\ p # None
     /\ \E o \in ReinsertOutcomes(p.addr) :
          /\ Reinsert(p.addr, o) /\ Leaves(o)
          /\ \/ /\ o.ok
                /\ ClearTrapFlag(t)
                /\ pending_reinsert' = [pending_reinsert EXCEPT ![t] = None]
                /\ \/ /\ p.stop
                      /\ Hold(t, "SingleStep", None, "continue")
                      /\ UNCHANGED <<thread, failures>>
                   \/ /\ ~ p.stop
                      /\ ContinueEvent(t, "continue")
             \/ \* the write fails, or GetThreadContext or SetThreadContext
                /\ HoldAfterError(t)
                /\ Spend(IF o.ok THEN 1 ELSE o.cost)
                /\ UNCHANGED <<thread, tf, pending_reinsert, trap_threads>>
     /\ UNCHANGED <<alive, at, session, saved, explicit_steps, flags,
                    detach_pending, leaving>>

\* The single step the user asked for from an event that is no breakpoint.
ExplicitStepDone(e) ==
  LET t == e.thread
  IN /\ Reports(e) /\ e.code = "single_step"
     /\ pending_reinsert[t] = None /\ t \in explicit_steps
     /\ \/ /\ ClearTrapFlag(t)
           /\ explicit_steps' = explicit_steps \ {t}
           /\ Hold(t, "SingleStep", None, "continue")
           /\ UNCHANGED failures
        \/ \* GetThreadContext or SetThreadContext fails
           /\ HoldAfterError(t) /\ Spend(1)
           /\ UNCHANGED <<tf, explicit_steps, trap_threads>>
     /\ UNCHANGED <<alive, thread, at, byte, session, breakpoint, saved,
                    pending_reinsert, flags, detach_pending, leaving, residue>>

\* Every other exception: the first chance goes to the game, the second
\* one is held for the user.
OtherException(e) ==
  LET t == e.thread
  IN /\ Reports(e)
     /\ \/ /\ e.code = "fault"
           /\ ContinueEvent(t, "not_handled")
        \/ /\ e.code = "single_step"
           /\ pending_reinsert[t] = None /\ t \notin explicit_steps
           /\ ContinueEvent(t, "not_handled")
        \/ /\ e.code = "second_chance"
           /\ Hold(t, "Exception", None, "not_handled")
           /\ UNCHANGED <<thread, failures>>
     /\ UNCHANGED <<alive, at, tf, byte, session, breakpoint, saved, steps,
                    flags, detach_pending, leaving, residue>>

\* A thread exited: the breakpoint it was stepping over goes back.
ThreadExited(e) ==
  LET t == e.thread
      p == pending_reinsert[t]
  IN /\ Reports(e) /\ e.code = "exit_thread"
     /\ tf' = [tf EXCEPT ![t] = FALSE]
     /\ explicit_steps' = explicit_steps \ {t}
     /\ trap_threads' = trap_threads \ {t}
     /\ pending_reinsert' = [pending_reinsert EXCEPT ![t] = None]
     /\ \E o \in IF p = None THEN { [ok |-> TRUE, cost |-> 0] }
                             ELSE ReinsertOutcomes(p.addr) :
          /\ IF p = None THEN UNCHANGED <<byte, breakpoint>>
                         ELSE Reinsert(p.addr, o)
          /\ Leaves(o)
          /\ \/ /\ Spend(o.cost)
                /\ Resume(t, "continue") /\ UNCHANGED held
             \/ /\ Spend(o.cost + 1)
                /\ Hold(t, "Exception", None, "continue") /\ UNCHANGED thread
     /\ UNCHANGED <<alive, at, session, saved, flags, detach_pending, leaving>>

\* The process exited: the worker forgets everything and returns, unless
\* it cannot continue the event.
ProcessExited(e) ==
  /\ Reports(e) /\ e.code = "exit_process"
  /\ \/ /\ session' = IF leaving THEN "none" ELSE "ended"
        /\ DropCore
        /\ UNCHANGED failures
     \/ /\ Hold(e.thread, "Exception", None, "continue") /\ Spend(1)
        /\ UNCHANGED <<session, breakpoint, saved, steps, flags, detach_pending,
                       leaving>>
  /\ UNCHANGED <<game, byte, residue>>

HandleEvent(e) ==
  \/ BreakpointHit(e) \/ OtherBreakpoint(e)
  \/ StepOverDone(e) \/ ExplicitStepDone(e) \/ OtherException(e)
  \/ ThreadExited(e) \/ ProcessExited(e)

-----------------------------------------------------------------------------
Game(t) == ExecInt3(t) \/ ExecInstruction(t) \/ ExecBreakIn(t) \/ ExitThread(t)
           \/ SpawnThread(t) \/ RaiseFault(t) \/ DispatchFault(t)

User ==
  \/ \E k \in BreakInThreads : Attach(k) \/ Pause(k)
  \/ \E a \in Addrs : AddBreakpoint(a) \/ RemoveBreakpoint(a)
  \/ Continue
  \/ \E t \in Threads : Step(t)
  \/ LeaveDebugMode

HandleCommand == HandleDetach \/ DeferredDetach
HandleEvents == events # << >> /\ HandleEvent(Head(events))

Next ==
  \/ \E t \in Threads : Game(t)
  \/ ExitProcess \/ Relaunch
  \/ User
  \/ HandleCommand \/ HandleEvents
  \/ WaitFails

Spec == Init /\ [][Next]_vars

\* A game with a thread that cannot go on crashes.
Crash == ~ Sound /\ ExitProcess

\* Fairness: Windows schedules every thread of the game and the worker, which
\* drains its commands before it waits for each event, and a game that
\* cannot go on crashes.  Nothing is assumed of the user.
Fairness ==
  /\ WF_vars(HandleCommand)
  /\ WF_vars(HandleEvents)
  /\ \A t \in Threads : WF_vars(ExecInt3(t) \/ ExecInstruction(t) \/ ExecBreakIn(t))
  /\ WF_vars(Crash)

FairSpec == Spec /\ Fairness

-----------------------------------------------------------------------------
(* Properties.                                                             *)

\* The code of the game is what the table of breakpoints says: without a
\* session it is untouched; with one, an int3 stands where a breakpoint is
\* inserted and nowhere else, and the byte kept for it is the game's own.
\* Failed calls are survived as long as they leave nothing behind, except
\* that an inserted breakpoint may have lost its int3.
CodeMatchesTable ==
  ~ residue /\ alive =>
    \A a \in Addrs :
      /\ byte[a] = "int3" => Debugged /\ breakpoint[a] = "inserted"
      /\ failures = 0 /\ breakpoint[a] = "inserted" => byte[a] = "int3"
      /\ breakpoint[a] # "absent" => saved[a] = "original"

\* A lifted breakpoint is never forgotten: some thread is held on it, or
\* will put it back when its step over it ends.
LiftedComesBack ==
  failures = 0 /\ alive =>
    \A a \in Addrs : breakpoint[a] = "lifted" =>
      \/ held # None /\ held.kind = "Breakpoint" /\ held.addr = a
      \/ \E t \in Threads : /\ pending_reinsert[t] # None
                            /\ pending_reinsert[t].addr = a

\* Every trap flag in the game is one the debugger owns, so that a detach
\* clears it; without a session no thread carries one.  Failed calls are
\* survived as long as they leave nothing behind.
TrapFlagsOwned ==
  ~ residue /\ alive =>
    \A t \in Threads : tf[t] => Debugged /\ t \in trap_threads

HeldBy(t) == held # None /\ held.thread = t

\* A thread that runs with the trap flag, or whose step is queued, is one
\* whose single-step exception the debugger will claim: it is stepping over
\* a lifted breakpoint or was told to step.
StepsAreClaimed ==
  failures = 0 /\ Debugged /\ alive =>
    \A t \in Threads :
      /\ thread[t] \in {"running", "single_step"} /\ tf[t] /\ ~ HeldBy(t)
           => pending_reinsert[t] # None \/ t \in explicit_steps
      /\ thread[t] = "single_step" /\ ~ HeldBy(t) => tf[t]

\* architecture.md: "Leaving Debug Mode removes breakpoints and detaches
\* without terminating CoE5."
LeavingKeepsTheGame == alive /\ session = "none" => Sound

\* Leaving Debug Mode ends: the drop that joins the worker on the thread of
\* the user interface returns.
LeavingEnds == leaving ~> ~ Debugged
=============================================================================
