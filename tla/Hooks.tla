-------------------------------- MODULE Hooks --------------------------------
(***************************************************************************)
(* The detours of the injected module (crates/injected/src/hooks.rs): the  *)
(* thread of AzazelInitialize installs and removes them on request, while  *)
(* the threads of the game call the functions they are put on.             *)
(*                                                                         *)
(* A hook is three things that have to agree: the jump MinHook patches     *)
(* into the function, the trampoline by which the detour reaches what the  *)
(* jump replaced, and the static (ORIGINAL_...) the detour finds the       *)
(* trampoline by.  The manager changes them one after the other and the    *)
(* game runs in between.  Publishing the observed events is left out.      *)
(***************************************************************************)
EXTENDS Naturals, FiniteSets

CONSTANTS
  Symbols,      \* functions of the manifest
  Functions,    \* those among them that hook_definition knows
  GameThreads,  \* threads of the game
  None,
  MaxFailures   \* bound: MinHook calls that fail in a behaviour

ASSUME HooksAssumption ==
  Functions \subseteq Symbols /\ None \notin Symbols /\ MaxFailures \in Nat

VARIABLES
  \* the game's functions and MinHook
  patched,     \* functions whose entry jumps to the detour
  trampoline,  \* functions MinHook has a hook, with its trampoline, for
  \* the statics, as the set of those that are not null
  original,
  \* HookManager, and where its thread is: doing what, to which function
  installed, manager,
  ending,      \* run() has left its loop: the hooks are being dropped
  call,        \* the call each thread of the game is in, and where
  failures

vars == <<patched, trampoline, original, installed, manager, ending, call, failures>>

-----------------------------------------------------------------------------
\* "created", "stored": enable after create_hook and after the store;
\* "rollback": enable_hook has failed and the hook is removed; "unpatched",
\* "removed": disable after disable_hook and after remove_hook.
ManagerStep == {"idle", "created", "stored", "rollback", "unpatched", "removed"}
\* "detour": entered it; "loaded": has read the static; "stale": what it read
\* has been freed since; "original": runs the function; "skipped": returned
\* without running it; "lost": jumped to freed memory.
CallStep == {"outside", "detour", "loaded", "stale", "original", "skipped", "lost"}

TypeOK ==
  /\ patched \subseteq Functions
  /\ trampoline \subseteq Functions
  /\ original \subseteq Functions
  /\ installed \subseteq Functions
  /\ manager \in [step : ManagerStep, on : Functions \cup {None}]
  /\ manager.step # "idle" => manager.on \in Functions
  /\ ending \in BOOLEAN
  /\ call \in [GameThreads -> [step : CallStep, of : Functions \cup {None}]]
  /\ failures \in 0 .. MaxFailures

Idle == [step |-> "idle", on |-> None]
Outside == [step |-> "outside", of |-> None]

Init ==
  /\ patched = {} /\ trampoline = {} /\ original = {}
  /\ installed = {} /\ manager = Idle /\ ending = FALSE
  /\ call = [t \in GameThreads |-> Outside]
  /\ failures = 0

Fail == failures < MaxFailures /\ failures' = failures + 1

-----------------------------------------------------------------------------
(* HookManager::enable.                                                    *)

\* MUTANT: any function of the manifest is taken for observable.
CreateAnyHook(f) ==
  /\ manager = Idle /\ ~ ending
  /\ f \notin installed /\ f \notin patched /\ f \notin trampoline
  /\ trampoline' = trampoline \cup {f}
  /\ manager' = [step |-> "created", on |-> f]
  /\ UNCHANGED <<patched, original, installed, ending, call, failures>>

\* The function is observable and not installed, its signature is pristine, and MinHook
\* builds a trampoline.  (When any of these fails nothing has changed.)
CreateHook(f) ==
  /\ manager = Idle /\ ~ ending /\ f \in Functions
  /\ f \notin installed /\ f \notin patched /\ f \notin trampoline
  /\ trampoline' = trampoline \cup {f}
  /\ manager' = [step |-> "created", on |-> f]
  /\ UNCHANGED <<patched, original, installed, ending, call, failures>>

\* MUTANT: the hook is enabled before the detour can find the trampoline.
StoreLater ==
  /\ manager.step = "created"
  /\ manager' = [manager EXCEPT !.step = "stored"]
  /\ UNCHANGED <<patched, trampoline, original, installed, ending, call, failures>>

StoreOriginal ==
  /\ manager.step = "created"
  /\ original' = original \cup {manager.on}
  /\ manager' = [manager EXCEPT !.step = "stored"]
  /\ UNCHANGED <<patched, trampoline, installed, ending, call, failures>>

\* enable_hook patches the entry, with the other threads suspended.
EnableHook ==
  /\ manager.step = "stored"
  /\ patched' = patched \cup {manager.on}
  /\ installed' = installed \cup {manager.on}
  /\ manager' = Idle
  /\ UNCHANGED <<trampoline, original, ending, call, failures>>

\* A trampoline is freed: what a detour has read of it is worthless.
Free(f) ==
  /\ trampoline' = trampoline \ {f}
  /\ call' = [t \in GameThreads |->
                IF call[t] = [step |-> "loaded", of |-> f]
                  THEN [call[t] EXCEPT !.step = "stale"] ELSE call[t]]

\* enable_hook fails: the hook is removed, whether or not that works.
EnableFails ==
  /\ manager.step = "stored"
  /\ \/ Free(manager.on) /\ Fail
     \/ /\ failures + 2 <= MaxFailures /\ failures' = failures + 2
        /\ UNCHANGED <<trampoline, call>>
  /\ manager' = [manager EXCEPT !.step = "rollback"]
  /\ UNCHANGED <<patched, original, installed, ending>>

\* MUTANT: the static is left as it is.
KeepOriginal ==
  /\ manager.step \in {"rollback", "removed"}
  /\ manager' = Idle
  /\ UNCHANGED <<patched, trampoline, original, installed, ending, call, failures>>

\* At the end of either the static is null again.
ClearOriginal ==
  /\ manager.step \in {"rollback", "removed"}
  /\ original' = original \ {manager.on}
  /\ manager' = Idle
  /\ UNCHANGED <<patched, trampoline, installed, ending, call, failures>>

-----------------------------------------------------------------------------
(* HookManager::disable, and disable_all at the end of run().              *)

\* The hook leaves the table before MinHook is asked: when disable_hook
\* fails the entry stays patched and the table does not say so.
DisableHook(f) ==
  /\ manager = Idle /\ f \in installed
  /\ installed' = installed \ {f}
  /\ \/ /\ patched' = patched \ {f}
        /\ manager' = [step |-> "unpatched", on |-> f]
        /\ UNCHANGED failures
     \/ Fail /\ UNCHANGED <<patched, manager>>
  /\ UNCHANGED <<trampoline, original, ending, call>>

RemoveHook ==
  /\ manager.step = "unpatched"
  /\ \/ /\ Free(manager.on)
        /\ manager' = [manager EXCEPT !.step = "removed"]
        /\ UNCHANGED failures
     \/ Fail /\ manager' = Idle /\ UNCHANGED <<trampoline, call>>
  /\ UNCHANGED <<patched, original, installed, ending>>

\* MUTANT: the hooks of a lost link are taken for gone with the link.
EndWithoutDisabling ==
  /\ manager = Idle /\ ~ ending
  /\ ending' = TRUE /\ installed' = {}
  /\ UNCHANGED <<patched, trampoline, original, manager, call, failures>>

\* run() leaves its loop: after a Shutdown, or because the link is lost.
End ==
  /\ manager = Idle /\ ~ ending
  /\ ending' = TRUE
  /\ UNCHANGED <<patched, trampoline, original, installed, manager, call, failures>>

-----------------------------------------------------------------------------
(* The game: one call at a time per thread, as far as hooks go.            *)

At(t, step, f) == call[t] = [step |-> step, of |-> f]
GoTo(t, step, f) == call' = [call EXCEPT ![t] = [step |-> step, of |-> f]]

game == <<patched, trampoline, original, installed, manager, ending, failures>>

Enter(t, f) ==
  /\ call[t] = Outside
  /\ GoTo(t, IF f \in patched THEN "detour" ELSE "original", f)
  /\ UNCHANGED game

\* The detour loads the static and returns when it is null.
LoadOriginal(t, f) ==
  /\ At(t, "detour", f)
  /\ GoTo(t, IF f \notin original THEN "skipped"
             ELSE IF f \in trampoline THEN "loaded" ELSE "stale", f)
  /\ UNCHANGED game

CallOriginal(t, f) ==
  /\ \/ At(t, "loaded", f) /\ GoTo(t, "original", f)
     \/ At(t, "stale", f) /\ GoTo(t, "lost", f)
  /\ UNCHANGED game

Return(t) ==
  /\ call[t].step \in {"original", "skipped"}
  /\ call' = [call EXCEPT ![t] = Outside]
  /\ UNCHANGED game

-----------------------------------------------------------------------------
Manager ==
  \/ StoreOriginal \/ EnableHook \/ EnableFails \/ ClearOriginal \/ RemoveHook
  \/ ending /\ \E f \in Functions : DisableHook(f)

Request ==
  \/ \E f \in Symbols : CreateHook(f) \/ DisableHook(f)
  \/ End

GameThread(t) ==
  \/ \E f \in Functions : Enter(t, f) \/ LoadOriginal(t, f) \/ CallOriginal(t, f)
  \/ Return(t)

Next == Manager \/ Request \/ \E t \in GameThreads : GameThread(t)

Spec == Init /\ [][Next]_vars

\* The thread of AzazelInitialize runs.
FairSpec == Spec /\ WF_vars(Manager)

-----------------------------------------------------------------------------
(* Properties.                                                             *)

\* A patched function has a trampoline and its detour can find it, so that
\* a call that enters the detour while the hook stays reaches the function,
\* whatever MinHook call failed before.
PatchedReachesOriginal == patched \subseteq original \cap trampoline

\* The table is true: what it lists is patched, and as long as MinHook does
\* not fail nothing else is, unless disable is at it.
TableIsTrue ==
  /\ installed \subseteq patched
  /\ failures = 0 => patched = installed

\* Between requests, and as long as MinHook does not fail, nothing is left
\* of a hook that is not installed.
NothingLeft ==
  manager = Idle /\ failures = 0 =>
    trampoline = installed /\ original = installed

\* Once run() has left its loop the game gets its functions back, as long
\* as MinHook does not fail.
GameIsUnhooked == ending ~> (patched = {} \/ failures > 0)
=============================================================================
