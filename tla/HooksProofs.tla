----------------------------- MODULE HooksProofs -----------------------------
(***************************************************************************)
(* Proofs about Hooks, for any functions, threads and failures of MinHook: *)
(* its types, that a patched function always reaches the code it replaces, *)
(* that the table of hooks is true, and that nothing but the hooks in the  *)
(* table is left behind.                                                   *)
(***************************************************************************)
EXTENDS Hooks, TLAPS

\* What the manager is in the middle of: before a function is patched its
\* trampoline and its static are there, and a static is only cleared and a
\* trampoline only freed while the function is not patched.
ManagerInv ==
  /\ manager.step \in {"created", "stored"} => manager.on \in trampoline
  /\ manager.step = "stored" => manager.on \in original
  /\ manager.step # "idle" => manager.on \notin patched

HooksInv == TypeOK /\ ManagerInv /\ PatchedReachesOriginal /\ TableIsTrue

-----------------------------------------------------------------------------
\* Freeing a trampoline leaves every thread in a call of a known function.
LEMMA FreeType ==
  ASSUME TypeOK, NEW f \in Functions, Free(f)
  PROVE  /\ trampoline' \subseteq Functions
         /\ call' \in [GameThreads -> [step : CallStep, of : Functions \cup {None}]]
BY DEF TypeOK, Free, CallStep

\* A failed MinHook call is counted, within the bound.
LEMMA FailType ==
  ASSUME TypeOK, Fail
  PROVE  failures' \in 0 .. MaxFailures /\ failures' > 0
BY HooksAssumption DEF TypeOK, Fail

\* A step of a game thread leaves it in a call of a known function.
LEMMA GoToType ==
  ASSUME TypeOK, NEW t \in GameThreads, NEW f \in Functions, NEW s \in CallStep,
         GoTo(t, s, f)
  PROVE  call' \in [GameThreads -> [step : CallStep, of : Functions \cup {None}]]
BY DEF TypeOK, GoTo

\* The threads of the game change nothing but their calls.
LEMMA GameStep ==
  ASSUME HooksInv, NEW t \in GameThreads, GameThread(t)
  PROVE  HooksInv'
<1>1. call' \in [GameThreads -> [step : CallStep, of : Functions \cup {None}]]
  <2>1. ASSUME NEW f \in Functions, Enter(t, f)
        PROVE  call' \in [GameThreads -> [step : CallStep, of : Functions \cup {None}]]
    BY <2>1, GoToType DEF HooksInv, Enter, CallStep
  <2>2. ASSUME NEW f \in Functions, LoadOriginal(t, f)
        PROVE  call' \in [GameThreads -> [step : CallStep, of : Functions \cup {None}]]
    BY <2>2, GoToType DEF HooksInv, LoadOriginal, CallStep
  <2>3. ASSUME NEW f \in Functions, CallOriginal(t, f)
        PROVE  call' \in [GameThreads -> [step : CallStep, of : Functions \cup {None}]]
    BY <2>3, GoToType DEF HooksInv, CallOriginal, CallStep
  <2>4. ASSUME Return(t)
        PROVE  call' \in [GameThreads -> [step : CallStep, of : Functions \cup {None}]]
    BY <2>4 DEF HooksInv, TypeOK, Return, Outside, CallStep
  <2> QED BY <2>1, <2>2, <2>3, <2>4 DEF GameThread
<1>2. UNCHANGED game
  BY DEF GameThread, Enter, LoadOriginal, CallOriginal, Return
<1> QED
  BY <1>1, <1>2 DEF HooksInv, TypeOK, ManagerInv, PatchedReachesOriginal,
                    TableIsTrue, game

\* The actions of enable keep the invariant: the hook is built before the
\* function is patched, and taken apart only when patching failed.
LEMMA EnableStep ==
  ASSUME HooksInv,
         \/ \E f \in Symbols : CreateHook(f)
         \/ StoreOriginal \/ EnableHook \/ EnableFails
  PROVE  HooksInv'
<1>1. CASE \E f \in Symbols : CreateHook(f)
  BY <1>1 DEF HooksInv, TypeOK, ManagerInv, PatchedReachesOriginal, TableIsTrue,
              CreateHook, Idle, ManagerStep
<1>2. CASE StoreOriginal
  BY <1>2 DEF HooksInv, TypeOK, ManagerInv, PatchedReachesOriginal, TableIsTrue,
              StoreOriginal, ManagerStep
<1>3. CASE EnableHook
  BY <1>3 DEF HooksInv, TypeOK, ManagerInv, PatchedReachesOriginal, TableIsTrue,
              EnableHook, Idle, ManagerStep
<1>4. CASE EnableFails
  <2>1. manager.on \in Functions /\ manager.on \notin patched /\ manager'.on = manager.on
    BY <1>4 DEF HooksInv, TypeOK, ManagerInv, EnableFails
  <2>2. manager' \in [step : ManagerStep, on : Functions \cup {None}]
        /\ manager'.step = "rollback"
    BY <1>4 DEF HooksInv, TypeOK, EnableFails, ManagerStep
  <2>3. /\ failures' \in 0 .. MaxFailures /\ failures' > 0
        /\ trampoline' \subseteq Functions /\ trampoline \ {manager.on} \subseteq trampoline'
        /\ call' \in [GameThreads -> [step : CallStep, of : Functions \cup {None}]]
    <3>1. CASE Free(manager.on) /\ Fail
      BY <3>1, <2>1, FreeType, FailType DEF HooksInv, Free
    <3>2. CASE failures + 2 <= MaxFailures /\ failures' = failures + 2
               /\ UNCHANGED <<trampoline, call>>
      BY <3>2, HooksAssumption DEF HooksInv, TypeOK
    <3> QED BY <1>4, <3>1, <3>2 DEF EnableFails
  <2> QED
    BY <1>4, <2>1, <2>2, <2>3 DEF HooksInv, TypeOK, ManagerInv,
       PatchedReachesOriginal, TableIsTrue, EnableFails
<1> QED BY <1>1, <1>2, <1>3, <1>4

\* The actions of disable and of the end of run() keep the invariant: the
\* hook is taken apart only after the function is its own again.
LEMMA DisableStep ==
  ASSUME HooksInv,
         \/ \E f \in Symbols : DisableHook(f)
         \/ RemoveHook \/ ClearOriginal \/ End
  PROVE  HooksInv'
<1>1. ASSUME NEW f \in Symbols, DisableHook(f)
      PROVE  HooksInv'
  <2>1. f \in Functions /\ f \in patched
    BY <1>1 DEF HooksInv, TypeOK, TableIsTrue, DisableHook
  <2>2. CASE patched' = patched \ {f} /\ manager' = [step |-> "unpatched", on |-> f]
             /\ UNCHANGED failures
    BY <1>1, <2>1, <2>2 DEF HooksInv, TypeOK, ManagerInv, PatchedReachesOriginal,
       TableIsTrue, DisableHook, ManagerStep
  <2>3. CASE Fail /\ UNCHANGED <<patched, manager>>
    BY <1>1, <2>1, <2>3, FailType DEF HooksInv, TypeOK, ManagerInv,
       PatchedReachesOriginal, TableIsTrue, DisableHook
  <2> QED BY <1>1, <2>2, <2>3 DEF DisableHook
<1>2. CASE RemoveHook
  <2>1. manager.on \in Functions /\ manager.on \notin patched
    BY <1>2 DEF HooksInv, TypeOK, ManagerInv, RemoveHook
  <2>2. CASE /\ Free(manager.on) /\ manager' = [manager EXCEPT !.step = "removed"]
             /\ UNCHANGED failures
    <3>1. /\ trampoline' \subseteq Functions /\ trampoline \ {manager.on} \subseteq trampoline'
          /\ call' \in [GameThreads -> [step : CallStep, of : Functions \cup {None}]]
      BY <2>1, <2>2, FreeType DEF HooksInv, Free
    <3>2. manager' \in [step : ManagerStep, on : Functions \cup {None}]
          /\ manager'.step = "removed" /\ manager'.on = manager.on
      BY <2>1, <2>2 DEF HooksInv, TypeOK, ManagerStep
    <3> QED
      BY <1>2, <2>1, <2>2, <3>1, <3>2 DEF HooksInv, TypeOK, ManagerInv,
         PatchedReachesOriginal, TableIsTrue, RemoveHook
  <2>3. CASE Fail /\ manager' = Idle /\ UNCHANGED <<trampoline, call>>
    BY <1>2, <2>3, FailType DEF HooksInv, TypeOK, ManagerInv,
       PatchedReachesOriginal, TableIsTrue, RemoveHook, Idle, ManagerStep
  <2> QED BY <1>2, <2>2, <2>3 DEF RemoveHook
<1>3. CASE ClearOriginal
  BY <1>3 DEF HooksInv, TypeOK, ManagerInv, PatchedReachesOriginal, TableIsTrue,
              ClearOriginal, Idle, ManagerStep
<1>4. CASE End
  BY <1>4 DEF HooksInv, TypeOK, ManagerInv, PatchedReachesOriginal, TableIsTrue, End
<1> QED BY <1>1, <1>2, <1>3, <1>4

-----------------------------------------------------------------------------
\* The inductive invariant of the hooks.
LEMMA HooksInvariant == Spec => []HooksInv
<1>1. Init => HooksInv
  <2> SUFFICES ASSUME Init PROVE HooksInv
    OBVIOUS
  <2>1. manager \in [step : ManagerStep, on : Functions \cup {None}]
        /\ manager.step = "idle"
    BY DEF Init, Idle, ManagerStep
  <2>2. call \in [GameThreads -> [step : CallStep, of : Functions \cup {None}]]
    BY DEF Init, Outside, CallStep
  <2>3. failures = 0 /\ failures \in 0 .. MaxFailures
    BY HooksAssumption DEF Init
  <2> QED
    BY <2>1, <2>2, <2>3 DEF Init, HooksInv, TypeOK, ManagerInv,
       PatchedReachesOriginal, TableIsTrue
<1>2. HooksInv /\ [Next]_vars => HooksInv'
  <2> SUFFICES ASSUME HooksInv, [Next]_vars PROVE HooksInv'
    OBVIOUS
  <2>1. CASE \E t \in GameThreads : GameThread(t)
    BY <2>1, GameStep
  <2>2. CASE Manager \/ Request
    <3>1. ASSUME NEW f \in Functions, DisableHook(f) PROVE HooksInv'
      BY <3>1, DisableStep, HooksAssumption
    <3> QED BY <2>2, <3>1, EnableStep, DisableStep DEF Manager, Request
  <2>3. CASE UNCHANGED vars
    BY <2>3 DEF vars, HooksInv, TypeOK, ManagerInv, PatchedReachesOriginal, TableIsTrue
  <2> QED BY <2>1, <2>2, <2>3 DEF Next
<1> QED BY <1>1, <1>2, PTL DEF Spec

\* Whatever MinHook calls fail, a patched function has a trampoline and its
\* detour finds it: a call that is not overtaken by a removal is never lost.
THEOREM PatchedCallsReachTheGame == Spec => []PatchedReachesOriginal
BY HooksInvariant, PTL DEF HooksInv

\* What HookManager lists is patched, and as long as MinHook does not fail
\* nothing else is: the capability report tells the truth.
THEOREM TableIsAlwaysTrue == Spec => []TableIsTrue
BY HooksInvariant, PTL DEF HooksInv

\* The state of the detours, of the manager and of the game's calls keeps its types.
THEOREM TypeCorrect == Spec => []TypeOK
BY HooksInvariant, PTL DEF HooksInv

-----------------------------------------------------------------------------
(* What is left of a hook.                                                 *)

\* The function the manager works on, at one of these steps.
On(steps) == IF manager.step \in steps THEN {manager.on} ELSE {}

\* As long as MinHook does not fail there are a trampoline and a static for the functions
\* in the table, and for the one that is being hooked or unhooked as far as that has got.
LeftInv ==
  failures = 0 =>
    /\ manager.step # "rollback"
    /\ trampoline = installed \cup On({"created", "stored", "unpatched"})
    /\ original = installed \cup On({"stored", "unpatched", "removed"})

\* A failed call is not forgotten.
LEMMA FailuresAreKept ==
  ASSUME TypeOK, UNCHANGED failures \/ Fail \/ failures' = failures + 2
  PROVE  failures' = 0 => failures = 0 /\ UNCHANGED failures
BY HooksAssumption DEF TypeOK, Fail

\* Building a hook adds its parts one by one.
LEMMA EnableLeaves ==
  ASSUME HooksInv, LeftInv,
         \/ \E f \in Symbols : CreateHook(f)
         \/ StoreOriginal \/ EnableHook \/ EnableFails
  PROVE  LeftInv'
<1>1. CASE \E f \in Symbols : CreateHook(f)
  BY <1>1 DEF LeftInv, On, CreateHook, Idle
<1>2. CASE StoreOriginal
  BY <1>2 DEF HooksInv, TypeOK, LeftInv, On, StoreOriginal
<1>3. CASE EnableHook
  BY <1>3 DEF LeftInv, On, EnableHook, Idle
<1>4. CASE EnableFails
  BY <1>4, FailuresAreKept, HooksAssumption DEF HooksInv, TypeOK, LeftInv, EnableFails, Fail
<1> QED BY <1>1, <1>2, <1>3, <1>4

\* Taking a hook apart removes them, of a function that is no longer in the table.
LEMMA DisableLeaves ==
  ASSUME HooksInv, LeftInv,
         \/ \E f \in Symbols : DisableHook(f)
         \/ RemoveHook \/ ClearOriginal \/ End
  PROVE  LeftInv'
<1>0. manager.step # "idle" => manager.on \notin installed
  BY DEF HooksInv, ManagerInv, TableIsTrue
<1>1. ASSUME NEW f \in Symbols, DisableHook(f)
      PROVE  LeftInv'
  <2>1. manager = Idle /\ f \in installed /\ installed' = installed \ {f}
        /\ UNCHANGED <<trampoline, original>>
    BY <1>1 DEF DisableHook
  <2>2. CASE manager' = [step |-> "unpatched", on |-> f] /\ UNCHANGED failures
    BY <2>1, <2>2 DEF LeftInv, On, Idle
  <2>3. CASE Fail
    BY <2>3, FailuresAreKept, HooksAssumption DEF HooksInv, TypeOK, LeftInv, Fail
  <2> QED BY <1>1, <2>2, <2>3 DEF DisableHook
<1>2. CASE RemoveHook
  <2>1. manager.step = "unpatched" /\ UNCHANGED <<original, installed>>
    BY <1>2 DEF RemoveHook
  <2>2. CASE Free(manager.on) /\ manager' = [manager EXCEPT !.step = "removed"]
             /\ UNCHANGED failures
    BY <1>0, <2>1, <2>2 DEF HooksInv, TypeOK, LeftInv, On, Free
  <2>3. CASE Fail
    BY <2>3, FailuresAreKept, HooksAssumption DEF HooksInv, TypeOK, LeftInv, Fail
  <2> QED BY <1>2, <2>2, <2>3 DEF RemoveHook
<1>3. CASE ClearOriginal
  BY <1>0, <1>3 DEF LeftInv, On, ClearOriginal, Idle
<1>4. CASE End
  BY <1>4 DEF LeftInv, On, End
<1> QED BY <1>1, <1>2, <1>3, <1>4

\* As long as MinHook does not fail, nothing but the hooks in the table is left between
\* two requests: no trampoline, and no static a detour could find it by.
THEOREM NothingIsLeft == Spec => []NothingLeft
<1>1. Init => LeftInv
  BY DEF Init, LeftInv, On, Idle
<1>2. HooksInv /\ LeftInv /\ [Next]_vars => LeftInv'
  <2> SUFFICES ASSUME HooksInv, LeftInv, [Next]_vars PROVE LeftInv'
    OBVIOUS
  <2>1. CASE (\E t \in GameThreads : GameThread(t)) \/ UNCHANGED vars
    <3>1. UNCHANGED <<trampoline, original, installed, manager, failures>>
      BY <2>1 DEF GameThread, Enter, LoadOriginal, CallOriginal, Return, game, vars
    <3> QED BY <3>1 DEF LeftInv, On
  <2>2. CASE Manager \/ Request
    <3>1. ASSUME NEW f \in Functions, DisableHook(f) PROVE LeftInv'
      BY <3>1, DisableLeaves, HooksAssumption
    <3> QED BY <2>2, <3>1, EnableLeaves, DisableLeaves DEF Manager, Request
  <2> QED BY <2>1, <2>2 DEF Next
<1>3. LeftInv => NothingLeft
  BY DEF LeftInv, On, NothingLeft, Idle
<1> QED BY <1>1, <1>2, <1>3, HooksInvariant, PTL DEF Spec
=============================================================================
