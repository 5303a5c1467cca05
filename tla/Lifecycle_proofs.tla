---- MODULE Lifecycle_proofs ----
(***************************************************************************)
(* The safety invariants of Lifecycle: whichever step of main fails, and   *)
(* whenever a signal comes, threads keep their resources, all of them are  *)
(* released in the end, and the exit code tells.                           *)
(***************************************************************************)
EXTENDS Lifecycle, TLAPS

Idle(t) == thread[t] \in {"none", "ended"}

(* Which resources are in use at each point of main.                       *)
UseInv ==
  /\ phase \in {"start", "ask", "exit"} => step = 1
  /\ phase \in {"start", "init", "ask"} => launched = {}
  /\ phase = "start" => inUse = {}
  /\ phase = "init" =>
       \A i \in 1..5 : InitOrder[i] \in inUse <=> i < step
  /\ phase \in {"ask", "launch"} => inUse = Resource
  /\ phase = "join" => inUse = Resource \/ (launched = {} /\ ret = 1)
  /\ phase = "cleanup" => \A i \in 1..5 :
       /\ i < step => CleanupOrder[i] \notin inUse
       /\ i >= step /\ ret = 0 => CleanupOrder[i] \in inUse
  /\ phase = "exit" => inUse = {}

(* Threads that main has joined are gone for good.                         *)
JoinInv ==
  /\ phase = "join" => \A i \in 1..5 : i < step => Idle(ThreadOrder[i])
  /\ phase \in {"cleanup", "exit"} => \A t \in Thread : Idle(t)

(* A failure is on its way to the exit code, wherever it happened.         *)
ErrInv ==
  /\ phase \in {"start", "init", "ask", "launch"} =>
       ~ lastErr /\ ret = 0 /\ (failed <=> errOut # {})
  /\ phase = "join" =>
       /\ lastErr <=> \E i \in 1..5 : i < step /\ ThreadOrder[i] \in errOut
       /\ failed <=> ret = 1 \/ errOut # {}
  /\ phase = "cleanup" => (failed <=> ret = 1 \/ lastErr)
  /\ phase = "exit" => (failed <=> ret = 1)

(* Alone, ThreadsHaveResources does not survive a cleanup step: JoinInv    *)
(* says that no thread is left by then.                                    *)
IInv == TypeOK /\ UseInv /\ JoinInv /\ ErrInv

(* The three orders, slot by slot.                                         *)
LEMMA Orders ==
  /\ Len(InitOrder) = 5 /\ Len(ThreadOrder) = 5 /\ Len(CleanupOrder) = 5
  /\ InitOrder[1] = "pins" /\ InitOrder[2] = "distance"
  /\ InitOrder[3] = "failsafe" /\ InitOrder[4] = "logging"
  /\ InitOrder[5] = "logfile"
  /\ ThreadOrder[1] = "beam" /\ ThreadOrder[2] = "distance"
  /\ ThreadOrder[3] = "display" /\ ThreadOrder[4] = "logging"
  /\ ThreadOrder[5] = "console"
  /\ CleanupOrder[1] = "distance" /\ CleanupOrder[2] = "failsafe"
  /\ CleanupOrder[3] = "logging" /\ CleanupOrder[4] = "pins"
  /\ CleanupOrder[5] = "logfile"
BY DEF InitOrder, ThreadOrder, CleanupOrder

(* Each order names every resource, or every thread, exactly once.         *)
LEMMA OrdersCover ==
  /\ \A i \in 1..5 : InitOrder[i] \in Resource /\ ThreadOrder[i] \in Thread
                     /\ CleanupOrder[i] \in Resource
  /\ \A r \in Resource : /\ \E i \in 1..5 : r = InitOrder[i]
                         /\ \E i \in 1..5 : r = CleanupOrder[i]
  /\ \A t \in Thread : \E i \in 1..5 : t = ThreadOrder[i]
  /\ \A i, j \in 1..5 : InitOrder[i] = InitOrder[j] => i = j
  /\ \A i, j \in 1..5 : CleanupOrder[i] = CleanupOrder[j] => i = j
<1>1. \A i \in 1..5 : i = 1 \/ i = 2 \/ i = 3 \/ i = 4 \/ i = 5
  OBVIOUS
<1>2. 1 \in 1..5 /\ 2 \in 1..5 /\ 3 \in 1..5 /\ 4 \in 1..5 /\ 5 \in 1..5
  OBVIOUS
<1>3. \A i \in 1..5 : InitOrder[i] \in Resource /\ ThreadOrder[i] \in Thread
                      /\ CleanupOrder[i] \in Resource
  BY <1>1, Orders DEF Resource, Thread
<1>4. \A r \in Resource : \E i \in 1..5 : r = InitOrder[i]
  BY <1>2, Orders DEF Resource
<1>5. \A r \in Resource : \E i \in 1..5 : r = CleanupOrder[i]
  BY <1>2, Orders DEF Resource
<1>6. \A t \in Thread : \E i \in 1..5 : t = ThreadOrder[i]
  BY <1>2, Orders DEF Thread
<1>7. \A i, j \in 1..5 : InitOrder[i] = InitOrder[j] => i = j
  BY <1>1, Orders
<1>8. \A i, j \in 1..5 : CleanupOrder[i] = CleanupOrder[j] => i = j
  BY <1>1, Orders
<1> QED
  BY <1>3, <1>4, <1>5, <1>6, <1>7, <1>8

(* Every step keeps the types.                                             *)
LEMMA TypeStep ==
  ASSUME TypeOK, [Next]_vars
  PROVE  TypeOK'
<1> USE DEF TypeOK
<1>1. CASE install_handlers
  <2>1. CASE InitFails
    BY <1>1, <2>1 DEF install_handlers, InitFails
  <2>2. CASE phase' = "init" /\ UNCHANGED <<step, stop, ret, failed>>
    BY <1>1, <2>2 DEF install_handlers, InitFails
  <2> QED
    BY <1>1, <2>1, <2>2 DEF install_handlers
<1>2. CASE InitResource
  <2>1. CASE InitFails /\ UNCHANGED inUse
    BY <1>2, <2>1, Orders, OrdersCover DEF InitResource, InitFails, Advance
  <2>2. CASE UNCHANGED <<stop, ret, failed>> /\ step < 5
    BY <1>2, <2>2, Orders, OrdersCover DEF InitResource, InitFails, Advance
  <2>3. CASE UNCHANGED <<stop, ret, failed>> /\ step = 5
    BY <1>2, <2>3, Orders, OrdersCover DEF InitResource, InitFails, Advance
  <2> QED
    BY <1>2, <2>1, <2>2, <2>3 DEF InitResource, TypeOK
<1>3. CASE query_note_duration
  <2>1. CASE InitFails
    BY <1>3, <2>1 DEF query_note_duration, InitFails
  <2>2. CASE phase' = "launch" /\ UNCHANGED <<step, stop, ret, failed>>
    BY <1>3, <2>2 DEF query_note_duration, InitFails
  <2> QED
    BY <1>3, <2>1, <2>2 DEF query_note_duration
<1>4. CASE LaunchThread
  <2>1. CASE InitFails /\ UNCHANGED <<thread, launched>>
    BY <1>4, <2>1, Orders, OrdersCover DEF LaunchThread, set_thread_launched, InitFails, Advance
  <2>2. CASE UNCHANGED <<stop, ret, failed>> /\ step < 5
    BY <1>4, <2>2, Orders, OrdersCover DEF LaunchThread, set_thread_launched, InitFails, Advance
  <2>3. CASE UNCHANGED <<stop, ret, failed>> /\ step = 5
    BY <1>4, <2>3, Orders, OrdersCover DEF LaunchThread, set_thread_launched, InitFails, Advance
  <2> QED
    BY <1>4, <2>1, <2>2, <2>3 DEF LaunchThread, set_thread_launched, TypeOK
<1>5. CASE JoinThread
  <2>1. CASE step < 5
    BY <1>5, <2>1, Orders DEF JoinThread, is_thread_launched, Advance
  <2>2. CASE step = 5
    BY <1>5, <2>2, Orders DEF JoinThread, is_thread_launched, Advance
  <2> QED
    BY <1>5, <2>1, <2>2 DEF TypeOK
<1>6. CASE CleanupResource
  <2>1. step' \in 1..5 /\ phase' \in {"cleanup", "exit"}
    BY <1>6, Orders DEF CleanupResource, Advance
  <2>2. inUse' \subseteq Resource /\ ret' \in {0, 1}
    BY <1>6 DEF CleanupResource
  <2>3. lastErr' \in BOOLEAN /\ failed' \in BOOLEAN /\ pinStuck' \in BOOLEAN
    BY <1>6 DEF CleanupResource
  <2>4. UNCHANGED <<launched, thread, errOut, stop>>
    BY <1>6 DEF CleanupResource
  <2> QED
    BY <2>1, <2>2, <2>3, <2>4
<1>7. ASSUME NEW t \in Thread, ThreadEnds(t)  PROVE TypeOK'
  BY <1>7 DEF ThreadEnds, MainVars
<1>8. CASE ConsoleReads
  BY <1>8 DEF ConsoleReads, MainVars, Thread
<1>9. CASE ConsoleLine
  BY <1>9 DEF ConsoleLine, MainVars, Thread
<1>10. CASE handle_sigint
  BY <1>10 DEF handle_sigint, MainVars
<1>11. CASE UNCHANGED vars
  BY <1>11 DEF vars
<1> QED
  BY <1>1, <1>2, <1>3, <1>4, <1>5, <1>6, <1>7, <1>8, <1>9, <1>10, <1>11
  DEF Next, Main

(* Every step keeps track of the resources in use.                         *)
LEMMA UseStep ==
  ASSUME TypeOK, UseInv, [Next]_vars
  PROVE  UseInv'
<1> USE DEF TypeOK, UseInv
<1>1. CASE install_handlers
  <2>1. CASE InitFails
    BY <1>1, <2>1 DEF install_handlers, InitFails
  <2>2. CASE phase' = "init" /\ UNCHANGED <<step, stop, ret, failed>>
    BY <1>1, <2>2 DEF install_handlers, InitFails
  <2> QED
    BY <1>1, <2>1, <2>2 DEF install_handlers
<1>2. CASE InitResource
  <2>1. CASE InitFails /\ UNCHANGED inUse
    BY <1>2, <2>1, Orders, OrdersCover DEF InitResource, InitFails, Advance
  <2>2. CASE UNCHANGED <<stop, ret, failed>> /\ step < 5
    BY <1>2, <2>2, Orders, OrdersCover DEF InitResource, InitFails, Advance
  <2>3. CASE UNCHANGED <<stop, ret, failed>> /\ step = 5
    BY <1>2, <2>3, Orders, OrdersCover DEF InitResource, InitFails, Advance
  <2> QED
    BY <1>2, <2>1, <2>2, <2>3 DEF InitResource, TypeOK
<1>3. CASE query_note_duration
  <2>1. CASE InitFails
    BY <1>3, <2>1 DEF query_note_duration, InitFails
  <2>2. CASE phase' = "launch" /\ UNCHANGED <<step, stop, ret, failed>>
    BY <1>3, <2>2 DEF query_note_duration, InitFails
  <2> QED
    BY <1>3, <2>1, <2>2 DEF query_note_duration
<1>4. CASE LaunchThread
  <2>1. CASE InitFails /\ UNCHANGED <<thread, launched>>
    BY <1>4, <2>1, Orders DEF LaunchThread, set_thread_launched, InitFails, Advance
  <2>2. CASE UNCHANGED <<stop, ret, failed>> /\ step < 5
    BY <1>4, <2>2, Orders DEF LaunchThread, set_thread_launched, InitFails, Advance
  <2>3. CASE UNCHANGED <<stop, ret, failed>> /\ step = 5
    <3>1. phase' = "join" /\ step' = 1 /\ inUse' = Resource
      BY <1>4, <2>3, Orders DEF LaunchThread, set_thread_launched, InitFails, Advance
    <3> QED
      BY <3>1
  <2> QED
    BY <1>4, <2>1, <2>2, <2>3 DEF LaunchThread, set_thread_launched, TypeOK
<1>5. CASE JoinThread
  <2>1. CASE step < 5
    BY <1>5, <2>1, Orders, OrdersCover DEF JoinThread, is_thread_launched, Advance
  <2>2. CASE step = 5
    BY <1>5, <2>2, Orders, OrdersCover DEF JoinThread, is_thread_launched, Advance
  <2> QED
    BY <1>5, <2>1, <2>2 DEF TypeOK
<1>6. CASE CleanupResource
  <2>1. CASE step < 5
    BY <1>6, <2>1, Orders, OrdersCover DEF CleanupResource, Advance
  <2>2. CASE step = 5
    BY <1>6, <2>2, Orders, OrdersCover DEF CleanupResource, Advance
  <2> QED
    BY <1>6, <2>1, <2>2 DEF TypeOK
<1>7. ASSUME NEW t \in Thread, ThreadEnds(t)  PROVE UseInv'
  BY <1>7 DEF ThreadEnds, MainVars
<1>8. CASE ConsoleReads
  BY <1>8 DEF ConsoleReads, MainVars, Thread
<1>9. CASE ConsoleLine
  BY <1>9 DEF ConsoleLine, MainVars, Thread
<1>10. CASE handle_sigint
  BY <1>10 DEF handle_sigint, MainVars
<1>11. CASE UNCHANGED vars
  BY <1>11 DEF vars
<1> QED
  BY <1>1, <1>2, <1>3, <1>4, <1>5, <1>6, <1>7, <1>8, <1>9, <1>10, <1>11
  DEF Next, Main

(* A joined thread never comes back.                                       *)
LEMMA JoinStep ==
  ASSUME TypeOK, JoinInv, [Next]_vars
  PROVE  JoinInv'
<1> USE DEF TypeOK, JoinInv, Idle
<1>1. CASE install_handlers
  <2>1. CASE InitFails
    BY <1>1, <2>1 DEF install_handlers, InitFails
  <2>2. CASE phase' = "init" /\ UNCHANGED <<step, stop, ret, failed>>
    BY <1>1, <2>2 DEF install_handlers, InitFails
  <2> QED
    BY <1>1, <2>1, <2>2 DEF install_handlers
<1>2. CASE InitResource
  <2>1. CASE InitFails /\ UNCHANGED inUse
    BY <1>2, <2>1, Orders DEF InitResource, InitFails, Advance
  <2>2. CASE UNCHANGED <<stop, ret, failed>> /\ step < 5
    BY <1>2, <2>2, Orders DEF InitResource, InitFails, Advance
  <2>3. CASE UNCHANGED <<stop, ret, failed>> /\ step = 5
    BY <1>2, <2>3, Orders DEF InitResource, InitFails, Advance
  <2> QED
    BY <1>2, <2>1, <2>2, <2>3 DEF InitResource, TypeOK
<1>3. CASE query_note_duration
  <2>1. CASE InitFails
    BY <1>3, <2>1 DEF query_note_duration, InitFails
  <2>2. CASE phase' = "launch" /\ UNCHANGED <<step, stop, ret, failed>>
    BY <1>3, <2>2 DEF query_note_duration, InitFails
  <2> QED
    BY <1>3, <2>1, <2>2 DEF query_note_duration
<1>4. CASE LaunchThread
  <2>1. CASE InitFails /\ UNCHANGED <<thread, launched>>
    BY <1>4, <2>1, Orders DEF LaunchThread, set_thread_launched, InitFails, Advance
  <2>2. CASE UNCHANGED <<stop, ret, failed>> /\ step < 5
    BY <1>4, <2>2, Orders DEF LaunchThread, set_thread_launched, InitFails, Advance
  <2>3. CASE UNCHANGED <<stop, ret, failed>> /\ step = 5
    BY <1>4, <2>3, Orders DEF LaunchThread, set_thread_launched, InitFails, Advance
  <2> QED
    BY <1>4, <2>1, <2>2, <2>3 DEF LaunchThread, set_thread_launched, TypeOK
<1>5. CASE JoinThread
  <2>1. CASE step < 5
    BY <1>5, <2>1, Orders, OrdersCover DEF JoinThread, is_thread_launched, Advance
  <2>2. CASE step = 5
    BY <1>5, <2>2, Orders, OrdersCover DEF JoinThread, is_thread_launched, Advance
  <2> QED
    BY <1>5, <2>1, <2>2 DEF TypeOK
<1>6. CASE CleanupResource
  <2>1. CASE step < 5
    BY <1>6, <2>1, Orders DEF CleanupResource, Advance
  <2>2. CASE step = 5
    BY <1>6, <2>2, Orders DEF CleanupResource, Advance
  <2> QED
    BY <1>6, <2>1, <2>2 DEF TypeOK
<1>7. ASSUME NEW t \in Thread, ThreadEnds(t)  PROVE JoinInv'
  BY <1>7 DEF ThreadEnds, MainVars
<1>8. CASE ConsoleReads
  BY <1>8 DEF ConsoleReads, MainVars, Thread
<1>9. CASE ConsoleLine
  BY <1>9 DEF ConsoleLine, MainVars, Thread
<1>10. CASE handle_sigint
  BY <1>10 DEF handle_sigint, MainVars
<1>11. CASE UNCHANGED vars
  BY <1>11 DEF vars
<1> QED
  BY <1>1, <1>2, <1>3, <1>4, <1>5, <1>6, <1>7, <1>8, <1>9, <1>10, <1>11
  DEF Next, Main

(* No failure is forgotten.                                                *)
LEMMA ErrStep ==
  ASSUME TypeOK, UseInv, JoinInv, ErrInv, [Next]_vars
  PROVE  ErrInv'
<1> USE DEF TypeOK, ErrInv
<1>1. CASE install_handlers
  <2>1. CASE InitFails
    BY <1>1, <2>1 DEF install_handlers, InitFails
  <2>2. CASE phase' = "init" /\ UNCHANGED <<step, stop, ret, failed>>
    BY <1>1, <2>2 DEF install_handlers, InitFails
  <2> QED
    BY <1>1, <2>1, <2>2 DEF install_handlers
<1>2. CASE InitResource
  <2>1. CASE InitFails /\ UNCHANGED inUse
    BY <1>2, <2>1, Orders DEF InitResource, InitFails, Advance
  <2>2. CASE UNCHANGED <<stop, ret, failed>> /\ step < 5
    BY <1>2, <2>2, Orders DEF InitResource, InitFails, Advance
  <2>3. CASE UNCHANGED <<stop, ret, failed>> /\ step = 5
    BY <1>2, <2>3, Orders DEF InitResource, InitFails, Advance
  <2> QED
    BY <1>2, <2>1, <2>2, <2>3 DEF InitResource, TypeOK
<1>3. CASE query_note_duration
  <2>1. CASE InitFails
    BY <1>3, <2>1 DEF query_note_duration, InitFails
  <2>2. CASE phase' = "launch" /\ UNCHANGED <<step, stop, ret, failed>>
    BY <1>3, <2>2 DEF query_note_duration, InitFails
  <2> QED
    BY <1>3, <2>1, <2>2 DEF query_note_duration
<1>4. CASE LaunchThread
  <2>1. CASE InitFails /\ UNCHANGED <<thread, launched>>
    BY <1>4, <2>1, Orders DEF LaunchThread, set_thread_launched, InitFails, Advance
  <2>2. CASE UNCHANGED <<stop, ret, failed>> /\ step < 5
    BY <1>4, <2>2, Orders DEF LaunchThread, set_thread_launched, InitFails, Advance
  <2>3. CASE UNCHANGED <<stop, ret, failed>> /\ step = 5
    BY <1>4, <2>3, Orders DEF LaunchThread, set_thread_launched, InitFails, Advance
  <2> QED
    BY <1>4, <2>1, <2>2, <2>3 DEF LaunchThread, set_thread_launched, TypeOK
<1>5. CASE JoinThread
  <2>1. CASE step < 5
    BY <1>5, <2>1, Orders, OrdersCover DEF JoinThread, is_thread_launched, Advance
  <2>2. CASE step = 5
    <3>1. phase' = "cleanup" /\ UNCHANGED <<errOut, ret, failed>>
      BY <1>5, <2>2, Orders DEF JoinThread, is_thread_launched, Advance
    <3>2. lastErr' <=> \E i \in 1..5 : ThreadOrder[i] \in errOut
      BY <1>5, <2>2 DEF JoinThread, is_thread_launched
    <3>3. (\E i \in 1..5 : ThreadOrder[i] \in errOut) <=> errOut # {}
      <4>1. \A t \in errOut : t \in Thread
        BY DEF Reporting, Thread
      <4> QED
        BY <4>1, OrdersCover
    <3>4. phase = "join"
      BY <1>5 DEF JoinThread, is_thread_launched
    <3> QED
      BY <3>1, <3>2, <3>3, <3>4
  <2> QED
    BY <1>5, <2>1, <2>2 DEF TypeOK
<1>6. CASE CleanupResource
  <2>1. phase = "cleanup" /\ (failed <=> ret = 1 \/ lastErr)
    BY <1>6 DEF CleanupResource
  <2>2. CleanupOrder[step] \notin inUse => ret = 1
    BY <2>1 DEF UseInv
  <2>3. (failed' <=> ret = 1 \/ lastErr')
    BY <1>6, <2>1, <2>2 DEF CleanupResource
  <2>4. \/ phase' = "cleanup" /\ ret' = ret
        \/ phase' = "exit" /\ (ret' = 1 <=> ret = 1 \/ lastErr')
    BY <1>6, <2>1 DEF CleanupResource, Advance
  <2> QED
    BY <2>3, <2>4
<1>7. ASSUME NEW t \in Thread, ThreadEnds(t)  PROVE ErrInv'
  <2>1. UNCHANGED <<phase, step, lastErr, ret>> /\ ~ Idle(t)
    BY <1>7 DEF ThreadEnds, MainVars, Idle
  <2>2. phase \notin {"cleanup", "exit"}
    BY <2>1 DEF JoinInv
  <2>3. \A i \in 1..5 : phase = "join" /\ i < step =>
           (ThreadOrder[i] \in errOut' <=> ThreadOrder[i] \in errOut)
    BY <1>7, <2>1 DEF JoinInv, ThreadEnds
  <2>4. UNCHANGED <<errOut, failed>> \/ (errOut' # {} /\ failed')
    BY <1>7 DEF ThreadEnds
  <2> QED
    BY <2>1, <2>2, <2>3, <2>4
<1>8. CASE ConsoleReads
  BY <1>8 DEF ConsoleReads, MainVars, Thread
<1>9. CASE ConsoleLine
  BY <1>9 DEF ConsoleLine, MainVars, Thread
<1>10. CASE handle_sigint
  BY <1>10 DEF handle_sigint, MainVars
<1>11. CASE UNCHANGED vars
  BY <1>11 DEF vars
<1> QED
  BY <1>1, <1>2, <1>3, <1>4, <1>5, <1>6, <1>7, <1>8, <1>9, <1>10, <1>11
  DEF Next, Main

(* The invariant holds in every behaviour.                                 *)
THEOREM Invariance == Spec => []IInv
<1>1. Init => IInv
  <2> SUFFICES ASSUME Init  PROVE IInv
    OBVIOUS
  <2>1. TypeOK
    <3>1. thread \in [Thread -> {"none", "running", "reading", "ended"}]
      BY DEF Init
    <3>2. \A t \in Thread : t \in launched <=> thread[t] # "none"
      BY DEF Init
    <3>3. inUse = {} /\ launched = {} /\ errOut = {}
      BY DEF Init
    <3>4. phase = "start" /\ step \in 1..5 /\ ret \in {0, 1} /\ stop \in {0, 1}
      BY DEF Init
    <3>5. lastErr \in BOOLEAN /\ failed \in BOOLEAN /\ pinStuck \in BOOLEAN
      BY DEF Init
    <3> QED
      BY <3>1, <3>2, <3>3, <3>4, <3>5 DEF TypeOK
  <2>2. UseInv /\ JoinInv
    BY DEF Init, UseInv, JoinInv
  <2>3. ErrInv
    BY DEF Init, ErrInv
  <2> QED
    BY <2>1, <2>2, <2>3 DEF IInv
<1>2. IInv /\ [Next]_vars => IInv'
  BY TypeStep, UseStep, JoinStep, ErrStep DEF IInv
<1> QED
  BY <1>1, <1>2, PTL DEF Spec

(* Types, and launched flags that match the threads (main.c).              *)
THEOREM TypeCorrect == Spec => []TypeOK
BY Invariance, PTL DEF IInv

(* No resource is cleaned up under a thread that runs (main.c).            *)
THEOREM NoUseAfterCleanup == Spec => []ThreadsHaveResources
<1>1. IInv => ThreadsHaveResources
  <2> SUFFICES ASSUME IInv, NEW t \in Thread, ~ Idle(t)
               PROVE  inUse = Resource
    BY DEF ThreadsHaveResources, Idle, Uses, Resource
  <2>1. phase \notin {"cleanup", "exit"}
    BY DEF IInv, JoinInv
  <2>2. t \in launched
    BY <2>1 DEF IInv, TypeOK, Idle
  <2> QED
    BY <2>1, <2>2 DEF IInv, TypeOK, UseInv
<1> QED
  BY <1>1, Invariance, PTL

(* main leaves nothing behind (main_cleanup).                              *)
THEOREM NothingLeft == Spec => []EverythingReleased
<1>1. IInv => EverythingReleased
  BY DEF IInv, UseInv, JoinInv, Idle, EverythingReleased
<1> QED
  BY <1>1, Invariance, PTL

(* The exit code is 1 exactly when a step failed (main, main_cleanup).     *)
THEOREM ExitCodeCorrect == Spec => []ExitCodeTells
<1>1. IInv => ExitCodeTells
  BY DEF IInv, ErrInv, ExitCodeTells
<1> QED
  BY <1>1, Invariance, PTL
====
