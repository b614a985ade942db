---------------------------- MODULE InterruptTest ----------------------------
(***************************************************************************)
(* Cooperative cancellation (geos::util::Interrupt) as the unit tests of   *)
(* tests/unit/util/InterruptTest.cpp drive it: worker threads spin in      *)
(* workForever(), calling GEOS_CHECK_FOR_INTERRUPTS() until it throws;     *)
(* the main thread requests interruption directly (test 1) or through a    *)
(* callback that reads a map of per-thread requests (test 2), then joins.  *)
(* In test 3 each worker registers a callback of its own thread with      *)
(* registerThreadCallback and returns.                                     *)
(*                                                                         *)
(* Interrupt itself is outside src/ and follows the design: request() sets *)
(* a process-wide flag that every cooperating thread sees; process() runs  *)
(* the registered callback, then throws if the flag is set; the flag is    *)
(* not reset in the middle of an operation; thread callbacks live in a    *)
(* thread-local registry, gone when their thread exits.  One step of a     *)
(* worker is the registration, the exit, the sleep_for, the callback or   *)
(* the flag test of process().                                             *)
(***************************************************************************)
EXTENDS Integers

CONSTANTS
    Tests,      \* the tests the main thread may run: a subset of {1, 2, 3}
    T1, T2      \* the worker threads t / t1 and t2

Workers == {T1, T2}

VARIABLES
    requested,        \* Interrupt's process-wide flag
    callback,         \* the registered callback: "none" or "interruptIfRequested"
    threadCallback,   \* per worker, its thread-local callback: "none", "cb1", "cb2"
    interrupt1,       \* test 3's local interrupt1, cb1's data
    toInterrupt,      \* test_interrupt_data::toInterrupt: "null" or "map"
    mapAlive,         \* the local map shouldInterrupt of test 2 is in scope
    shouldInterrupt,  \* its values, per worker
    wpc,              \* per worker: "idle", "sleep", "callback", "consume", "check",
                      \* "register", "exit", "done"
    mpc,              \* the main thread's position in the test
    lateRead,         \* a callback has read shouldInterrupt after its scope
    test              \* the test being run

vars == <<test, requested, callback, threadCallback, interrupt1, toInterrupt, mapAlive,
          shouldInterrupt, wpc, mpc, lateRead>>

---------------------------------------------------------------------------
\* Interrupt::request()
request == requested' = TRUE

\* interruptIfRequested() on thread t, its test: the callback is registered,
\* toInterrupt is set, and t's entry of the map is true
interruptIfRequested(t) ==
    /\ callback = "interruptIfRequested"
    /\ toInterrupt = "map" /\ mapAlive
    /\ t \in Workers /\ shouldInterrupt[t]

\* the callback dereferences toInterrupt after the map left its scope
readsDeadMap == callback = "interruptIfRequested" /\ toInterrupt = "map" /\ ~mapAlive

\* fault used to check the properties: the first thread to see the flag
\* clears it before throwing
processClearing(t) ==
    /\ wpc' = [wpc EXCEPT ![t] = IF requested THEN "done" ELSE "sleep"]
    /\ requested' = FALSE

\* Interrupt::process(), second half: throw InterruptedException when the
\* flag is set; workForever() catches it and returns
process(t) ==
    /\ wpc' = [wpc EXCEPT ![t] = IF requested THEN "done" ELSE "sleep"]
    /\ UNCHANGED requested

---------------------------------------------------------------------------
Init ==
    /\ requested = FALSE
    /\ callback = "none"
    /\ toInterrupt = "null"
    /\ mapAlive = FALSE
    /\ shouldInterrupt = [t \in Workers |-> FALSE]
    /\ wpc = [t \in Workers |-> "idle"]
    /\ test \in Tests
    /\ threadCallback = [t \in Workers |-> "none"]
    /\ interrupt1 = FALSE
    /\ mpc = CASE test = 1 -> "start1" [] test = 2 -> "register" [] test = 3 -> "start31"
    /\ lateRead = FALSE

\* workForever(): sleep_for(10 ms)
WorkerSleep(t) ==
    /\ wpc[t] = "sleep"
    /\ wpc' = [wpc EXCEPT ![t] = "callback"]
    /\ UNCHANGED <<requested, callback, toInterrupt, mapAlive, shouldInterrupt, mpc, lateRead>>
    /\ UNCHANGED <<threadCallback, interrupt1>>

\* workForever(): GEOS_CHECK_FOR_INTERRUPTS() runs the callback, which
\* finds t's entry (it->second)
WorkerCallback(t) ==
    /\ wpc[t] = "callback"
    /\ wpc' = [wpc EXCEPT ![t] = IF interruptIfRequested(t) THEN "consume" ELSE "check"]
    /\ lateRead' = (lateRead \/ readsDeadMap)
    /\ UNCHANGED <<requested, callback, toInterrupt, mapAlive, shouldInterrupt, mpc>>
    /\ UNCHANGED <<threadCallback, interrupt1>>

\* the callback resets t's entry and calls Interrupt::request()
WorkerConsume(t) ==
    /\ wpc[t] = "consume"
    /\ shouldInterrupt' = [shouldInterrupt EXCEPT ![t] = FALSE]
    /\ request
    /\ wpc' = [wpc EXCEPT ![t] = "check"]
    /\ UNCHANGED <<callback, toInterrupt, mapAlive, mpc, lateRead>>
    /\ UNCHANGED <<threadCallback, interrupt1>>

\* workForever(): the flag test, and the return once interrupted
WorkerCheck(t) ==
    /\ wpc[t] = "check"
    /\ process(t)
    /\ UNCHANGED <<callback, toInterrupt, mapAlive, shouldInterrupt, mpc, lateRead>>
    /\ UNCHANGED <<threadCallback, interrupt1>>

Start(t) == wpc' = [wpc EXCEPT ![t] = "sleep"]

\* the main thread of test 1 (lines 69-72) and of test 2 (lines 81-96); the
\* map's entries are made before toInterrupt publishes it
Main ==
    /\ UNCHANGED <<threadCallback, interrupt1>>
    /\ \/ mpc = "start1" /\ Start(T1) /\ mpc' = "request"
          /\ UNCHANGED <<requested, callback, toInterrupt, mapAlive, shouldInterrupt, lateRead>>
       \/ mpc = "request" /\ request /\ mpc' = "join1"
          /\ UNCHANGED <<callback, toInterrupt, mapAlive, shouldInterrupt, wpc, lateRead>>
       \/ mpc = "register" /\ callback' = "interruptIfRequested" /\ mpc' = "start2"
          /\ UNCHANGED <<requested, toInterrupt, mapAlive, shouldInterrupt, wpc, lateRead>>
       \/ mpc = "start2" /\ Start(T1) /\ mpc' = "start3"
          /\ UNCHANGED <<requested, callback, toInterrupt, mapAlive, shouldInterrupt, lateRead>>
       \/ mpc = "start3" /\ Start(T2) /\ mpc' = "publish"
          /\ UNCHANGED <<requested, callback, toInterrupt, mapAlive, shouldInterrupt, lateRead>>
       \/ mpc = "publish" /\ mapAlive' = TRUE /\ toInterrupt' = "map"
          /\ shouldInterrupt' = [t \in Workers |-> FALSE] /\ mpc' = "set2"
          /\ UNCHANGED <<requested, callback, wpc, lateRead>>
       \/ mpc = "set2" /\ shouldInterrupt' = [shouldInterrupt EXCEPT ![T2] = TRUE]
          /\ mpc' = "set1"
          /\ UNCHANGED <<requested, callback, toInterrupt, mapAlive, wpc, lateRead>>
       \/ mpc = "set1" /\ shouldInterrupt' = [shouldInterrupt EXCEPT ![T1] = TRUE]
          /\ mpc' = "join1"
          /\ UNCHANGED <<requested, callback, toInterrupt, mapAlive, wpc, lateRead>>
       \/ mpc = "join1" /\ wpc[T1] = "done"
          /\ mpc' = (IF test = 1 THEN "finished" ELSE "join2")
          /\ UNCHANGED <<requested, callback, toInterrupt, mapAlive, shouldInterrupt, wpc, lateRead>>
       \* t2.join(), then the end of the test's scope destroys shouldInterrupt
       \/ mpc = "join2" /\ wpc[T2] = "done" /\ mpc' = "finished"
          /\ mapAlive' = FALSE
          /\ UNCHANGED <<requested, callback, toInterrupt, shouldInterrupt, wpc, lateRead>>

\* test 3, a worker's lambda: Interrupt::registerThreadCallback(cb, &data)
\* stores the callback for the calling thread (cb1 on t1, cb2 on t2)
WorkerRegister(t) ==
    /\ wpc[t] = "register"
    /\ threadCallback' = [threadCallback EXCEPT ![t] = IF t = T1 THEN "cb1" ELSE "cb2"]
    /\ wpc' = [wpc EXCEPT ![t] = "exit"]
    /\ UNCHANGED <<requested, callback, interrupt1, toInterrupt, mapAlive,
                   shouldInterrupt, mpc, lateRead>>

\* test 3, the lambda returns and the thread exits, destroying its
\* thread-local callback without ever polling for interrupts
WorkerExit(t) ==
    /\ wpc[t] = "exit"
    /\ threadCallback' = [threadCallback EXCEPT ![t] = "none"]
    /\ wpc' = [wpc EXCEPT ![t] = "done"]
    /\ UNCHANGED <<requested, callback, interrupt1, toInterrupt, mapAlive,
                   shouldInterrupt, mpc, lateRead>>

\* the main thread of test 3 (lines 122-133): start t1 and t2, join t2,
\* set interrupt1, join t1
Main3 ==
    /\ UNCHANGED <<requested, callback, threadCallback, toInterrupt, mapAlive,
                   shouldInterrupt, lateRead>>
    /\ \/ mpc = "start31" /\ wpc' = [wpc EXCEPT ![T1] = "register"] /\ mpc' = "start32"
          /\ UNCHANGED interrupt1
       \/ mpc = "start32" /\ wpc' = [wpc EXCEPT ![T2] = "register"] /\ mpc' = "join32"
          /\ UNCHANGED interrupt1
       \/ mpc = "join32" /\ wpc[T2] = "done" /\ mpc' = "set31"
          /\ UNCHANGED <<wpc, interrupt1>>
       \/ mpc = "set31" /\ interrupt1' = TRUE /\ mpc' = "join31"
          /\ UNCHANGED wpc
       \/ mpc = "join31" /\ wpc[T1] = "done" /\ mpc' = "finished"
          /\ UNCHANGED <<wpc, interrupt1>>

\* a GEOS_CHECK_FOR_INTERRUPTS() on the main thread in a later test of the
\* same process: it runs whatever callback is still registered
LaterCheck ==
    /\ mpc = "finished"
    /\ lateRead' = (lateRead \/ readsDeadMap)
    /\ mpc' = "after"
    /\ UNCHANGED <<requested, callback, toInterrupt, mapAlive, shouldInterrupt, wpc>>
    /\ UNCHANGED <<threadCallback, interrupt1>>

Next ==
    /\ UNCHANGED test
    /\ \/ Main \/ Main3
       \/ \E t \in Workers : \/ WorkerSleep(t) \/ WorkerCallback(t)
                             \/ WorkerConsume(t) \/ WorkerCheck(t)
                             \/ WorkerRegister(t) \/ WorkerExit(t)
       \/ LaterCheck

\* the OS eventually runs every runnable thread
Fairness ==
    /\ WF_vars(Main /\ UNCHANGED test)
    /\ WF_vars(Main3 /\ UNCHANGED test)
    /\ \A t \in Workers : /\ WF_vars(WorkerSleep(t) /\ UNCHANGED test)
                         /\ WF_vars(WorkerCallback(t) /\ UNCHANGED test)
                         /\ WF_vars(WorkerConsume(t) /\ UNCHANGED test)
                         /\ WF_vars(WorkerCheck(t) /\ UNCHANGED test)
                         /\ WF_vars(WorkerRegister(t) /\ UNCHANGED test)
                         /\ WF_vars(WorkerExit(t) /\ UNCHANGED test)

Spec == Init /\ [][Next]_vars /\ Fairness

---------------------------------------------------------------------------
\* Every worker the test starts is eventually interrupted and every join()
\* of the main thread returns, whichever worker's callback requests the
\* interruption and whichever worker checks the flag first.
TestTerminates == <>(mpc \in {"finished", "after"})

\* interruptIfRequested() never reads the map through toInterrupt after
\* the test that published it has returned.
CallbackReadsLiveMap == ~lateRead

=============================================================================
