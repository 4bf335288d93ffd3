------------------------------- MODULE Gate -------------------------------
(***************************************************************************)
(* threads.c: the thread gate, statement by statement.                     *)
(*                                                                         *)
(* A gate is a counter (ngate), two mutexes (mutex, block) and two         *)
(* condition variables (condvar, last).  Each thread runs                  *)
(* threads_gate_sync over and over; pc[t] is the statement it is about to  *)
(* execute.  A condition variable is the set of the threads that sleep on  *)
(* it; a thread that is no longer in the set has been woken and competes   *)
(* for the mutex again.                                                    *)
(*                                                                         *)
(* nthreads < 2 returns at once (threads.c:119); every gate of the program *)
(* is created for nproc+1 >= 2 threads, so that branch never runs and the  *)
(* model assumes at least two threads.                                     *)
(***************************************************************************)
EXTENDS Naturals, FiniteSets

CONSTANTS Threads,    \* the threads the gate was initialised for
          NoThread,   \* the holder of a free mutex
          MaxCalls    \* bound on the calls each thread makes

ASSUME ThreadsAssumption == IsFiniteSet(Threads) /\ Cardinality(Threads) >= 2
ASSUME NoThreadAssumption == NoThread \notin Threads
ASSUME CallsAssumption == MaxCalls \in Nat

VARIABLES ngate,     \* gate->ngate
          mutex,     \* holder of gate->mutex
          block,     \* holder of gate->block
          condvar,   \* threads asleep on gate->condvar
          last,      \* threads asleep on gate->last
          pc,        \* where each thread is in threads_gate_sync
          called,    \* history: calls begun by each thread
          passed,    \* history: calls each thread returned from
          opened     \* history: how often some thread was "the last one in"

vars == <<ngate, mutex, block, condvar, last, pc, called, passed, opened>>

nthreads == Cardinality(Threads)

\* Statements of threads_gate_sync, in program order.
Locations == {"out",        \* not in the function
              "block",      \* 121: lock(block)
              "mutex",      \* 123-124: lock(mutex), ++ngate
              "admit",      \* 126: not last: unlock(block)
              "sleep",      \* 127: wait(condvar)
              "asleep",     \* 127: in the wait, or woken and not yet running
              "open",       \* 131-133: last: func(), broadcast(condvar)
              "linger",     \* 134: wait(last)
              "lingering",  \* 134: in the wait, or woken and not yet running
              "release",    \* 135: unlock(block)
              "leave"}      \* 137-139: --ngate, broadcast(last), unlock(mutex)

\* Statements a thread executes between its ++ngate and its --ngate.
Counted == {"admit", "sleep", "asleep", "open", "linger", "lingering",
            "release", "leave"}

Inside == {t \in Threads : pc[t] \in Counted}

\* The counter is never below none nor above all of the threads.
TypeOK == /\ ngate \in 0..nthreads
          /\ mutex \in Threads \cup {NoThread}
          /\ block \in Threads \cup {NoThread}
          /\ condvar \in SUBSET Threads
          /\ last \in SUBSET Threads
          /\ pc \in [Threads -> Locations]
          /\ called \in [Threads -> Nat]
          /\ passed \in [Threads -> Nat]
          /\ opened \in Nat

\* threads_gate_init.
Init == /\ ngate = 0
        /\ mutex = NoThread /\ block = NoThread
        /\ condvar = {} /\ last = {}
        /\ pc = [t \in Threads |-> "out"]
        /\ called = [t \in Threads |-> 0]
        /\ passed = [t \in Threads |-> 0]
        /\ opened = 0

Goto(t, l) == pc' = [pc EXCEPT ![t] = l]

Call(t) ==
    /\ pc[t] = "out" /\ called[t] < MaxCalls
    /\ called' = [called EXCEPT ![t] = @ + 1]
    /\ Goto(t, "block")
    /\ UNCHANGED <<ngate, mutex, block, condvar, last, passed, opened>>

LockBlock(t) ==
    /\ pc[t] = "block" /\ block = NoThread
    /\ block' = t
    /\ Goto(t, "mutex")
    /\ UNCHANGED <<ngate, mutex, condvar, last, called, passed, opened>>

\* Defect: one thread too few is waited for.
CountInEarly(t) ==
    /\ pc[t] = "mutex" /\ mutex = NoThread
    /\ mutex' = t
    /\ ngate' = ngate + 1
    /\ Goto(t, IF ngate + 2 < nthreads THEN "admit" ELSE "open")
    /\ UNCHANGED <<block, condvar, last, called, passed, opened>>

\* "are we the last one in?"
CountIn(t) ==
    /\ pc[t] = "mutex" /\ mutex = NoThread
    /\ mutex' = t
    /\ ngate' = ngate + 1
    /\ Goto(t, IF ngate + 1 < nthreads THEN "admit" ELSE "open")
    /\ UNCHANGED <<block, condvar, last, called, passed, opened>>

Admit(t) ==
    /\ pc[t] = "admit"
    /\ block' = NoThread
    /\ Goto(t, "sleep")
    /\ UNCHANGED <<ngate, mutex, condvar, last, called, passed, opened>>

Sleep(t) ==
    /\ pc[t] = "sleep"
    /\ mutex' = NoThread
    /\ condvar' = condvar \cup {t}
    /\ Goto(t, "asleep")
    /\ UNCHANGED <<ngate, block, last, called, passed, opened>>

\* Defect: the last one in resets the counter.
OpenGateReset(t) ==
    /\ pc[t] = "open"
    /\ opened' = opened + 1
    /\ condvar' = {}
    /\ ngate' = 0
    /\ Goto(t, "linger")
    /\ UNCHANGED <<mutex, block, last, called, passed>>

\* "yes, we're last": wake everyone up.
OpenGate(t) ==
    /\ pc[t] = "open"
    /\ opened' = opened + 1
    /\ condvar' = {}
    /\ Goto(t, "linger")
    /\ UNCHANGED <<ngate, mutex, block, last, called, passed>>

\* Defect: the block is released before the others are awake.
LingerUnblocked(t) ==
    /\ pc[t] = "linger"
    /\ mutex' = NoThread
    /\ block' = NoThread
    /\ last' = last \cup {t}
    /\ Goto(t, "lingering")
    /\ UNCHANGED <<ngate, condvar, called, passed, opened>>

\* "sleep til all awake", still holding block.
Linger(t) ==
    /\ pc[t] = "linger"
    /\ mutex' = NoThread
    /\ last' = last \cup {t}
    /\ Goto(t, "lingering")
    /\ UNCHANGED <<ngate, block, condvar, called, passed, opened>>

\* The end of pthread_cond_wait(condvar): the mutex is taken again.
Wake(t) ==
    /\ pc[t] = "asleep" /\ t \notin condvar /\ mutex = NoThread
    /\ mutex' = t
    /\ Goto(t, "leave")
    /\ UNCHANGED <<ngate, block, condvar, last, called, passed, opened>>

WakeLast(t) ==
    /\ pc[t] = "lingering" /\ t \notin last /\ mutex = NoThread
    /\ mutex' = t
    /\ Goto(t, "release")
    /\ UNCHANGED <<ngate, block, condvar, last, called, passed, opened>>

Release(t) ==
    /\ pc[t] = "release"
    /\ block' = NoThread
    /\ Goto(t, "leave")
    /\ UNCHANGED <<ngate, mutex, condvar, last, called, passed, opened>>

\* Defect: every thread that leaves wakes the last one.
LeaveWakingAlways(t) ==
    /\ pc[t] = "leave"
    /\ ngate' = ngate - 1
    /\ last' = {}
    /\ mutex' = NoThread
    /\ passed' = [passed EXCEPT ![t] = @ + 1]
    /\ Goto(t, "out")
    /\ UNCHANGED <<block, condvar, called, opened>>

\* Defect: the test on the counter misses by one.
LeaveWakingLate(t) ==
    /\ pc[t] = "leave"
    /\ ngate' = ngate - 1
    /\ last' = IF ngate - 1 = 0 THEN {} ELSE last
    /\ mutex' = NoThread
    /\ passed' = [passed EXCEPT ![t] = @ + 1]
    /\ Goto(t, "out")
    /\ UNCHANGED <<block, condvar, called, opened>>

\* "next to last one out?  yes, wake up last one"
Leave(t) ==
    /\ pc[t] = "leave"
    /\ ngate' = ngate - 1
    /\ last' = IF ngate - 1 = 1 THEN {} ELSE last
    /\ mutex' = NoThread
    /\ passed' = [passed EXCEPT ![t] = @ + 1]
    /\ Goto(t, "out")
    /\ UNCHANGED <<block, condvar, called, opened>>

\* The statements of threads_gate_sync itself.
Step(t) == \/ LockBlock(t) \/ CountIn(t) \/ Admit(t) \/ Sleep(t)
           \/ OpenGate(t) \/ Linger(t) \/ Wake(t) \/ WakeLast(t)
           \/ Release(t) \/ Leave(t)

Next == \E t \in Threads : Call(t) \/ Step(t)

\* The scheduler runs every thread that can run.  A thread is under no
\* obligation to call the gate.
Fairness == \A t \in Threads : WF_vars(Step(t))

Spec == Init /\ [][Next]_vars /\ Fairness

---------------------------------------------------------------------------
(* Properties *)

\* "Synchronize a number of POSIX threads" (threads.c:108): no thread comes
\* out of its n-th call before every thread has gone into its n-th call, also
\* when the gate is used again at once.
Synchronised == \A t, u \in Threads : passed[t] <= called[u]

\* "release the block" when "all awake" (threads.c:134-135): the thread that
\* opened the gate is the last one out, and it is alone in the gate when it
\* lets new threads in.
LastOutReleases == \A t \in Threads : pc[t] = "release" => Inside = {t}

\* Everybody gets through: when every thread has called the gate n times,
\* every thread eventually returns n times.  No wake-up is lost.
AllPass == \A n \in 1..MaxCalls :
              (\A u \in Threads : called[u] >= n) ~> (\A u \in Threads : passed[u] >= n)

\* The gate implements Rendezvous: a return from threads_gate_sync is a
\* Depart, a call an Arrive, every other statement changes nothing a caller
\* sees.  PromiseKept adds that a thread that may depart does.
Promise == INSTANCE Rendezvous WITH arrived <- called, departed <- passed
PromiseSafe == Promise!Init /\ [][Promise!Next]_<<called, passed>>
PromiseKept == Promise!Spec
===========================================================================
