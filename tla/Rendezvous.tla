---------------------------- MODULE Rendezvous ----------------------------
(***************************************************************************)
(* What a thread gate promises, whatever it is made of.  Every thread may  *)
(* arrive at the gate; it departs only when every thread has arrived as    *)
(* often as it has itself.  The pools of SCAMP (field.c, mosaic.c,         *)
(* match.c, astrsolve.c) are written against this promise; Gate.tla is     *)
(* the POSIX code that has to keep it.                                     *)
(***************************************************************************)
EXTENDS Naturals

CONSTANTS Threads,   \* the threads that share the gate
          MaxCalls   \* bound on the calls one thread makes

VARIABLES arrived,   \* arrived[t]: calls of threads_gate_sync thread t began
          departed   \* departed[t]: calls of threads_gate_sync it returned from

vars == <<arrived, departed>>

TypeOK == /\ arrived \in [Threads -> 0..MaxCalls]
          /\ departed \in [Threads -> 0..MaxCalls]

Init == /\ arrived = [t \in Threads |-> 0]
        /\ departed = [t \in Threads |-> 0]

\* A thread that is not at the gate calls it.
Arrive(t) == /\ arrived[t] = departed[t]
             /\ arrived[t] < MaxCalls
             /\ arrived' = [arrived EXCEPT ![t] = @ + 1]
             /\ UNCHANGED departed

\* The gate is open for t: everyone has made the call t is making.
Open(t) == \A u \in Threads : departed[t] < arrived[u]

Depart(t) == /\ departed[t] < arrived[t]
             /\ Open(t)
             /\ departed' = [departed EXCEPT ![t] = @ + 1]
             /\ UNCHANGED arrived

Next == \E t \in Threads : Arrive(t) \/ Depart(t)

Fairness == \A t \in Threads : WF_vars(Depart(t))

Spec == Init /\ [][Next]_vars /\ Fairness
===========================================================================
