---------------------------- MODULE ThreadPool ----------------------------
(***************************************************************************)
(* The life of a thread pool, common to pthread_load_fields (field.c),     *)
(* pthread_adjust_sets (mosaic.c), pthread_match_fields (match.c) and      *)
(* pthread_fill_astromatrix (astrsolve.c).  The master creates the         *)
(* workers, resets the shared indices, opens the start gate, waits at the  *)
(* stop gate until there is no work left, raises the end flag, opens the   *)
(* start gate a second time and joins the workers.  A worker tests the end *)
(* flag outside any mutex; what it does between "section" and "stop" is    *)
(* the business of the module that extends this one.                       *)
(*                                                                         *)
(* The two gates are used through what Rendezvous promises; Gate.tla shows *)
(* that threads_gate_sync keeps that promise.                              *)
(***************************************************************************)
EXTENDS Integers, FiniteSets

CONSTANTS Workers,   \* the nproc child threads
          Master,    \* the thread that runs the pool
          NoThread   \* the holder of a free mutex

ASSUME MasterAssumption == Master \notin Workers
ASSUME NoThreadAssumption == NoThread \notin Workers
ASSUME WorkersAssumption == IsFiniteSet(Workers) /\ Workers # {}

VARIABLES pc,                  \* where each thread is
          startIn, startOut,   \* calls and returns of the start gate
          stopIn, stopOut,     \* calls and returns of the stop gate
          endflag              \* pthread_..._endflag

poolVars == <<pc, startIn, startOut, stopIn, stopOut, endflag>>
gateVars == <<startIn, startOut, stopIn, stopOut>>

\* The threads each gate is initialised for: nproc+1.
Parties == Workers \cup {Master}

\* One more call than any thread should make, so that a thread that calls a
\* gate too often is not stopped by the bound.
StartCalls == 3
StopCalls == 2

StartGate == INSTANCE Rendezvous
    WITH Threads <- Parties, MaxCalls <- StartCalls,
         arrived <- startIn, departed <- startOut
StopGate == INSTANCE Rendezvous
    WITH Threads <- Parties, MaxCalls <- StopCalls,
         arrived <- stopIn, departed <- stopOut

Locations == {"none", "create", "start", "atStart", "test", "section", "view",
              "work", "stop", "atStop", "restart", "atRestart", "finish",
              "join", "done", "exited"}

PoolTypeOK == /\ pc \in [Parties -> Locations]
              /\ StartGate!TypeOK
              /\ StopGate!TypeOK
              /\ endflag \in BOOLEAN

NoThreadYet == [p \in Parties |-> IF p = Master THEN "create" ELSE "none"]

\* The first pool of a process: its end flag, a static variable, is clear.
PoolInit == /\ pc = NoThreadYet
            /\ StartGate!Init
            /\ StopGate!Init
            /\ endflag = FALSE

\* Another pool, with new gates and an end flag of its own.
NewPool(flag) == /\ pc' = NoThreadYet
                 /\ startIn' = [p \in Parties |-> 0] /\ startOut' = startIn'
                 /\ stopIn' = [p \in Parties |-> 0] /\ stopOut' = stopIn'
                 /\ endflag' = flag

Goto(p, l) == pc' = [pc EXCEPT ![p] = l]

\* The master creates a worker, which runs at once.
Create(w) ==
    /\ pc[Master] = "create" /\ pc[w] = "none"
    /\ Goto(w, "start")
    /\ UNCHANGED <<gateVars, endflag>>

\* Defect: the end flag of the previous pool is not taken back.
ResetStale ==
    /\ pc[Master] = "create" /\ \A w \in Workers : pc[w] # "none"
    /\ Goto(Master, "start")
    /\ UNCHANGED <<gateVars, endflag>>

\* All workers exist: the flag is cleared, the indices are reset.
Reset ==
    /\ pc[Master] = "create" /\ \A w \in Workers : pc[w] # "none"
    /\ endflag' = FALSE
    /\ Goto(Master, "start")
    /\ UNCHANGED gateVars

EnterStart(p) ==
    /\ pc[p] \in {"start", "restart"}
    /\ StartGate!Arrive(p)
    /\ Goto(p, IF pc[p] = "start" THEN "atStart" ELSE "atRestart")
    /\ UNCHANGED <<stopIn, stopOut, endflag>>

\* Defect: the master raises the end flag without waiting at the stop gate.
LeaveStartUnwaited(p) ==
    /\ pc[p] \in {"atStart", "atRestart"}
    /\ StartGate!Depart(p)
    /\ Goto(p, IF p # Master THEN "test"
               ELSE IF pc[p] = "atStart" THEN "finish" ELSE "join")
    /\ UNCHANGED <<stopIn, stopOut, endflag>>

\* A worker goes (back) to its loop, the master on to the stop gate or, the
\* second time, to joining the workers.
LeaveStart(p) ==
    /\ pc[p] \in {"atStart", "atRestart"}
    /\ StartGate!Depart(p)
    /\ Goto(p, IF p # Master THEN "test"
               ELSE IF pc[p] = "atStart" THEN "stop" ELSE "join")
    /\ UNCHANGED <<stopIn, stopOut, endflag>>

EnterStop(p) ==
    /\ pc[p] = "stop"
    /\ StopGate!Arrive(p)
    /\ Goto(p, "atStop")
    /\ UNCHANGED <<startIn, startOut, endflag>>

LeaveStop(p) ==
    /\ pc[p] = "atStop"
    /\ StopGate!Depart(p)
    /\ Goto(p, IF p = Master THEN "finish" ELSE "restart")
    /\ UNCHANGED <<startIn, startOut, endflag>>

\* while (!endflag)
Test(w) ==
    /\ pc[w] = "test"
    /\ Goto(w, IF endflag THEN "exited" ELSE "section")
    /\ UNCHANGED <<gateVars, endflag>>

Finish ==
    /\ pc[Master] = "finish"
    /\ endflag' = TRUE
    /\ Goto(Master, "restart")
    /\ UNCHANGED gateVars

\* pthread_join of every worker; then the gates, the mutexes and the view
\* flags are destroyed.
Join ==
    /\ pc[Master] = "join"
    /\ \A w \in Workers : pc[w] = "exited"
    /\ Goto(Master, "done")
    /\ UNCHANGED <<gateVars, endflag>>

\* Steps of the life cycle that leave the pool's own data alone.
Lifecycle(p) == \/ EnterStart(p) \/ LeaveStart(p)
                \/ EnterStop(p) \/ LeaveStop(p)

\* The master waits for the workers only at the stop gate; past it, it takes
\* the work for done.
MasterPastStop == pc[Master] \in {"finish", "restart", "atRestart", "join", "done"}

\* The end flag is written and read without a mutex.  Only the gates keep the
\* write of the master apart from the reads of the workers.
EndflagRaceFree ==
    ~ /\ pc[Master] \in {"create", "finish"}
      /\ \E w \in Workers : pc[w] = "test"
===========================================================================
