------------------------- MODULE ThreadPoolProofs --------------------------
(***************************************************************************)
(* For any number of workers: the life of a thread pool.  What a thread    *)
(* has behind it at each place, what the gates guarantee meanwhile, and    *)
(* what the end flag says about the master are kept by every step of the   *)
(* life cycle.  The proofs of the pools that load, adjust, match and fill  *)
(* rest on these facts.                                                    *)
(***************************************************************************)
EXTENDS ThreadPool, TLAPS

---------------------------------------------------------------------------
(* The life cycle *)

\* What a thread has behind it at each place: calls and returns of the two
\* gates.
At(p, si, so, ti, to) == /\ startIn[p] = si /\ startOut[p] = so
                         /\ stopIn[p] = ti /\ stopOut[p] = to

Places == \A p \in Parties :
    /\ pc[p] \in {"none", "create", "start"} => At(p, 0, 0, 0, 0)
    /\ pc[p] = "atStart" => At(p, 1, 0, 0, 0)
    /\ pc[p] \in {"section", "view", "work", "stop"} => At(p, 1, 1, 0, 0)
    /\ pc[p] = "atStop" => At(p, 1, 1, 1, 0)
    /\ pc[p] \in {"finish", "restart"} => At(p, 1, 1, 1, 1)
    /\ pc[p] = "atRestart" => At(p, 2, 1, 1, 1)
    /\ pc[p] \in {"join", "done", "exited"} => At(p, 2, 2, 1, 1)
    /\ pc[p] = "test" => At(p, 1, 1, 0, 0) \/ At(p, 2, 2, 1, 1)

Parts == /\ pc[Master] \in {"create", "start", "atStart", "stop", "atStop", "finish",
                            "restart", "atRestart", "join", "done"}
         /\ \A w \in Workers :
               pc[w] \in {"none", "start", "atStart", "test", "section", "view", "work",
                          "stop", "atStop", "restart", "atRestart", "exited"}

\* What the gates promise: nobody is through before everybody has come.
Kept == \A p, q \in Parties : startOut[p] <= startIn[q] /\ stopOut[p] <= stopIn[q]

Flag == /\ pc[Master] \in {"start", "atStart", "stop", "atStop", "finish"} => ~endflag
        /\ pc[Master] \in {"restart", "atRestart", "join", "done"} => endflag

PoolInv == PoolTypeOK /\ Places /\ Parts /\ Kept /\ Flag

---------------------------------------------------------------------------
(* The life cycle is kept by every step of a thread *)

USE MasterAssumption DEF Parties, PoolInv, StartCalls, StopCalls

\* A thread that calls the start gate has made as many calls as its place says.
LEMMA EnterStartPool ==
  ASSUME PoolInv, NEW p \in Parties, EnterStart(p)
  PROVE  PoolInv'
  BY DEF EnterStart, StartGate!Arrive, Goto, PoolTypeOK, StartGate!TypeOK, StopGate!TypeOK,
         Locations, Places, At, Parts, Kept, Flag

LEMMA LeaveStartPool ==
  ASSUME PoolInv, NEW p \in Parties, LeaveStart(p)
  PROVE  PoolInv'
  BY DEF LeaveStart, StartGate!Depart, StartGate!Open, Goto, PoolTypeOK, StartGate!TypeOK,
         StopGate!TypeOK, Locations, Places, At, Parts, Kept, Flag

LEMMA EnterStopPool ==
  ASSUME PoolInv, NEW p \in Parties, EnterStop(p)
  PROVE  PoolInv'
  BY DEF EnterStop, StopGate!Arrive, Goto, PoolTypeOK, StartGate!TypeOK, StopGate!TypeOK,
         Locations, Places, At, Parts, Kept, Flag

LEMMA LeaveStopPool ==
  ASSUME PoolInv, NEW p \in Parties, LeaveStop(p)
  PROVE  PoolInv'
  BY DEF LeaveStop, StopGate!Depart, StopGate!Open, Goto, PoolTypeOK, StartGate!TypeOK,
         StopGate!TypeOK, Locations, Places, At, Parts, Kept, Flag

LEMMA TestPool ==
  ASSUME PoolInv, NEW w \in Workers, Test(w)
  PROVE  PoolInv'
  BY DEF Test, Goto, PoolTypeOK, StartGate!TypeOK, StopGate!TypeOK, gateVars,
         Locations, Places, At, Parts, Kept, Flag

LEMMA CreatePool ==
  ASSUME PoolInv, NEW w \in Workers, Create(w)
  PROVE  PoolInv'
  BY DEF Create, Goto, PoolTypeOK, StartGate!TypeOK, StopGate!TypeOK, gateVars,
         Locations, Places, At, Parts, Kept, Flag

LEMMA ResetPool ==
  ASSUME PoolInv, Reset
  PROVE  PoolInv'
<1>. PoolTypeOK /\ Master \in Parties
  BY DEF PoolTypeOK
<1>1. /\ pc' = [pc EXCEPT ![Master] = "start"] /\ ~endflag' /\ endflag' \in BOOLEAN
      /\ UNCHANGED gateVars /\ pc[Master] = "create"
  BY DEF Reset, Goto
<1>2. pc'[Master] = "start" /\ \A p \in Parties \ {Master} : pc'[p] = pc[p]
  BY <1>1 DEF PoolTypeOK
<1>3. PoolTypeOK'
  BY <1>1 DEF PoolTypeOK, Locations, StartGate!TypeOK, StopGate!TypeOK, gateVars
<1>4. Places'
  BY <1>1, <1>2 DEF Places, At, gateVars
<1>5. Parts'
  BY <1>2 DEF Parts
<1>6. Kept' /\ Flag'
  BY <1>1, <1>2 DEF Kept, Flag, gateVars
<1> QED BY <1>3, <1>4, <1>5, <1>6

LEMMA FinishPool ==
  ASSUME PoolInv, Finish
  PROVE  PoolInv'
  BY DEF Finish, Goto, PoolTypeOK, StartGate!TypeOK, StopGate!TypeOK, gateVars,
         Locations, Places, At, Parts, Kept, Flag

LEMMA JoinPool ==
  ASSUME PoolInv, Join
  PROVE  PoolInv'
  BY DEF Join, Goto, PoolTypeOK, StartGate!TypeOK, StopGate!TypeOK, gateVars,
         Locations, Places, At, Parts, Kept, Flag

\* A worker's turn in its loop.
LEMMA TurnPool ==
  ASSUME PoolInv, NEW w \in Workers, UNCHANGED <<gateVars, endflag>>,
         NEW to, Goto(w, to),
         \/ pc[w] \in {"section", "view", "work"} /\ to \in {"view", "work", "stop"}
         \/ pc[w] = "work" /\ to = "test"
  PROVE  PoolInv'
  BY DEF Goto, PoolTypeOK, StartGate!TypeOK, StopGate!TypeOK, gateVars,
         Locations, Places, At, Parts, Kept, Flag

---------------------------------------------------------------------------
(* What the work of a pool needs to know of its life *)

\* The worker has found no work left; it is at the stop gate or past it.
Behind(w) == pc[w] = "stop" \/ stopIn[w] > 0

\* The steps that are not part of a worker's turn; the master resets the shared
\* indices once.
RunStep == \/ \E p \in Parties : Lifecycle(p)
           \/ \E w \in Workers : Test(w) \/ Create(w)
           \/ Finish \/ Join
LifeStep == Reset \/ RunStep

\* They leave the workers that are at work there, and the others away from it.
LEMMA LifeSteps ==
  ASSUME PoolInv, LifeStep
  PROVE  /\ PoolInv'
         /\ \A w \in Workers : /\ pc'[w] = "work" <=> pc[w] = "work"
                               /\ Behind(w)' <=> Behind(w)
         /\ pc'[Master] = "create" => pc[Master] = "create"
         /\ RunStep => (pc[Master] = "create" => pc'[Master] = "create")
<1> USE DEF Goto, PoolTypeOK, StopGate!TypeOK, Behind
<1>1. ASSUME NEW p \in Parties, EnterStart(p)
      PROVE  /\ \A w \in Workers : /\ pc'[w] = "work" <=> pc[w] = "work"
                                   /\ Behind(w)' <=> Behind(w)
             /\ pc'[Master] = "create" <=> pc[Master] = "create"
  BY <1>1 DEF EnterStart
<1>2. ASSUME NEW p \in Parties, LeaveStart(p)
      PROVE  /\ \A w \in Workers : /\ pc'[w] = "work" <=> pc[w] = "work"
                                   /\ Behind(w)' <=> Behind(w)
             /\ pc'[Master] = "create" <=> pc[Master] = "create"
  BY <1>2 DEF LeaveStart
<1>3. ASSUME NEW p \in Parties, EnterStop(p)
      PROVE  /\ \A w \in Workers : /\ pc'[w] = "work" <=> pc[w] = "work"
                                   /\ Behind(w)' <=> Behind(w)
             /\ pc'[Master] = "create" <=> pc[Master] = "create"
  BY <1>3 DEF EnterStop, StopGate!Arrive
<1>4. ASSUME NEW p \in Parties, LeaveStop(p)
      PROVE  /\ \A w \in Workers : /\ pc'[w] = "work" <=> pc[w] = "work"
                                   /\ Behind(w)' <=> Behind(w)
             /\ pc'[Master] = "create" <=> pc[Master] = "create"
  BY <1>4 DEF LeaveStop, StopGate!Depart, Places, At
<1>5. ASSUME Finish \/ Join \/ \E w \in Workers : Test(w) \/ Create(w)
      PROVE  /\ \A w \in Workers : /\ pc'[w] = "work" <=> pc[w] = "work"
                                   /\ Behind(w)' <=> Behind(w)
             /\ pc'[Master] = "create" <=> pc[Master] = "create"
  BY <1>5 DEF Finish, Join, Test, Create, gateVars
<1>6. ASSUME Reset
      PROVE  /\ \A w \in Workers : /\ pc'[w] = "work" <=> pc[w] = "work"
                                   /\ Behind(w)' <=> Behind(w)
             /\ pc'[Master] = "create" => pc[Master] = "create"
  BY <1>6 DEF Reset, gateVars
<1>7. PoolInv'
  BY EnterStartPool, LeaveStartPool, EnterStopPool, LeaveStopPool, TestPool, CreatePool,
     ResetPool, FinishPool, JoinPool DEF LifeStep, RunStep, Lifecycle
<1> QED BY <1>1, <1>2, <1>3, <1>4, <1>5, <1>6, <1>7 DEF LifeStep, RunStep, Lifecycle

\* A worker in its loop has been let in by the master and has not left it.
LEMMA TurnSteps ==
  ASSUME PoolInv, NEW w \in Workers, UNCHANGED <<gateVars, endflag>>,
         NEW to, Goto(w, to),
         \/ pc[w] \in {"section", "view", "work"} /\ to \in {"view", "work", "stop"}
         \/ pc[w] = "work" /\ to = "test"
  PROVE  /\ PoolInv'
         /\ pc'[w] = to /\ \A v \in Workers \ {w} : pc'[v] = pc[v]
         /\ ~Behind(w) /\ (Behind(w)' <=> to = "stop")
         /\ \A v \in Workers \ {w} : Behind(v)' <=> Behind(v)
         /\ pc'[Master] = pc[Master] /\ pc[Master] # "create"
<1>1. PoolInv'
  BY TurnPool
<1>2. /\ pc'[w] = to /\ \A v \in Parties \ {w} : pc'[v] = pc[v]
      /\ stopIn' = stopIn
  BY DEF Goto, PoolTypeOK, gateVars
<1>3. stopIn[w] = 0 /\ pc[Master] # "create" /\ pc[w] # "stop"
  BY DEF Places, At, Kept, PoolTypeOK, StartGate!TypeOK, StopGate!TypeOK
<1> QED BY <1>1, <1>2, <1>3 DEF Behind

\* A worker at work has been started by the master and has not left its loop.
LEMMA Working ==
  ASSUME PoolInv, NEW w \in Workers, pc[w] = "work"
  PROVE  ~Behind(w) /\ pc[Master] # "create" /\ ~MasterPastStop
BY DEF Behind, MasterPastStop, Places, At, Kept, Parts, PoolTypeOK, StartGate!TypeOK,
       StopGate!TypeOK

\* Once the master is through the stop gate every worker has come to it.
LEMMA PastStop ==
  ASSUME PoolInv, MasterPastStop, NEW w \in Workers
  PROVE  Behind(w)
BY DEF Behind, MasterPastStop, Places, At, Kept, Parts, PoolTypeOK, StartGate!TypeOK,
       StopGate!TypeOK

\* A new pool begins its life.
LEMMA NewPoolLife ==
  ASSUME NEW flag \in BOOLEAN, NewPool(flag)
  PROVE  PoolInv' /\ pc'[Master] = "create" /\ \A w \in Workers : pc'[w] = "none" /\ ~Behind(w)'
BY DEF NewPool, NoThreadYet, PoolTypeOK, StartGate!TypeOK, StopGate!TypeOK, Locations, Places,
       At, Parts, Kept, Flag, Behind

\* Before the master comes to the start gate no worker is in its loop.
LEMMA NotStarted ==
  ASSUME PoolInv, pc[Master] = "create", NEW w \in Workers
  PROVE  ~Behind(w) /\ pc[w] # "work" /\ pc[w] # "section"
<1>1. w \in Parties /\ Master \in Parties
  OBVIOUS
<1>2. At(Master, 0, 0, 0, 0)
  BY <1>1 DEF Places
<1>3. startOut[w] <= 0 /\ startOut[w] \in Nat /\ stopIn[w] \in Nat
  BY <1>1, <1>2 DEF At, Kept, PoolTypeOK, StartGate!TypeOK, StopGate!TypeOK
<1>4. startOut[w] = 0
  BY <1>3
<1>5. pc[w] \in {"none", "start", "atStart"}
  BY <1>1, <1>4 DEF Places, At, Parts
<1> QED BY <1>1, <1>5 DEF Places, At, Behind
=============================================================================
