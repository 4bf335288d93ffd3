--------------------------- MODULE LoadPoolProofs ---------------------------
(***************************************************************************)
(* For any number of workers, files and instruments: the loading pool      *)
(* keeps the end flag free of races, loads every file once, labels no      *)
(* field before it is loaded, labels them as one thread would, and is      *)
(* through when its master goes on.                                        *)
(***************************************************************************)
EXTENDS LoadPool, ThreadPoolProofs, FoldLemmas

---------------------------------------------------------------------------
(* The work *)

\* The read mutex is held in "view" only.
Mutex == \A w \in Workers : pc[w] = "view" <=> readmutex = w

\* A file that has been taken belongs to one worker until that takes another;
\* it is loaded when the worker is no longer at work on it.
Taken == /\ loaded \subseteq 0..findex - 1
         /\ \A w \in Workers : mine[w] >= 0 =>
               /\ mine[w] < findex
               /\ mine[w] \in loaded <=> pc[w] # "work"
               /\ \A v \in Workers \ {w} : mine[v] # mine[w]
         /\ \A w \in Workers : pc[w] = "work" => mine[w] >= 0

\* Files reported are loaded; those that are not are on their way.
Reported == /\ \A f \in Fields : fviewflag[f] => f \in loaded
            /\ \A f \in 0..findex - 1 : fviewflag[f] \/
                  \E w \in Workers : /\ mine[w] = f
                                     /\ pc[w] \in {"work", "test", "section"}
                                     /\ stopIn[w] = 0

\* Fields are labelled from the first on, without a gap, as far as they can be;
\* no table has more instruments than fields have been labelled.
Labelled == /\ \A f \in Fields : label[f] # NoLabel => fviewflag[f]
            /\ \A f \in 0..fviewindex - 1 : label[f] # NoLabel
            /\ readmutex = NoThread /\ ~failed => ~Labelable
            /\ ~failed => Len(astro) <= fviewindex /\ Len(photo) <= fviewindex

\* Indices are reset before anything has happened; a worker waits at the stop
\* gate when there is no file left; it is at work that a worker fails.
Bounds == /\ pc[Master] = "create" => findex = 0 /\ fviewindex = 0
          /\ \A w \in Workers : pc[w] = "stop" \/ stopIn[w] > 0 => findex = NField
          /\ failed => \E w \in Workers : pc[w] \in {"view", "work"}

WorkInv == Mutex /\ Taken /\ Reported /\ Labelled /\ Bounds

IInv == TypeOK /\ PoolInv /\ WorkInv

USE MasterAssumption DEF Parties, PoolInv, StartCalls, StopCalls

---------------------------------------------------------------------------
(* The tables of instruments *)

\* The index of an instrument is that of its entry, or the next free one.
LEMMA IndexInTable ==
  ASSUME NEW table, NEW k, Len(table) \in Nat
  PROVE  /\ IndexIn(table, k) \in 0..Len(table)
         /\ IndexIn(table, k) < Len(table) => table[IndexIn(table, k) + 1] = k
         /\ IndexIn(table, k) = Len(table) => \A j \in 1..Len(table) : table[j] # k
<1> DEFINE S == {j \in 1..Len(table) : table[j] = k}
<1>1. CASE S = {}
  BY <1>1 DEF IndexIn
<1>2. CASE S # {}
  <2>1. Min(S) \in S
    BY <1>2, MinInSet
  <2>2. IndexIn(table, k) = Min(S) - 1
    BY <1>2 DEF IndexIn
  <2> QED BY <2>1, <2>2
<1> QED BY <1>1, <1>2

---------------------------------------------------------------------------
(* The work is kept by every step *)

\* A step of the life cycle leaves the work alone; a worker that leaves its
\* loop has nothing to report any more.
LEMMA LifecycleWork ==
  ASSUME IInv, NEW p \in Parties, Lifecycle(p), UNCHANGED loadVars
  PROVE  TypeOK' /\ WorkInv'
<1>1. PoolInv'
  BY EnterStartPool, LeaveStartPool, EnterStopPool, LeaveStopPool DEF Lifecycle, IInv
<1>2. TypeOK'
  BY <1>1 DEF IInv, TypeOK, loadVars, NoLabel
<1>3. /\ pc[p] \in {"start", "restart", "atStart", "atRestart", "stop", "atStop"}
      /\ \E l \in {"atStart", "atRestart", "test", "stop", "join", "atStop", "finish",
                   "restart"} :
            pc' = [pc EXCEPT ![p] = l] /\ (l = "stop" => p = Master)
      /\ p \in Workers /\ stopIn'[p] > 0 => stopIn[p] > 0 \/ pc[p] = "stop"
      /\ \A q \in Parties \ {p} : stopIn'[q] = stopIn[q]
  <2> USE DEF Goto, IInv, PoolTypeOK, StopGate!TypeOK
  <2>1. CASE EnterStart(p)
    BY <2>1 DEF EnterStart
  <2>2. CASE LeaveStart(p)
    <3>1. CASE p # Master
      BY <2>2, <3>1 DEF LeaveStart
    <3>2. CASE p = Master /\ pc[p] = "atStart"
      BY <2>2, <3>2 DEF LeaveStart
    <3>3. CASE p = Master /\ pc[p] # "atStart"
      BY <2>2, <3>3 DEF LeaveStart
    <3> QED BY <3>1, <3>2, <3>3
  <2>3. CASE EnterStop(p)
    BY <2>3 DEF EnterStop, StopGate!Arrive
  <2>4. CASE LeaveStop(p)
    BY <2>4 DEF LeaveStop, StopGate!Depart
  <2> QED BY <2>1, <2>2, <2>3, <2>4 DEF Lifecycle
<1>4. WorkInv'
  BY <1>3 DEF IInv, WorkInv, PoolTypeOK, Mutex, Taken, Reported, Labelled, Bounds, Labelable,
              loadVars, Goto
<1> QED BY <1>2, <1>4

\* A worker that leaves its loop has been through the stop gate, and so have
\* all: no file of its own is left to report.
LEMMA TestWork ==
  ASSUME IInv, NEW w \in Workers, Test(w), UNCHANGED loadVars
  PROVE  TypeOK' /\ WorkInv'
<1>1. PoolInv'
  BY TestPool DEF IInv
<1>2. TypeOK'
  BY <1>1 DEF IInv, TypeOK, loadVars, NoLabel
<1>3. endflag => stopIn[w] > 0
  BY DEF IInv, Test, PoolTypeOK, StopGate!TypeOK, StartGate!TypeOK, Places, At, Kept, Flag, Parts
<1>4. WorkInv'
  BY <1>3 DEF IInv, WorkInv, PoolTypeOK, StopGate!TypeOK, Mutex, Taken, Reported, Labelled,
              Bounds, Labelable, loadVars, gateVars, Goto, Test
<1> QED BY <1>2, <1>4

\* The steps of the master alone.
LEMMA MasterWork ==
  ASSUME IInv,
         \/ ResetIndices
         \/ (Finish \/ Join \/ \E w \in Workers : Create(w)) /\ UNCHANGED loadVars
  PROVE  TypeOK' /\ WorkInv'
<1>1. PoolInv'
  BY CreatePool, ResetPool, FinishPool, JoinPool DEF IInv, ResetIndices
<1>2. UNCHANGED <<gateVars, loadVars>>
  BY DEF ResetIndices, Reset, Finish, Join, Create, loadVars, IInv, WorkInv, Bounds
<1>3. TypeOK'
  BY <1>1, <1>2 DEF IInv, TypeOK, loadVars, NoLabel
<1>4. \E p \in Parties : /\ pc[p] \in {"create", "none", "finish", "join"}
                         /\ \E l \in {"start", "restart", "done"} : Goto(p, l)
  BY DEF ResetIndices, Reset, Finish, Join, Create
<1>5. WorkInv'
  BY <1>2, <1>4 DEF IInv, WorkInv, PoolTypeOK, StopGate!TypeOK, Mutex, Taken, Reported,
                    Labelled, Bounds, Labelable, loadVars, gateVars, Goto
<1> QED BY <1>3, <1>5

\* A worker that has the mutex has loaded the field it reports.
LEMMA ReportWork ==
  ASSUME IInv, NEW w \in Workers, Report(w)
  PROVE  IInv'
<1>1. PoolInv'
  BY TurnPool DEF IInv, Report
<1>2. TypeOK'
  BY <1>1 DEF IInv, TypeOK, Report, NoLabel
<1>3. Mutex' /\ Taken' /\ Bounds'
  BY NoThreadAssumption DEF IInv, WorkInv, Mutex, Taken, Bounds, Report, Goto, PoolTypeOK,
     gateVars
<1>4. Reported'
  <2>1. \A f \in Fields : fviewflag'[f] => f \in loaded'
    <3>1. ASSUME NEW f \in Fields, f = mine[w]
          PROVE  f \in loaded
      BY <3>1, NFieldAssumption DEF IInv, WorkInv, TypeOK, Taken, Report, Fields
    <3>2. ASSUME NEW f \in Fields, fviewflag[f]
          PROVE  f \in loaded
      BY <3>2 DEF IInv, WorkInv, Reported
    <3> QED BY <3>1, <3>2 DEF Report
  <2>. 0..findex - 1 \subseteq Fields
    BY NFieldAssumption DEF IInv, TypeOK, Fields
  <2>2. ASSUME NEW f \in 0..findex - 1, f # mine[w]
        PROVE  fviewflag'[f] \/ \E v \in Workers : /\ mine'[v] = f
                                                   /\ pc'[v] \in {"work", "test", "section"}
                                                   /\ stopIn'[v] = 0
    <3>1. CASE fviewflag[f]
      BY <3>1, <2>2 DEF Report
    <3>2. CASE ~fviewflag[f]
      <4>1. PICK v \in Workers : /\ mine[v] = f
                                 /\ pc[v] \in {"work", "test", "section"} /\ stopIn[v] = 0
        BY <3>2 DEF IInv, WorkInv, Reported
      <4>2. pc'[v] = pc[v] /\ mine' = mine /\ stopIn' = stopIn
        BY <4>1, <2>2 DEF IInv, PoolTypeOK, Report, Goto, gateVars
      <4> QED BY <4>1, <4>2
    <3> QED BY <3>1, <3>2
  <2>3. \A f \in 0..findex - 1 : f = mine[w] => fviewflag'[f]
    BY DEF Report
  <2> QED BY <2>1, <2>2, <2>3 DEF Reported, Report
<1>5. Labelled'
  BY NoThreadAssumption DEF IInv, WorkInv, TypeOK, Labelled, Report, Labelable, Fields
<1> QED BY <1>1, <1>2, <1>3, <1>4, <1>5 DEF IInv, WorkInv

\* A worker at the mutex has not been to the stop gate, and the master has
\* started it.
LEMMA AtWork ==
  ASSUME IInv, NEW w \in Workers, pc[w] \in {"section", "view", "work"}
  PROVE  stopIn[w] = 0 /\ pc[Master] # "create"
BY DEF IInv, Places, At, Kept, PoolTypeOK, StartGate!TypeOK, StopGate!TypeOK

\* The file taken is nobody else's and has not been loaded.
LEMMA TakeWork ==
  ASSUME IInv, NEW w \in Workers, Take(w)
  PROVE  IInv'
<1>1. PoolInv'
  BY TurnPool DEF IInv, Take
<1>2. TypeOK'
  BY <1>1, NFieldAssumption DEF IInv, TypeOK, Take, NoLabel
<1>3. Mutex'
  BY NoThreadAssumption DEF IInv, WorkInv, Mutex, Take, Goto, PoolTypeOK
<1>4. Taken'
  <2>1. /\ findex \in Nat /\ findex' = findex + 1 /\ loaded' = loaded
        /\ pc'[w] = "work" /\ \A v \in Workers \ {w} : pc'[v] = pc[v]
        /\ mine'[w] = findex /\ \A v \in Workers \ {w} : mine'[v] = mine[v]
    BY DEF IInv, TypeOK, PoolTypeOK, Take, Goto
  <2>2. \A v \in Workers : mine[v] \in Int
    BY NFieldAssumption DEF IInv, TypeOK
  <2>3. Taken
    BY DEF IInv, WorkInv
  <2>4. loaded' \subseteq 0..findex' - 1 /\ findex \notin loaded
    BY <2>1, <2>3 DEF Taken
  <2>5. \A v \in Workers \ {w} : mine[v] >= 0 => mine[v] < findex
    BY <2>3 DEF Taken
  <2> QED BY <2>1, <2>2, <2>3, <2>4, <2>5 DEF Taken
<1>5. Bounds'
  BY AtWork DEF IInv, WorkInv, TypeOK, Bounds, Take, Goto, PoolTypeOK, gateVars
<1>6. Reported'
  BY AtWork DEF IInv, WorkInv, TypeOK, PoolTypeOK, Reported, Take, Goto, gateVars
<1>7. Labelled'
  BY DEF IInv, WorkInv, Labelled, Take, Labelable
<1> QED BY <1>1, <1>2, <1>3, <1>4, <1>5, <1>6, <1>7 DEF IInv, WorkInv

\* A worker goes to the stop gate when every file has been taken.
LEMMA IdleWork ==
  ASSUME IInv, ~failed, NEW w \in Workers, Idle(w)
  PROVE  IInv'
<1>1. PoolInv'
  BY TurnPool DEF IInv, Idle
<1>2. TypeOK'
  BY <1>1 DEF IInv, TypeOK, Idle, NoLabel
<1>3. Mutex'
  BY NoThreadAssumption DEF IInv, WorkInv, Mutex, Idle, Goto, PoolTypeOK
<1>4. Taken' /\ Labelled'
  BY DEF IInv, WorkInv, Taken, Labelled, Labelable, Idle, Goto, PoolTypeOK
<1>5. Reported'
  BY DEF IInv, WorkInv, Reported, Idle, Goto, PoolTypeOK, gateVars
<1>6. findex = NField
  BY NFieldAssumption DEF IInv, TypeOK, Idle
<1>7. Bounds'
  BY <1>6, AtWork DEF IInv, WorkInv, Bounds, Idle, Goto, PoolTypeOK, gateVars
<1> QED BY <1>1, <1>2, <1>3, <1>4, <1>5, <1>7 DEF IInv, WorkInv

\* A file that has been loaded is still its worker's to report.
LEMMA LoadWork ==
  ASSUME IInv, ~failed, NEW w \in Workers, Load(w)
  PROVE  IInv'
<1>1. PoolInv'
  BY TurnPool DEF IInv, Load
<1>2. mine[w] \in Fields
  BY NFieldAssumption DEF IInv, WorkInv, TypeOK, Taken, Load, Fields
<1>3. TypeOK'
  BY <1>1, <1>2 DEF IInv, TypeOK, Load, NoLabel
<1>4. Mutex' /\ Labelled'
  BY DEF IInv, WorkInv, Mutex, Labelled, Labelable, Load, Goto, PoolTypeOK
<1>5. Bounds'
  <2>1. stopIn[w] = 0 /\ pc[Master] # "create"
    BY AtWork DEF Load
  <2> QED BY <2>1 DEF IInv, WorkInv, Bounds, Load, Goto, PoolTypeOK, gateVars
<1>6. Taken'
  <2>1. mine[w] >= 0 /\ mine[w] < findex /\ mine[w] \notin loaded
    BY DEF IInv, WorkInv, Taken, Load
  <2>2. loaded' \subseteq 0..findex' - 1
    <3>1. loaded' = loaded \cup {mine[w]} /\ findex' = findex
      BY DEF Load
    <3>2. mine[w] \in 0..findex - 1
      BY <1>2, <2>1, NFieldAssumption DEF IInv, TypeOK, Fields
    <3> QED BY <3>1, <3>2 DEF IInv, WorkInv, Taken
  <2>3. ASSUME NEW v \in Workers, mine'[v] >= 0
        PROVE  /\ mine'[v] < findex'
               /\ mine'[v] \in loaded' <=> pc'[v] # "work"
               /\ \A u \in Workers \ {v} : mine'[u] # mine'[v]
    <3>1. CASE v = w
      BY <3>1, <2>1 DEF IInv, WorkInv, Taken, Load, Goto, PoolTypeOK
    <3>2. CASE v # w
      BY <3>2, <2>1, <2>3 DEF IInv, WorkInv, Taken, Load, Goto, PoolTypeOK
    <3> QED BY <3>1, <3>2
  <2>4. \A v \in Workers : pc'[v] = "work" => mine'[v] >= 0
    BY DEF IInv, WorkInv, Taken, Load, Goto, PoolTypeOK
  <2> QED BY <2>2, <2>3, <2>4 DEF Taken
<1>7. Reported'
  BY DEF IInv, WorkInv, Reported, Load, Goto, PoolTypeOK, gateVars
<1> QED BY <1>1, <1>3, <1>4, <1>5, <1>6, <1>7 DEF IInv, WorkInv

\* The process ends while a worker is at work.
LEMMA LoadFailsWork ==
  ASSUME IInv, NEW w \in Workers, LoadFails(w)
  PROVE  IInv'
BY DEF IInv, WorkInv, TypeOK, PoolTypeOK, StartGate!TypeOK, StopGate!TypeOK, Places, At, Parts,
       Kept, Flag, Mutex, Taken, Reported, Labelled, Labelable, Bounds, LoadFails, poolVars, NoLabel

\* Entering an instrument in a table gives a label that is an index of a table.
LEMMA StoredInTable ==
  ASSUME NEW K, NEW table \in Seq(K), NEW k \in K
  PROVE  /\ IndexIn(table, k) \in 0..Len(table)
         /\ Stored(table, k) \in Seq(K)
         /\ Len(Stored(table, k)) <= Len(table) + 1
<1>1. Len(table) \in Nat
  OBVIOUS
<1>2. IndexIn(table, k) \in 0..Len(table)
  BY <1>1, IndexInTable
<1>3. Append(table, k) \in Seq(K) /\ Len(Append(table, k)) = Len(table) + 1
  OBVIOUS
<1> QED BY <1>1, <1>2, <1>3 DEF Stored

\* The field labelled has been loaded, the labels go on without a gap.
LEMMA ViewWork ==
  ASSUME IInv, ~failed, NEW w \in Workers, View(w)
  PROVE  IInv'
<1> DEFINE f == fviewindex
           ia == IndexIn(astro, key[f][1])
           ip == IndexIn(photo, key[f][2])
           sa == Stored(astro, key[f][1])
           sp == Stored(photo, key[f][2])
<1>1. f \in Fields /\ fviewflag[f]
  BY NFieldAssumption DEF View, Labelable, IInv, TypeOK, Fields
<1>2. key[f][1] \in AstroKeys /\ key[f][2] \in PhotoKeys
  BY <1>1 DEF IInv, TypeOK
<1>3. /\ astro \in Seq(AstroKeys) /\ photo \in Seq(PhotoKeys)
      /\ Len(astro) \in Nat /\ Len(photo) \in Nat
      /\ Len(astro) <= f /\ Len(photo) <= f
  BY DEF IInv, TypeOK, WorkInv, Labelled
<1>4. /\ ia \in 0..Len(astro) /\ sa \in Seq(AstroKeys) /\ Len(sa) <= Len(astro) + 1
      /\ ip \in 0..Len(photo) /\ sp \in Seq(PhotoKeys) /\ Len(sp) <= Len(photo) + 1
  BY <1>2, <1>3, StoredInTable
<1>5. /\ f \in Nat /\ f < NField
      /\ ia \in 0..f /\ ip \in 0..f /\ Len(sa) <= f + 1 /\ Len(sp) <= f + 1
      /\ Len(sa) \in Nat /\ Len(sp) \in Nat
  <2>1. f \in Nat /\ f < NField
    BY <1>1, NFieldAssumption DEF Fields
  <2>2. Len(sa) \in Nat /\ Len(sp) \in Nat
    BY <1>4
  <2> HIDE DEF f, ia, ip, sa, sp
  <2> QED BY <1>3, <1>4, <2>1, <2>2
<1> HIDE DEF f, ia, ip, sa, sp
<1>6. /\ astro' = sa
      /\ \/ /\ failed' /\ photo' = photo /\ fviewindex' = f
            /\ label' = [label EXCEPT ![f].astrom = ia]
         \/ /\ photo' = sp
            /\ failed' \in BOOLEAN
            /\ fviewindex' = IF failed' THEN f ELSE f + 1
            /\ label' = [label EXCEPT ![f] = [astrom |-> ia, photom |-> ip]]
      /\ UNCHANGED <<poolVars, key, readmutex, findex, fviewflag, mine, loaded>>
  <2>1. CASE Len(sa) > MaxInstru
    BY <2>1 DEF View, Label, f, ia, sa
  <2>2. CASE ~(Len(sa) > MaxInstru)
    <3>1. failed' = (Len(photo') > MaxInstru)
      BY <2>2 DEF View, Label, f, sa
    <3>2. failed' \in BOOLEAN
      BY <3>1
    <3> QED BY <2>2, <3>2 DEF View, Label, f, ia, ip, sa, sp
  <2> QED BY <2>1, <2>2
<1>7. ia \in -1..NField /\ ip \in -1..NField
  BY <1>5, NFieldAssumption
<1>8. label' \in [Fields -> Labels]
  <2>1. [label[f] EXCEPT !.astrom = ia] \in Labels /\ [astrom |-> ia, photom |-> ip] \in Labels
    <3>1. label[f] \in Labels
      BY <1>1 DEF IInv, TypeOK
    <3> QED BY <3>1, <1>7 DEF Labels
  <2>2. \/ label' = [label EXCEPT ![f] = [label[f] EXCEPT !.astrom = ia]]
        \/ label' = [label EXCEPT ![f] = [astrom |-> ia, photom |-> ip]]
    BY <1>6
  <2> QED BY <1>1, <2>1, <2>2 DEF IInv, TypeOK
<1>9. \A g \in Fields : label'[g] # NoLabel <=> label[g] # NoLabel \/ g = f
  <2>1. label[f] \in Labels
    BY <1>1 DEF IInv, TypeOK
  <2>2. \A g \in Fields \ {f} : label'[g] = label[g]
    BY <1>1, <1>6 DEF IInv, TypeOK
  <2>3. \/ label'[f] = [label[f] EXCEPT !.astrom = ia]
        \/ label'[f] = [astrom |-> ia, photom |-> ip]
    BY <1>1, <1>6 DEF IInv, TypeOK
  <2>4. label'[f].astrom = ia
    BY <2>1, <2>3 DEF Labels
  <2>5. label'[f] # NoLabel
    BY <2>4, <1>5 DEF NoLabel
  <2> QED BY <2>2, <2>5
<1>10. PoolInv'
  BY <1>6 DEF IInv, poolVars, PoolTypeOK, StartGate!TypeOK, StopGate!TypeOK, Places, At, Parts,
              Kept, Flag
<1>11. TypeOK'
  <2>1. Len(astro') <= NField /\ Len(photo') <= NField
    BY <1>3, <1>5, <1>6, NFieldAssumption
  <2>2. fviewindex' \in 0..NField
    BY <1>5, <1>6, NFieldAssumption
  <2>3. astro' \in Seq(AstroKeys) /\ photo' \in Seq(PhotoKeys) /\ failed' \in BOOLEAN
    BY <1>3, <1>4, <1>6 DEF View, Label
  <2> QED BY <1>6, <1>8, <1>10, <2>1, <2>2, <2>3 DEF IInv, TypeOK
<1>12. Mutex' /\ Taken' /\ Reported'
  BY <1>6 DEF IInv, WorkInv, Mutex, Taken, Reported, poolVars
<1>13. Bounds'
  <2>1. stopIn[w] = 0 /\ pc[Master] # "create"
    BY AtWork DEF View
  <2> QED BY <1>6, <2>1 DEF IInv, WorkInv, Bounds, poolVars, View
<1>14. Labelled'
  <2>1. readmutex' # NoThread
    BY <1>6, NoThreadAssumption DEF View, IInv, WorkInv, Mutex
  <2>2. \A g \in Fields : label'[g] # NoLabel => fviewflag'[g]
    BY <1>1, <1>6, <1>9 DEF IInv, WorkInv, Labelled
  <2>3. \A g \in 0..fviewindex' - 1 : label'[g] # NoLabel
    BY <1>5, <1>6, <1>9, NFieldAssumption DEF IInv, WorkInv, Labelled, Fields, f
  <2>4. ~failed' => Len(astro') <= fviewindex' /\ Len(photo') <= fviewindex'
    BY <1>5, <1>6
  <2> QED BY <2>1, <2>2, <2>3, <2>4 DEF Labelled
<1> QED BY <1>10, <1>11, <1>12, <1>13, <1>14 DEF IInv, WorkInv

\* The strengthened invariant holds in every reachable state.
LEMMA Inductive == Spec => []IInv
<1>1. Init => IInv
  <2> SUFFICES ASSUME Init PROVE IInv
    OBVIOUS
  <2>1. PoolInv
    <3>1. PoolInit
      BY DEF Init
    <3>2. /\ pc[Master] = "create"
          /\ \A w \in Workers : pc[w] = "none"
      BY <3>1, MasterAssumption DEF PoolInit, NoThreadYet, Parties
    <3>3. PoolTypeOK
      <4>1. pc \in [Parties -> Locations]
        BY <3>1 DEF PoolInit, NoThreadYet, Locations
      <4>2. StartGate!TypeOK /\ StopGate!TypeOK
        BY <3>1 DEF PoolInit, StartGate!Init, StopGate!Init, StartGate!TypeOK,
                    StopGate!TypeOK, StartCalls, StopCalls
      <4>3. endflag \in BOOLEAN
        <5>1. endflag = FALSE
          BY <3>1 DEF PoolInit
        <5> QED BY <5>1
      <4> QED BY <4>1, <4>2, <4>3 DEF PoolTypeOK
    <3>4. Places /\ Kept
      BY <3>1 DEF PoolInit, NoThreadYet, StartGate!Init, StopGate!Init, Places, At, Kept
    <3>5. Parts /\ Flag
      BY <3>2 DEF Parts, Flag
    <3> QED BY <3>3, <3>4, <3>5 DEF PoolInv
  <2>2. NoLabel \in Labels
    BY NFieldAssumption DEF NoLabel, Labels
  <2>3. TypeOK
    <3>1. Len(<<>>) <= NField /\ <<>> \in Seq(AstroKeys) /\ <<>> \in Seq(PhotoKeys)
      BY NFieldAssumption
    <3>2. label \in [Fields -> Labels] /\ fviewflag \in [Fields -> BOOLEAN]
      BY <2>2 DEF Init
    <3>3. mine \in [Workers -> -1..NField - 1] /\ findex \in 0..NField /\ fviewindex \in 0..NField
      BY NFieldAssumption DEF Init
    <3> QED BY <2>1, <3>1, <3>2, <3>3 DEF Init, TypeOK, PoolInv
  <2>4. pc[Master] = "create" /\ \A w \in Workers : pc[w] = "none" /\ stopIn[w] = 0
    BY DEF Init, PoolInit, NoThreadYet, StopGate!Init
  <2>5. Mutex /\ Taken /\ Reported /\ Bounds
    BY <2>4, NoThreadAssumption DEF Init, Mutex, Taken, Reported, Bounds
  <2>6. Labelled
    BY NFieldAssumption DEF Init, Labelled, Labelable, Fields
  <2>7. WorkInv
    BY <2>5, <2>6 DEF WorkInv
  <2> QED BY <2>1, <2>3, <2>7 DEF IInv
<1>2. IInv /\ [Next]_vars => IInv'
  <2> SUFFICES ASSUME IInv, [Next]_vars PROVE IInv'
    OBVIOUS
  <2>1. CASE UNCHANGED vars
    BY <2>1 DEF vars, poolVars, loadVars, IInv, WorkInv, TypeOK, PoolTypeOK, StartGate!TypeOK,
       StopGate!TypeOK, Places, At, Parts, Kept, Flag, Mutex, Taken, Reported, Labelled,
       Labelable, Bounds, NoLabel
  <2>2. CASE ~failed /\ MasterStep
    <3>1. CASE Lifecycle(Master) /\ UNCHANGED loadVars
      BY <3>1, LifecycleWork, EnterStartPool, LeaveStartPool, EnterStopPool, LeaveStopPool
         DEF Lifecycle, IInv
    <3>2. CASE \/ ResetIndices
               \/ (Finish \/ Join \/ \E w \in Workers : Create(w)) /\ UNCHANGED loadVars
      BY <3>2, MasterWork, CreatePool, ResetPool, FinishPool, JoinPool DEF IInv, ResetIndices
    <3> QED BY <2>2, <3>1, <3>2 DEF MasterStep
  <2>3. ASSUME ~failed, NEW w \in Workers, Worker(w) \/ LoadFails(w)
        PROVE  IInv'
    <3>1. CASE Report(w) \/ View(w) \/ Take(w) \/ Idle(w) \/ Load(w) \/ LoadFails(w)
      BY <2>3, <3>1, ReportWork, ViewWork, TakeWork, IdleWork, LoadWork, LoadFailsWork
    <3>2. CASE Lifecycle(w) /\ UNCHANGED loadVars
      BY <3>2, LifecycleWork, EnterStartPool, LeaveStartPool, EnterStopPool, LeaveStopPool
         DEF Lifecycle, IInv
    <3>3. CASE Test(w) /\ UNCHANGED loadVars
      BY <3>3, TestWork, TestPool DEF IInv
    <3> QED BY <2>3, <3>1, <3>2, <3>3 DEF Worker
  <2> QED BY <2>1, <2>2, <2>3 DEF Next
<1> QED BY <1>1, <1>2, PTL DEF Spec

---------------------------------------------------------------------------
(* What follows from it *)

\* Indices stay within the list of files and labels within the tables.
THEOREM TypesRight == Spec => []TypeOK
<1>1. IInv => TypeOK
  BY DEF IInv
<1> QED BY <1>1, Inductive, PTL

\* The master never writes the end flag while a worker may read it: a worker
\* in its loop has made as many calls of the gates as the master has seen.
THEOREM FlagRaceFree == Spec => []EndflagRaceFree
<1>1. IInv => EndflagRaceFree
  BY DEF IInv, EndflagRaceFree, Places, At, Kept, PoolTypeOK, StartGate!TypeOK, StopGate!TypeOK
<1> QED BY <1>1, Inductive, PTL

\* No file is loaded twice, whatever the number of workers.
THEOREM EachLoadedOnce == Spec => []LoadedOnce
<1>1. IInv => LoadedOnce
  BY DEF IInv, WorkInv, Taken, LoadedOnce
<1> QED BY <1>1, Inductive, PTL

\* No field is labelled before load_field has returned its pointer.
THEOREM LabelledLoaded == Spec => []LabelsLoaded
<1>1. IInv => LabelsLoaded
  BY DEF IInv, WorkInv, Reported, Labelled, LabelsLoaded
<1> QED BY <1>1, Inductive, PTL

\* When the master is through the stop gate every worker has called it, so
\* every file has been taken; none is still on its way, hence all have been
\* reported, and the last to leave the mutex has labelled the rest.
THEOREM StopMeansComplete == Spec => []CompleteAtStop
<1>1. ASSUME IInv, MasterPastStop
      PROVE  /\ loaded = Fields
             /\ \A f \in Fields : label[f] # NoLabel
             /\ \A w \in Workers : pc[w] \notin {"section", "view", "work"}
  <2>1. \A w \in Workers : stopIn[w] > 0
    BY <1>1 DEF IInv, MasterPastStop, Places, At, Kept, PoolTypeOK, StopGate!TypeOK
  <2>2. \A w \in Workers : pc[w] \notin {"section", "view", "work"}
    BY <1>1, <2>1, AtWork
  <2>3. findex = NField
    BY <1>1, <2>1, WorkersAssumption DEF IInv, WorkInv, Bounds
  <2>4. \A f \in Fields : fviewflag[f]
    BY <1>1, <2>1, <2>3 DEF IInv, WorkInv, Reported, Fields
  <2>5. loaded = Fields
    BY <1>1, <2>4 DEF IInv, TypeOK, WorkInv, Reported
  <2>6. readmutex = NoThread /\ ~failed
    BY <1>1, <2>2 DEF IInv, TypeOK, WorkInv, Mutex, Bounds
  <2>7. fviewindex = NField
    BY <1>1, <2>4, <2>6, NFieldAssumption
       DEF IInv, TypeOK, WorkInv, Labelled, Labelable, Fields
  <2>8. \A f \in Fields : label[f] # NoLabel
    BY <1>1, <2>7 DEF IInv, WorkInv, Labelled, Fields
  <2> QED BY <2>2, <2>5, <2>8
<1>2. IInv => CompleteAtStop
  BY <1>1 DEF CompleteAtStop
<1> QED BY <1>2, Inductive, PTL

---------------------------------------------------------------------------
(* The order of the labels *)

\* The first file with instrument k, ks being the keys of the files.
First(ks, k) == Min({f \in Fields : ks[f] = k})

\* A table holds the instruments of the first m files in the order in which
\* they appear there, each once.
Follows(ks, table, m) ==
    /\ \A j \in 1..Len(table) : \E f \in 0..m - 1 : ks[f] = table[j]
    /\ \A f \in 0..m - 1 : \E j \in 1..Len(table) : ks[f] = table[j]
    /\ \A i, j \in 1..Len(table) : i < j => First(ks, table[i]) < First(ks, table[j])

\* First is what its name says.
LEMMA FirstIsFirst ==
  ASSUME NEW ks, NEW f \in Fields
  PROVE  /\ First(ks, ks[f]) \in Fields
         /\ ks[First(ks, ks[f])] = ks[f]
         /\ First(ks, ks[f]) <= f
<1> DEFINE S == {g \in Fields : ks[g] = ks[f]}
<1>1. S \subseteq Nat /\ S # {}
  BY NFieldAssumption DEF Fields
<1>2. Min(S) \in S /\ \A g \in S : Min(S) <= g
  BY <1>1, MinInSet
<1> QED BY <1>2 DEF First

\* One more file is the last, or was there before.
LEMMA LastOrBefore ==
  ASSUME NEW m \in Nat
  PROVE  \A f \in 0..m : f = m \/ f \in 0..m - 1
OBVIOUS

\* Entering the instrument of the next file keeps a table so.
LEMMA StoredFollows ==
  ASSUME NEW K, NEW ks \in [Fields -> K], NEW table \in Seq(K),
         NEW m \in Fields, Follows(ks, table, m)
  PROVE  Follows(ks, Stored(table, ks[m]), m + 1)
<1> DEFINE k == ks[m]
<1>1. /\ Len(table) \in Nat /\ m \in Nat /\ m < NField
      /\ 0..m - 1 \subseteq Fields /\ 0..m \subseteq Fields
  BY NFieldAssumption DEF Fields
<1>2. CASE IndexIn(table, k) < Len(table)
  <2>1. Stored(table, k) = table
    BY <1>2 DEF Stored
  <2>2. \E j \in 1..Len(table) : table[j] = k
    BY <1>1, <1>2 DEF IndexIn
  <2>3. \A j \in 1..Len(table) : \E f \in 0..m : ks[f] = table[j]
    BY <1>1 DEF Follows
  <2>4. \A f \in 0..m : \E j \in 1..Len(table) : ks[f] = table[j]
    BY <1>1, <2>2, LastOrBefore DEF Follows
  <2> QED BY <1>1, <2>1, <2>3, <2>4 DEF Follows
<1>3. CASE ~(IndexIn(table, k) < Len(table))
  <2> DEFINE t == Append(table, k)
  <2>1. Stored(table, k) = t
    BY <1>3 DEF Stored
  <2>2. \A j \in 1..Len(table) : table[j] # k
    BY <1>1, <1>3, IndexInTable
  <2>3. /\ Len(t) = Len(table) + 1 /\ t[Len(table) + 1] = k
        /\ \A j \in 1..Len(table) : t[j] = table[j]
    BY <1>1
  <2> HIDE DEF t
  <2>4. First(ks, k) = m
    <3>1. First(ks, k) \in Fields /\ ks[First(ks, k)] = k /\ First(ks, k) <= m
      BY FirstIsFirst
    <3>2. ~(First(ks, k) \in 0..m - 1)
      BY <2>2, <3>1 DEF Follows
    <3> QED BY <1>1, <3>1, <3>2 DEF Fields
  <2>5. ASSUME NEW j \in 1..Len(table) PROVE First(ks, table[j]) < m
    <3>1. PICK f \in 0..m - 1 : ks[f] = table[j]
      BY DEF Follows
    <3>2. First(ks, ks[f]) <= f /\ First(ks, ks[f]) \in Fields /\ f \in Fields
      BY <1>1, FirstIsFirst
    <3> QED BY <1>1, <3>1, <3>2 DEF Fields
  <2>6. \A j \in 1..Len(t) : \E f \in 0..m : ks[f] = t[j]
    <3>1. ASSUME NEW j \in 1..Len(t) PROVE \E f \in 0..m : ks[f] = t[j]
      <4>1. CASE j \in 1..Len(table)
        BY <1>1, <2>3, <4>1 DEF Follows
      <4>2. CASE j = Len(table) + 1
        BY <1>1, <2>3, <4>2
      <4> QED BY <1>1, <2>3, <4>1, <4>2
    <3> QED BY <3>1
  <2>7. \A f \in 0..m : \E j \in 1..Len(t) : ks[f] = t[j]
    <3>1. \E j \in 1..Len(t) : ks[m] = t[j]
      BY <1>1, <2>3
    <3>2. \A f \in 0..m - 1 : \E j \in 1..Len(t) : ks[f] = t[j]
      BY <1>1, <2>3 DEF Follows
    <3> QED BY <1>1, <3>1, <3>2, LastOrBefore
  <2>8. \A i, j \in 1..Len(t) : i < j => First(ks, t[i]) < First(ks, t[j])
    <3>1. ASSUME NEW i \in 1..Len(t), NEW j \in 1..Len(t), i < j
          PROVE  First(ks, t[i]) < First(ks, t[j])
      <4>1. i \in 1..Len(table)
        BY <1>1, <2>3, <3>1
      <4>2. CASE j \in 1..Len(table)
        BY <2>3, <3>1, <4>1, <4>2 DEF Follows
      <4>3. CASE j = Len(table) + 1
        BY <2>3, <2>4, <2>5, <4>1, <4>3
      <4> QED BY <1>1, <2>3, <4>2, <4>3
    <3> QED BY <3>1
  <2> QED BY <1>1, <2>1, <2>6, <2>7, <2>8 DEF Follows
<1> QED BY <1>2, <1>3

\* The place of an instrument in such a table is its rank among all files.
LEMMA PlaceIsRank ==
  ASSUME NEW K, NEW ks \in [Fields -> K], NEW table \in Seq(K), NEW m \in 0..NField,
         Follows(ks, table, m), NEW i \in 1..Len(table)
  PROVE  Cardinality({x \in {ks[f] : f \in Fields} : First(ks, x) < First(ks, table[i])})
            = i - 1
<1> DEFINE S == {x \in {ks[f] : f \in Fields} : First(ks, x) < First(ks, table[i])}
           place == [j \in 1..i - 1 |-> table[j]]
<1>1. /\ Len(table) \in Nat /\ i \in Nat /\ i - 1 \in Nat
      /\ 1..i - 1 \subseteq 1..Len(table)
      /\ 0..m - 1 \subseteq Fields /\ m \in Nat /\ Fields \subseteq Nat
  BY NFieldAssumption DEF Fields
<1>2. ASSUME NEW j \in 1..i - 1 PROVE place[j] \in S
  <2>1. \E f \in Fields : ks[f] = table[j]
    BY <1>1 DEF Follows
  <2>2. First(ks, table[j]) < First(ks, table[i])
    BY <1>1 DEF Follows
  <2> QED BY <2>1, <2>2
<1>3. ASSUME NEW x \in S PROVE \E j \in 1..i - 1 : place[j] = x
  <2>1. PICK f0 \in 0..m - 1 : ks[f0] = table[i]
    BY DEF Follows
  <2>2. /\ First(ks, table[i]) <= f0 /\ First(ks, table[i]) \in Fields
    BY <1>1, <2>1, FirstIsFirst
  <2>3. PICK f \in Fields : ks[f] = x
    OBVIOUS
  <2>4. First(ks, x) \in Fields /\ ks[First(ks, x)] = x
    BY <2>3, FirstIsFirst
  <2>5. First(ks, x) \in 0..m - 1
    BY <1>1, <2>2, <2>4 DEF Fields
  <2>6. PICK j \in 1..Len(table) : table[j] = x
    BY <2>4, <2>5 DEF Follows
  <2>7. First(ks, table[j]) < First(ks, table[i])
    BY <2>6
  <2>8. j < i
    <3>1. ~(j = i)
      BY <1>1, <2>2, <2>4, <2>6, <2>7
    <3>2. First(ks, table[i]) \in Nat /\ First(ks, table[j]) \in Nat
      BY <1>1, <2>2, <2>4, <2>6
    <3>3. i < j => First(ks, table[i]) < First(ks, table[j])
      BY DEF Follows
    <3>4. ~(i < j)
      BY <2>7, <3>2, <3>3
    <3> QED BY <1>1, <3>1, <3>4
  <2>9. j \in 1..i - 1
    BY <1>1, <2>8
  <2> QED BY <2>6, <2>9
<1>4. ASSUME NEW j \in 1..i - 1, NEW l \in 1..i - 1, place[j] = place[l]
      PROVE  j = l
  <2>1. ASSUME NEW a \in 1..Len(table), NEW b \in 1..Len(table), a < b, table[a] = table[b]
        PROVE  FALSE
    <3>1. First(ks, table[a]) < First(ks, table[a])
      BY <2>1 DEF Follows
    <3>2. PICK f \in Fields : ks[f] = table[a]
      BY <1>1 DEF Follows
    <3>3. First(ks, table[a]) \in Nat
      BY <1>1, <3>2, FirstIsFirst
    <3> QED BY <3>1, <3>3
  <2> QED BY <1>1, <1>4, <2>1
<1>5. place \in Bijection(1..i - 1, S)
  <2>1. place \in [1..i - 1 -> S]
    BY <1>2
  <2> QED BY <1>3, <1>4, <2>1 DEF Bijection, Injection, Surjection, IsInjective
<1>6. ExistsBijection(1..i - 1, S)
  BY <1>5 DEF ExistsBijection
<1> QED BY <1>1, <1>6, FS_CountingElements

Keys(n) == [f \in Fields |-> key[f][n]]

\* A label is the place of the field's instrument in its table, and the tables
\* follow the input files.
Ordered == ~failed =>
    /\ Follows(Keys(1), astro, fviewindex) /\ Follows(Keys(2), photo, fviewindex)
    /\ \A f \in Fields : label[f] # NoLabel =>
          /\ label[f].astrom \in 0..Len(astro) - 1 /\ astro[label[f].astrom + 1] = key[f][1]
          /\ label[f].photom \in 0..Len(photo) - 1 /\ photo[label[f].photom + 1] = key[f][2]

\* An instrument is found in the table where Stored has put it.
LEMMA StoredThere ==
  ASSUME NEW K, NEW table \in Seq(K), NEW k \in K
  PROVE  /\ IndexIn(table, k) \in 0..Len(Stored(table, k)) - 1
         /\ Stored(table, k)[IndexIn(table, k) + 1] = k
         /\ Len(table) <= Len(Stored(table, k))
         /\ \A j \in 1..Len(table) : Stored(table, k)[j] = table[j]
<1>1. Len(table) \in Nat
  OBVIOUS
<1>2. /\ IndexIn(table, k) \in 0..Len(table)
      /\ IndexIn(table, k) < Len(table) => table[IndexIn(table, k) + 1] = k
  BY <1>1, IndexInTable
<1>3. CASE IndexIn(table, k) < Len(table)
  BY <1>1, <1>2, <1>3 DEF Stored
<1>4. CASE ~(IndexIn(table, k) < Len(table))
  <2>1. IndexIn(table, k) = Len(table) /\ Stored(table, k) = Append(table, k)
    BY <1>1, <1>2, <1>4 DEF Stored
  <2> QED BY <1>1, <2>1
<1> QED BY <1>3, <1>4

\* The place of an index in a sequence.
LEMMA Following == ASSUME NEW n \in Nat, NEW i \in 0..n - 1 PROVE i + 1 \in 1..n
  OBVIOUS

\* Labelling a field keeps it so.
LEMMA ViewOrdered ==
  ASSUME IInv, Ordered, ~failed, NEW w \in Workers, View(w), ~failed'
  PROVE  Ordered'
<1> DEFINE m == fviewindex
           ka == key[m][1]
           kp == key[m][2]
<1>1. m \in Fields
  BY NFieldAssumption DEF View, Labelable, IInv, TypeOK, Fields
<1>2. /\ ka \in AstroKeys /\ kp \in PhotoKeys
      /\ Keys(1) \in [Fields -> AstroKeys] /\ Keys(2) \in [Fields -> PhotoKeys]
      /\ Keys(1)[m] = ka /\ Keys(2)[m] = kp
      /\ astro \in Seq(AstroKeys) /\ photo \in Seq(PhotoKeys)
      /\ Len(astro) \in Nat /\ Len(photo) \in Nat
  BY <1>1 DEF IInv, TypeOK, Keys
<1>3. /\ astro' = Stored(astro, ka) /\ photo' = Stored(photo, kp) /\ m' = m + 1
      /\ label' = [label EXCEPT ![m] = [astrom |-> IndexIn(astro, ka),
                                        photom |-> IndexIn(photo, kp)]]
      /\ key' = key
  BY DEF View, Label
<1>4. Keys(1)' = Keys(1) /\ Keys(2)' = Keys(2)
  BY <1>3 DEF Keys
<1>5. Follows(Keys(1), astro, m) /\ Follows(Keys(2), photo, m)
  BY DEF Ordered
<1>6. Follows(Keys(1), Stored(astro, Keys(1)[m]), m + 1)
  BY <1>1, <1>2, <1>5, StoredFollows
<1>7. Follows(Keys(2), Stored(photo, Keys(2)[m]), m + 1)
  BY <1>1, <1>2, <1>5, StoredFollows
<1>8. Follows(Keys(1), astro, m)' /\ Follows(Keys(2), photo, m)'
  BY <1>2, <1>3, <1>4, <1>6, <1>7
<1>9. /\ IndexIn(astro, ka) \in 0..Len(astro') - 1 /\ astro'[IndexIn(astro, ka) + 1] = ka
      /\ Len(astro) <= Len(astro') /\ Len(astro') \in Nat
      /\ \A j \in 1..Len(astro) : astro'[j] = astro[j]
  <2> HIDE DEF m, ka, kp
  <2>. astro \in Seq(AstroKeys) /\ ka \in AstroKeys
    BY <1>2
  <2>1. Stored(astro, ka) \in Seq(AstroKeys)
    BY StoredInTable
  <2>2. Len(Stored(astro, ka)) \in Nat
    BY <2>1
  <2>3. /\ IndexIn(astro, ka) \in 0..Len(Stored(astro, ka)) - 1
        /\ Stored(astro, ka)[IndexIn(astro, ka) + 1] = ka
        /\ Len(astro) <= Len(Stored(astro, ka))
        /\ \A j \in 1..Len(astro) : Stored(astro, ka)[j] = astro[j]
    BY StoredThere
  <2> QED BY <1>3, <2>2, <2>3
<1>10. /\ IndexIn(photo, kp) \in 0..Len(photo') - 1 /\ photo'[IndexIn(photo, kp) + 1] = kp
       /\ Len(photo) <= Len(photo') /\ Len(photo') \in Nat
       /\ \A j \in 1..Len(photo) : photo'[j] = photo[j]
  <2> HIDE DEF m, ka, kp
  <2>. photo \in Seq(PhotoKeys) /\ kp \in PhotoKeys
    BY <1>2
  <2>1. Stored(photo, kp) \in Seq(PhotoKeys)
    BY StoredInTable
  <2>2. Len(Stored(photo, kp)) \in Nat
    BY <2>1
  <2>3. /\ IndexIn(photo, kp) \in 0..Len(Stored(photo, kp)) - 1
        /\ Stored(photo, kp)[IndexIn(photo, kp) + 1] = kp
        /\ Len(photo) <= Len(Stored(photo, kp))
        /\ \A j \in 1..Len(photo) : Stored(photo, kp)[j] = photo[j]
    BY StoredThere
  <2> QED BY <1>3, <2>2, <2>3
<1>11. ASSUME NEW f \in Fields, label'[f] # NoLabel
       PROVE  /\ label'[f].astrom \in 0..Len(astro') - 1
              /\ astro'[label'[f].astrom + 1] = key'[f][1]
              /\ label'[f].photom \in 0..Len(photo') - 1
              /\ photo'[label'[f].photom + 1] = key'[f][2]
  <2>1. CASE f = m
    <3>1. label'[f] = label'[m]
      BY <2>1
    <3> QED BY <1>1, <1>3, <1>9, <1>10, <2>1, <3>1 DEF IInv, TypeOK
  <2>2. CASE f # m
    <3>1. label'[f] = label[f]
      BY <1>3, <2>2 DEF IInv, TypeOK
    <3>2. /\ label[f].astrom \in 0..Len(astro) - 1 /\ astro[label[f].astrom + 1] = key[f][1]
          /\ label[f].photom \in 0..Len(photo) - 1 /\ photo[label[f].photom + 1] = key[f][2]
      <4>1. label[f] # NoLabel
        BY <1>11, <3>1 DEF NoLabel
      <4> QED BY <4>1 DEF Ordered
    <3>3. label[f].astrom + 1 \in 1..Len(astro) /\ label[f].photom + 1 \in 1..Len(photo)
      <4>1. Len(astro) \in Nat /\ Len(photo) \in Nat
        BY <1>2
      <4> QED BY <3>2, <4>1, Following
    <3>4. label[f].astrom \in 0..Len(astro') - 1 /\ label[f].photom \in 0..Len(photo') - 1
      <4>1. Len(astro) \in Nat /\ Len(photo) \in Nat
        BY <1>2
      <4>2. Len(astro) <= Len(astro') /\ Len(astro') \in Nat
        BY <1>9
      <4>3. Len(photo) <= Len(photo') /\ Len(photo') \in Nat
        BY <1>10
      <4>4. label[f].astrom \in 0..Len(astro') - 1
        BY <3>2, <4>1, <4>2
      <4>5. label[f].photom \in 0..Len(photo') - 1
        BY <3>2, <4>1, <4>3
      <4> QED BY <4>4, <4>5
    <3> QED BY <1>3, <1>9, <1>10, <3>1, <3>2, <3>3, <3>4
  <2> QED BY <2>1, <2>2
<1> QED BY <1>8, <1>11 DEF Ordered, NoLabel

\* Rank counts the instruments whose first file comes earlier.
LEMMA RankCounts ==
  ASSUME NEW n, NEW k
  PROVE  Rank(k, n) = Cardinality({x \in {Keys(n)[f] : f \in Fields} :
                                      First(Keys(n), x) < First(Keys(n), k)})
<1>1. \A x : {f \in Fields : key[f][n] = x} = {f \in Fields : Keys(n)[f] = x}
  BY DEF Keys
<1>2. {key[f][n] : f \in Fields} = {Keys(n)[f] : f \in Fields}
  BY DEF Keys
<1>3. {j \in {key[f][n] : f \in Fields} :
          Min({f \in Fields : key[f][n] = j}) < Min({f \in Fields : key[f][n] = k})}
        = {x \in {Keys(n)[f] : f \in Fields} : First(Keys(n), x) < First(Keys(n), k)}
  BY <1>1, <1>2 DEF First
<1> QED BY <1>3 DEF Rank

\* Tables that follow the input files make every label the rank of its
\* instrument in the input list: the labels do not depend on the number of
\* workers nor on the order in which they finish.
THEOREM LabelsInInputOrder == Spec => []LabelsFollowInput
<1>1. Init => Ordered
  BY DEF Init, Ordered, Follows
<1>2. IInv /\ IInv' /\ Ordered /\ [Next]_vars => Ordered'
  <2> SUFFICES ASSUME IInv, Ordered, [Next]_vars, ~failed' PROVE Ordered'
    BY DEF Ordered
  <2>1. ASSUME UNCHANGED <<key, astro, photo, label, fviewindex, failed>> PROVE Ordered'
    <3>1. Keys(1)' = Keys(1) /\ Keys(2)' = Keys(2)
      BY <2>1 DEF Keys
    <3>2. Follows(Keys(1), astro, fviewindex)' = Follows(Keys(1), astro, fviewindex)
      BY <2>1, <3>1
    <3>3. Follows(Keys(2), photo, fviewindex)' = Follows(Keys(2), photo, fviewindex)
      BY <2>1, <3>1
    <3> QED BY <2>1, <3>2, <3>3 DEF Ordered, NoLabel
  <2>2. CASE UNCHANGED vars
    BY <2>1, <2>2 DEF vars, loadVars
  <2>3. CASE MasterStep
    BY <2>1, <2>3 DEF MasterStep, ResetIndices, Reset, loadVars, IInv, WorkInv, Bounds
  <2>4. ASSUME ~failed, NEW w \in Workers, Worker(w) PROVE Ordered'
    BY <2>1, <2>4, ViewOrdered DEF Worker, Report, Take, Idle, Load, loadVars
  <2>5. ASSUME NEW w \in Workers PROVE ~LoadFails(w)
    BY DEF LoadFails
  <2> QED BY <2>2, <2>3, <2>4, <2>5 DEF Next
<1>3. IInv /\ Ordered => LabelsFollowInput
  <2> SUFFICES ASSUME IInv, Ordered, ~failed, NEW f \in Fields, label[f] # NoLabel
               PROVE  label[f] = [astrom |-> Rank(key[f][1], 1), photom |-> Rank(key[f][2], 2)]
    BY DEF LabelsFollowInput
  <2> DEFINE a == label[f].astrom
             p == label[f].photom
  <2>1. /\ a \in 0..Len(astro) - 1 /\ astro[a + 1] = key[f][1]
        /\ p \in 0..Len(photo) - 1 /\ photo[p + 1] = key[f][2]
        /\ Follows(Keys(1), astro, fviewindex) /\ Follows(Keys(2), photo, fviewindex)
    BY DEF Ordered
  <2>2. /\ Keys(1) \in [Fields -> AstroKeys] /\ Keys(2) \in [Fields -> PhotoKeys]
        /\ astro \in Seq(AstroKeys) /\ photo \in Seq(PhotoKeys) /\ fviewindex \in 0..NField
        /\ Len(astro) \in Nat /\ Len(photo) \in Nat
    BY DEF IInv, TypeOK, Keys
  <2>3. /\ a \in Nat /\ a + 1 \in 1..Len(astro) /\ (a + 1) - 1 = a
        /\ p \in Nat /\ p + 1 \in 1..Len(photo) /\ (p + 1) - 1 = p
    <3>1. a \in 0..Len(astro) - 1 /\ p \in 0..Len(photo) - 1
      BY <2>1
    <3>2. Len(astro) \in Nat /\ Len(photo) \in Nat
      BY <2>2
    <3> HIDE DEF a, p
    <3> QED BY <3>1, <3>2
  <2>4. label[f] = [astrom |-> a, photom |-> p]
    BY DEF IInv, TypeOK, Labels
  <2> HIDE DEF a, p
  <2>5. Rank(astro[a + 1], 1) = a
    <3>1. Cardinality({y \in {Keys(1)[g] : g \in Fields} :
                          First(Keys(1), y) < First(Keys(1), astro[a + 1])}) = (a + 1) - 1
      <4>1. /\ Keys(1) \in [Fields -> AstroKeys] /\ astro \in Seq(AstroKeys)
            /\ fviewindex \in 0..NField /\ Follows(Keys(1), astro, fviewindex)
            /\ a + 1 \in 1..Len(astro)
        BY <2>1, <2>2, <2>3
      <4> QED BY <4>1, PlaceIsRank
    <3> QED BY <2>3, <3>1, RankCounts, Zenon
  <2>6. Rank(photo[p + 1], 2) = p
    <3>1. Cardinality({y \in {Keys(2)[g] : g \in Fields} :
                          First(Keys(2), y) < First(Keys(2), photo[p + 1])}) = (p + 1) - 1
      <4>1. /\ Keys(2) \in [Fields -> PhotoKeys] /\ photo \in Seq(PhotoKeys)
            /\ fviewindex \in 0..NField /\ Follows(Keys(2), photo, fviewindex)
            /\ p + 1 \in 1..Len(photo)
        BY <2>1, <2>2, <2>3
      <4> QED BY <4>1, PlaceIsRank
    <3> QED BY <2>3, <3>1, RankCounts, Zenon
  <2> QED BY <2>1, <2>4, <2>5, <2>6
<1> QED BY <1>1, <1>2, <1>3, Inductive, PTL DEF Spec
=============================================================================
