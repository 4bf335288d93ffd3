----------------------------- MODULE GateProofs -----------------------------
(***************************************************************************)
(* The thread gate of threads.c is right for every number of threads and   *)
(* every number of calls: proofs about Gate.tla.                           *)
(*                                                                         *)
(* Synchronised is not inductive.  IInv adds who holds which mutex, that   *)
(* ngate counts the threads inside, and how an opening drains: from the    *)
(* broadcast to the last return every thread inside is one call behind     *)
(* "opened" (it is late), and while anyone is late some thread that nobody *)
(* can pass -- the opener, holding block, or the opener alone and holding  *)
(* the mutex -- keeps new threads from being counted in.                   *)
(***************************************************************************)
EXTENDS Gate, FiniteSetTheorems, TLAPS

\* A thread that the last opening let go and that is still inside.
Late(t) == passed[t] # opened

MutexInv == \A t \in Threads :
    (mutex = t) <=> (pc[t] \in {"admit", "sleep", "open", "linger", "release", "leave"})

BlockInv == \A t \in Threads :
    (block = t) <=> (pc[t] \in {"mutex", "admit", "open", "linger", "lingering", "release"})

CountInv == /\ ngate = Cardinality(Inside)
            /\ \A t \in Threads : pc[t] = "open" => ngate = nthreads
            /\ \A t \in Threads : pc[t] = "release" => ngate = 1
            /\ \A t \in Threads : pc[t] = "lingering" /\ t \notin last => ngate = 1

CallInv == \A t \in Threads :
    called[t] = IF pc[t] = "out" THEN passed[t] ELSE passed[t] + 1

LateInv == \A t \in Threads :
    /\ Late(t) => /\ passed[t] + 1 = opened
                  /\ pc[t] \in {"asleep", "linger", "lingering", "release", "leave"}
    /\ pc[t] \in {"linger", "lingering", "release", "leave"} => Late(t)

SleepInv == /\ \A t \in condvar : pc[t] = "asleep"
            /\ \A t \in last : pc[t] = "lingering"
            /\ \A t \in Threads : pc[t] = "asleep" => (t \in condvar <=> ~Late(t))

DrainInv == \A t \in Threads : Late(t) =>
    /\ \A u \in Inside : Late(u)
    /\ \E o \in Threads : \/ pc[o] \in {"linger", "lingering", "release"}
                          \/ pc[o] = "leave" /\ Inside = {o}

IInv == /\ TypeOK /\ MutexInv /\ BlockInv /\ CountInv
        /\ CallInv /\ LateInv /\ SleepInv /\ DrainInv

-----------------------------------------------------------------------------
(* Counting the threads inside *)

\* Some of the threads: finitely many, at most all of them, all of them when
\* there are as many as there are threads, and one alone when there is one.
LEMMA SomeThreads ==
    ASSUME NEW S \in SUBSET Threads
    PROVE  /\ IsFiniteSet(S)
           /\ Cardinality(S) \in 0..nthreads
           /\ Cardinality(S) = nthreads => S = Threads
           /\ \A t \in S : Cardinality(S) = 1 => S = {t}
  <1>1. IsFiniteSet(Threads)
    BY ThreadsAssumption
  <1>2. /\ IsFiniteSet(S)
        /\ Cardinality(S) \in 0..nthreads
        /\ Cardinality(S) = nthreads => S = Threads
    BY <1>1, FS_Subset, FS_CardinalityType DEF nthreads
  <1>3. ASSUME NEW t \in S, Cardinality(S) = 1 PROVE S = {t}
    <2>1. PICK x : S = {x}
      BY <1>2, <1>3, FS_Singleton
    <2>. QED
      BY <2>1
  <1>. QED
    BY <1>2, <1>3

\* A thread that moves between two statements on the same side of ++ngate and
\* --ngate leaves the set of threads inside unchanged.
LEMMA InsideSame ==
    ASSUME TypeOK, NEW t \in Threads, NEW l \in Locations, Goto(t, l),
           pc[t] \in Counted <=> l \in Counted
    PROVE  Inside' = Inside
  BY DEF TypeOK, Goto, Inside

\* ++ngate adds a thread to those inside.
LEMMA InsideAdd ==
    ASSUME TypeOK, NEW t \in Threads, NEW l \in Counted, Goto(t, l),
           pc[t] \notin Counted
    PROVE  /\ Inside' = Inside \cup {t}
           /\ Cardinality(Inside') = Cardinality(Inside) + 1
  <1>1. /\ Inside' = Inside \cup {t}
        /\ t \notin Inside
    BY DEF TypeOK, Goto, Inside
  <1>2. IsFiniteSet(Inside)
    BY SomeThreads DEF Inside
  <1>. QED
    BY <1>1, <1>2, FS_AddElement

\* --ngate takes a thread away from those inside.
LEMMA InsideRemove ==
    ASSUME TypeOK, NEW t \in Threads, Goto(t, "out"), pc[t] \in Counted
    PROVE  /\ Inside' = Inside \ {t}
           /\ Cardinality(Inside') = Cardinality(Inside) - 1
  <1>1. /\ Inside' = Inside \ {t}
        /\ t \in Inside
    BY DEF TypeOK, Goto, Inside, Counted
  <1>2. IsFiniteSet(Inside)
    BY SomeThreads DEF Inside
  <1>. QED
    BY <1>1, <1>2, FS_RemoveElement

-----------------------------------------------------------------------------
(* The invariant *)

\* A gate fresh from threads_gate_init satisfies the invariant.
LEMMA InitIInv == Init => IInv
  <1>. SUFFICES ASSUME Init PROVE IInv
    OBVIOUS
  <1>. USE ThreadsAssumption, NoThreadAssumption DEF Init
  <1>1. nthreads \in Nat /\ nthreads >= 2
    BY FS_CardinalityType DEF nthreads
  <1>2. Inside = {}
    BY DEF Inside, Counted
  <1>3. TypeOK
    BY <1>1 DEF TypeOK, Locations
  <1>4. MutexInv /\ BlockInv
    BY DEF MutexInv, BlockInv
  <1>5. CountInv
    BY <1>2, FS_EmptySet DEF CountInv
  <1>6. CallInv /\ LateInv /\ SleepInv /\ DrainInv
    BY DEF CallInv, LateInv, SleepInv, DrainInv, Late
  <1>. QED
    BY <1>3, <1>4, <1>5, <1>6 DEF IInv

\* Every step of every thread preserves the invariant: one step per statement
\* of threads_gate_sync.
LEMMA NextIInv == IInv /\ [Next]_vars => IInv'
  <1>. SUFFICES ASSUME IInv, [Next]_vars PROVE IInv'
    OBVIOUS
  <1>. USE ThreadsAssumption, NoThreadAssumption
  <1>n. nthreads \in Nat /\ nthreads >= 2
    BY FS_CardinalityType DEF nthreads
  <1>i. TypeOK /\ MutexInv /\ BlockInv /\ CountInv /\ CallInv /\ LateInv /\ SleepInv /\ DrainInv
    BY DEF IInv
  <1>1. ASSUME NEW t \in Threads, Call(t) PROVE IInv'
    <2>. USE <1>1, <1>n, <1>i DEF Call
    <2>1. Inside' = Inside
      BY InsideSame DEF Counted, Locations
    <2>2. TypeOK'
      BY DEF TypeOK, Goto, Locations
    <2>3. MutexInv'
      BY DEF TypeOK, Goto, MutexInv
    <2>4. BlockInv'
      BY DEF TypeOK, Goto, BlockInv
    <2>5. CountInv'
      BY <2>1 DEF TypeOK, Goto, CountInv, BlockInv, MutexInv, nthreads
    <2>6. CallInv'
      BY DEF TypeOK, Goto, CallInv
    <2>7. LateInv'
      BY DEF TypeOK, Goto, LateInv, Late
    <2>8. SleepInv'
      BY DEF TypeOK, Goto, SleepInv, LateInv, Late
    <2>9. DrainInv'
      BY <2>1 DEF TypeOK, Goto, DrainInv, LateInv, Late
    <2>. QED
      BY <2>2, <2>3, <2>4, <2>5, <2>6, <2>7, <2>8, <2>9 DEF IInv
  <1>2. ASSUME NEW t \in Threads, LockBlock(t) PROVE IInv'
    <2>. USE <1>2, <1>n, <1>i DEF LockBlock
    <2>1. Inside' = Inside
      BY InsideSame DEF Counted, Locations
    <2>2. TypeOK'
      BY DEF TypeOK, Goto, Locations
    <2>3. MutexInv'
      BY DEF TypeOK, Goto, MutexInv
    <2>4. BlockInv'
      BY DEF TypeOK, Goto, BlockInv
    <2>5. CountInv'
      BY <2>1 DEF TypeOK, Goto, CountInv, BlockInv, MutexInv, nthreads
    <2>6. CallInv'
      BY DEF TypeOK, Goto, CallInv
    <2>7. LateInv'
      BY DEF TypeOK, Goto, LateInv, Late
    <2>8. SleepInv'
      BY DEF TypeOK, Goto, SleepInv, LateInv, Late
    <2>9. DrainInv'
      BY <2>1 DEF TypeOK, Goto, DrainInv, LateInv, Late
    <2>. QED
      BY <2>2, <2>3, <2>4, <2>5, <2>6, <2>7, <2>8, <2>9 DEF IInv
  <1>3. ASSUME NEW t \in Threads, CountIn(t) PROVE IInv'
    <2>. USE <1>3, <1>n, <1>i DEF CountIn
    <2>1. /\ Inside' = Inside \cup {t}
          /\ Cardinality(Inside') = Cardinality(Inside) + 1
      BY InsideAdd DEF Counted, Goto
    <2>a. Cardinality(Inside') \in 0..nthreads
      BY SomeThreads DEF Inside
    <2>b. \A u \in Threads : ~Late(u)
      BY DEF DrainInv, BlockInv, MutexInv
    <2>2. TypeOK'
      BY <2>1, <2>a DEF TypeOK, Goto, Locations, CountInv
    <2>3. MutexInv'
      BY DEF TypeOK, Goto, MutexInv
    <2>4. BlockInv'
      BY DEF TypeOK, Goto, BlockInv
    <2>5. CountInv'
      BY <2>1, <2>a DEF TypeOK, Goto, CountInv, BlockInv
    <2>6. CallInv'
      BY DEF TypeOK, Goto, CallInv
    <2>7. LateInv'
      BY DEF TypeOK, Goto, LateInv, Late
    <2>8. SleepInv'
      BY DEF TypeOK, Goto, SleepInv, LateInv, Late
    <2>9. DrainInv'
      BY <2>b DEF DrainInv, Late
    <2>. QED
      BY <2>2, <2>3, <2>4, <2>5, <2>6, <2>7, <2>8, <2>9 DEF IInv
  <1>4. ASSUME NEW t \in Threads, Admit(t) PROVE IInv'
    <2>. USE <1>4, <1>n, <1>i DEF Admit
    <2>1. Inside' = Inside
      BY InsideSame DEF Counted, Locations
    <2>2. TypeOK'
      BY DEF TypeOK, Goto, Locations
    <2>3. MutexInv'
      BY DEF TypeOK, Goto, MutexInv
    <2>4. BlockInv'
      BY DEF TypeOK, Goto, BlockInv
    <2>5. CountInv'
      BY <2>1 DEF TypeOK, Goto, CountInv, BlockInv, MutexInv, nthreads
    <2>6. CallInv'
      BY DEF TypeOK, Goto, CallInv
    <2>7. LateInv'
      BY DEF TypeOK, Goto, LateInv, Late
    <2>8. SleepInv'
      BY DEF TypeOK, Goto, SleepInv, LateInv, Late
    <2>9. DrainInv'
      BY <2>1 DEF TypeOK, Goto, DrainInv, LateInv, Late
    <2>. QED
      BY <2>2, <2>3, <2>4, <2>5, <2>6, <2>7, <2>8, <2>9 DEF IInv
  <1>5. ASSUME NEW t \in Threads, Sleep(t) PROVE IInv'
    <2>. USE <1>5, <1>n, <1>i DEF Sleep
    <2>1. Inside' = Inside
      BY InsideSame DEF Counted, Locations
    <2>2. TypeOK'
      BY DEF TypeOK, Goto, Locations
    <2>3. MutexInv'
      BY DEF TypeOK, Goto, MutexInv
    <2>4. BlockInv'
      BY DEF TypeOK, Goto, BlockInv
    <2>5. CountInv'
      BY <2>1 DEF TypeOK, Goto, CountInv, BlockInv, MutexInv, nthreads
    <2>6. CallInv'
      BY DEF TypeOK, Goto, CallInv
    <2>7. LateInv'
      BY DEF TypeOK, Goto, LateInv, Late
    <2>8. SleepInv'
      BY DEF TypeOK, Goto, SleepInv, LateInv, Late
    <2>9. DrainInv'
      BY <2>1 DEF TypeOK, Goto, DrainInv, LateInv, Late
    <2>. QED
      BY <2>2, <2>3, <2>4, <2>5, <2>6, <2>7, <2>8, <2>9 DEF IInv
  <1>6. ASSUME NEW t \in Threads, OpenGate(t) PROVE IInv'
    <2>. USE <1>6, <1>n, <1>i DEF OpenGate
    <2>1. Inside' = Inside
      BY InsideSame DEF Counted, Locations
    <2>a. \A u \in Threads : ~Late(u)
      BY DEF DrainInv, LateInv, Inside, Counted
    <2>b. Inside = Threads
      BY SomeThreads DEF CountInv, Inside
    <2>c. \A u \in Threads : u # t => pc[u] = "asleep"
      BY <2>b DEF Inside, Counted, MutexInv, BlockInv
    <2>2. TypeOK'
      BY DEF TypeOK, Goto, Locations
    <2>3. MutexInv'
      BY DEF TypeOK, Goto, MutexInv
    <2>4. BlockInv'
      BY DEF TypeOK, Goto, BlockInv
    <2>5. CountInv'
      BY <2>1 DEF TypeOK, Goto, CountInv, BlockInv, MutexInv, nthreads
    <2>6. CallInv'
      BY DEF TypeOK, Goto, CallInv
    <2>7. LateInv'
      BY <2>a, <2>c DEF TypeOK, Goto, LateInv, Late
    <2>8. SleepInv'
      BY <2>a DEF TypeOK, Goto, SleepInv, Late
    <2>9. DrainInv'
      BY <2>1, <2>a DEF TypeOK, Goto, DrainInv, Late, Inside
    <2>. QED
      BY <2>2, <2>3, <2>4, <2>5, <2>6, <2>7, <2>8, <2>9 DEF IInv
  <1>7. ASSUME NEW t \in Threads, Linger(t) PROVE IInv'
    <2>. USE <1>7, <1>n, <1>i DEF Linger
    <2>1. Inside' = Inside
      BY InsideSame DEF Counted, Locations
    <2>2. TypeOK'
      BY DEF TypeOK, Goto, Locations
    <2>3. MutexInv'
      BY DEF TypeOK, Goto, MutexInv
    <2>4. BlockInv'
      BY DEF TypeOK, Goto, BlockInv
    <2>5. CountInv'
      BY <2>1 DEF TypeOK, Goto, CountInv, BlockInv, MutexInv, nthreads
    <2>6. CallInv'
      BY DEF TypeOK, Goto, CallInv
    <2>7. LateInv'
      BY DEF TypeOK, Goto, LateInv, Late
    <2>8. SleepInv'
      BY DEF TypeOK, Goto, SleepInv, LateInv, Late
    <2>9. DrainInv'
      BY <2>1 DEF TypeOK, Goto, DrainInv, LateInv, Late
    <2>. QED
      BY <2>2, <2>3, <2>4, <2>5, <2>6, <2>7, <2>8, <2>9 DEF IInv
  <1>8. ASSUME NEW t \in Threads, Wake(t) PROVE IInv'
    <2>. USE <1>8, <1>n, <1>i DEF Wake
    <2>1. Inside' = Inside
      BY InsideSame DEF Counted, Locations
    <2>2. TypeOK'
      BY DEF TypeOK, Goto, Locations
    <2>3. MutexInv'
      BY DEF TypeOK, Goto, MutexInv
    <2>4. BlockInv'
      BY DEF TypeOK, Goto, BlockInv
    <2>5. CountInv'
      BY <2>1 DEF TypeOK, Goto, CountInv, BlockInv, MutexInv, nthreads
    <2>6. CallInv'
      BY DEF TypeOK, Goto, CallInv
    <2>7. LateInv'
      BY DEF TypeOK, Goto, LateInv, SleepInv, Late
    <2>8. SleepInv'
      BY DEF TypeOK, Goto, SleepInv, LateInv, Late
    <2>9. DrainInv'
      BY <2>1 DEF TypeOK, Goto, DrainInv, LateInv, Late
    <2>. QED
      BY <2>2, <2>3, <2>4, <2>5, <2>6, <2>7, <2>8, <2>9 DEF IInv
  <1>9. ASSUME NEW t \in Threads, WakeLast(t) PROVE IInv'
    <2>. USE <1>9, <1>n, <1>i DEF WakeLast
    <2>1. Inside' = Inside
      BY InsideSame DEF Counted, Locations
    <2>2. TypeOK'
      BY DEF TypeOK, Goto, Locations
    <2>3. MutexInv'
      BY DEF TypeOK, Goto, MutexInv
    <2>4. BlockInv'
      BY DEF TypeOK, Goto, BlockInv
    <2>5. CountInv'
      BY <2>1 DEF TypeOK, Goto, CountInv, BlockInv, MutexInv, nthreads
    <2>6. CallInv'
      BY DEF TypeOK, Goto, CallInv
    <2>7. LateInv'
      BY DEF TypeOK, Goto, LateInv, Late
    <2>8. SleepInv'
      BY DEF TypeOK, Goto, SleepInv, LateInv, Late
    <2>9. DrainInv'
      BY <2>1 DEF TypeOK, Goto, DrainInv, LateInv, Late
    <2>. QED
      BY <2>2, <2>3, <2>4, <2>5, <2>6, <2>7, <2>8, <2>9 DEF IInv
  <1>10. ASSUME NEW t \in Threads, Release(t) PROVE IInv'
    <2>. USE <1>10, <1>n, <1>i DEF Release
    <2>1. Inside' = Inside
      BY InsideSame DEF Counted, Locations
    <2>a. Inside = {t}
      BY SomeThreads DEF CountInv, Inside, Counted
    <2>2. TypeOK'
      BY DEF TypeOK, Goto, Locations
    <2>3. MutexInv'
      BY DEF TypeOK, Goto, MutexInv
    <2>4. BlockInv'
      BY DEF TypeOK, Goto, BlockInv
    <2>5. CountInv'
      BY <2>1 DEF TypeOK, Goto, CountInv, BlockInv, MutexInv, nthreads
    <2>6. CallInv'
      BY DEF TypeOK, Goto, CallInv
    <2>7. LateInv'
      BY DEF TypeOK, Goto, LateInv, Late
    <2>8. SleepInv'
      BY DEF TypeOK, Goto, SleepInv, LateInv, Late
    <2>9. DrainInv'
      BY <2>1, <2>a DEF TypeOK, Goto, DrainInv, Late
    <2>. QED
      BY <2>2, <2>3, <2>4, <2>5, <2>6, <2>7, <2>8, <2>9 DEF IInv
  <1>11. ASSUME NEW t \in Threads, Leave(t) PROVE IInv'
    <2>. USE <1>11, <1>n, <1>i DEF Leave
    <2>1. /\ Inside' = Inside \ {t}
          /\ Cardinality(Inside') = Cardinality(Inside) - 1
      BY InsideRemove DEF Counted
    <2>a. Cardinality(Inside') \in 0..nthreads
      BY SomeThreads DEF Inside
    <2>b. t \in Inside
      BY DEF Inside, Counted
    <2>c. \A u \in Inside : u # t => ngate # 1
      BY <2>b, SomeThreads DEF CountInv, Inside
    <2>2. TypeOK'
      BY <2>1, <2>a DEF TypeOK, Goto, Locations, CountInv
    <2>3. MutexInv'
      BY DEF TypeOK, Goto, MutexInv
    <2>4. BlockInv'
      BY DEF TypeOK, Goto, BlockInv
    <2>5. CountInv'
      BY <2>1, <2>a, <2>c DEF TypeOK, Goto, CountInv, MutexInv, Inside, Counted
    <2>6. CallInv'
      BY DEF TypeOK, Goto, CallInv
    <2>7. LateInv'
      BY DEF TypeOK, Goto, LateInv, Late
    <2>8. SleepInv'
      BY DEF TypeOK, Goto, SleepInv, LateInv, Late
    <2>9. DrainInv'
      <3>1. SUFFICES ASSUME NEW u \in Threads, Late(u)'
                     PROVE  /\ \A v \in Inside' : Late(v)'
                            /\ \E o \in Threads : \/ pc'[o] \in {"linger", "lingering", "release"}
                                                  \/ pc'[o] = "leave" /\ Inside' = {o}
        BY DEF DrainInv
      <3>2. u # t /\ Late(u) /\ u \in Inside
        BY <3>1 DEF TypeOK, LateInv, Late, Inside, Counted
      <3>3. \A v \in Inside' : Late(v)'
        BY <2>1, <3>2 DEF TypeOK, DrainInv, Late, Inside
      <3>4. PICK o \in Threads : \/ pc[o] \in {"linger", "lingering", "release"}
                                 \/ pc[o] = "leave" /\ Inside = {o}
        BY <3>2 DEF DrainInv
      <3>5. pc[o] \in {"linger", "lingering", "release"}
        BY <2>b, <3>2, <3>4
      <3>. QED
        BY <3>3, <3>5 DEF TypeOK, Goto
    <2>. QED
      BY <2>2, <2>3, <2>4, <2>5, <2>6, <2>7, <2>8, <2>9 DEF IInv
  <1>12. CASE UNCHANGED vars
    BY <1>12, <1>i DEF vars, IInv, TypeOK, MutexInv, BlockInv, CountInv, CallInv, LateInv,
                      SleepInv, DrainInv, Late, Inside, nthreads
  <1>. QED
    BY <1>1, <1>2, <1>3, <1>4, <1>5, <1>6, <1>7, <1>8, <1>9, <1>10, <1>11, <1>12 DEF Next, Step

-----------------------------------------------------------------------------
(* Theorems *)

\* The invariant holds in every reachable state.
THEOREM GateInvariant == Spec => []IInv
  BY InitIInv, NextIInv, PTL DEF Spec

\* Type correctness: in particular ngate never leaves 0..nthreads.
THEOREM GateTyped == Spec => []TypeOK
  BY GateInvariant, PTL DEF IInv

\* threads.c:108, for every number of threads and of calls: no thread is a
\* call ahead of another one.
THEOREM GateSynchronises == Spec => []Synchronised
  <1>1. IInv => Synchronised
    <2>. SUFFICES ASSUME IInv, NEW t \in Threads, NEW u \in Threads
                  PROVE  passed[t] <= called[u]
      BY DEF Synchronised
    <2>1. passed[t] <= opened
      BY DEF IInv, TypeOK, LateInv, Late
    <2>2. opened <= called[u]
      BY DEF IInv, TypeOK, CallInv, LateInv, Late
    <2>. QED
      BY <2>1, <2>2 DEF IInv, TypeOK
  <1>. QED
    BY <1>1, GateInvariant, PTL

\* threads.c:134-135: the thread that opened the gate lets new threads in only
\* when it is alone inside.
THEOREM GateLastOut == Spec => []LastOutReleases
  <1>1. IInv => LastOutReleases
    <2>. SUFFICES ASSUME IInv, NEW t \in Threads, pc[t] = "release"
                  PROVE  Inside = {t}
      BY DEF LastOutReleases
    <2>1. Inside \in SUBSET Threads /\ t \in Inside
      BY DEF Inside, Counted
    <2>2. Cardinality(Inside) = 1
      BY DEF IInv, CountInv
    <2>. QED
      BY <2>1, <2>2, SomeThreads
  <1>. QED
    BY <1>1, GateInvariant, PTL

\* The gate implements the safety part of Rendezvous: a return is allowed
\* only when every thread has made the call, and nothing else shows outside.
THEOREM GateRefines == Spec => PromiseSafe
  <1>1. Init => Promise!Init
    BY DEF Init, Promise!Init
  <1>2. IInv /\ [Next]_vars => [Promise!Next]_<<called, passed>>
    <2>. SUFFICES ASSUME IInv, [Next]_vars PROVE [Promise!Next]_<<called, passed>>
      OBVIOUS
    <2>1. ASSUME NEW t \in Threads, Call(t) PROVE Promise!Arrive(t)
      BY <2>1 DEF Call, Promise!Arrive, IInv, CallInv
    <2>2. ASSUME NEW t \in Threads, Leave(t) PROVE Promise!Depart(t)
      <3>1. \A u \in Threads : passed[t] < called[u]
        <4>. TAKE u \in Threads
        <4>1. passed[t] + 1 = opened
          BY <2>2 DEF Leave, IInv, LateInv, Late
        <4>2. opened <= called[u]
          BY DEF IInv, TypeOK, CallInv, LateInv, Late
        <4>. QED
          BY <4>1, <4>2 DEF IInv, TypeOK
      <3>. QED
        BY <2>2, <3>1 DEF Leave, Promise!Depart, Promise!Open
    <2>3. ASSUME NEW t \in Threads,
                 (Step(t) /\ ~Leave(t)) \/ UNCHANGED vars
          PROVE  UNCHANGED <<called, passed>>
      BY <2>3 DEF Step, LockBlock, CountIn, Admit, Sleep, OpenGate, Linger, Wake,
                  WakeLast, Release, vars
    <2>4. CASE UNCHANGED vars
      BY <2>4 DEF vars
    <2>. QED
      BY <2>1, <2>2, <2>3, <2>4 DEF Next, Promise!Next
  <1>. QED
    BY <1>1, <1>2, GateInvariant, PTL DEF Spec, PromiseSafe
=============================================================================
