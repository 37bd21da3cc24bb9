------------------------- MODULE AppLifecycle_proofs -------------------------
(***************************************************************************)
(* Proofs about AppLifecycle, for any number of io threads and sessions    *)
(* and for both programs.                                                  *)
(***************************************************************************)
EXTENDS AppLifecycle, TLAPS

NotAlive(t) == thread[t] \in {"none", "ended"}

\* Where the owner stands says which threads and members there may be.
OwnerInv ==
    /\ owner = "construct" => \A t \in Threads : thread[t] = "none"
    /\ owner = "spawn" => thread[Runner] = "none"
    /\ owner \notin {"construct", "destroy", "done"} => made = Members
    /\ owner \in {"stopWs", "joinWs", "destroy", "done"} => NotAlive(Runner)
    /\ owner \in {"destroy", "done"} => \A t \in IoThreads : NotAlive(t)

IInv == TypeOK /\ OwnerInv /\ RunEndsByStop

\* In every state the invariant allows, a thread that is alive has its members.
LEMMA MembersOfInv == IInv => ThreadsSeeMembers
<1> SUFFICES ASSUME IInv, NEW t \in Threads, Alive(t) PROVE made = Members
  BY DEF ThreadsSeeMembers
<1>1. owner # "construct"
  BY DEF IInv, OwnerInv, Alive
<1>2. owner \notin {"destroy", "done"}
  BY DEF IInv, OwnerInv, NotAlive, Alive, Threads
<1>3. QED  BY <1>1, <1>2 DEF IInv, OwnerInv

\* A step of the owner keeps the invariant.
LEMMA OwnerKeeps == IInv /\ OwnerNext => IInv'
<1> SUFFICES ASSUME IInv, OwnerNext PROVE IInv'
  OBVIOUS
<1> USE RunnerAssumption DEF IInv, OwnerInv, NotAlive, TypeOK, RunEndsByStop, Threads, Members
<1>1. CASE Construct
  BY <1>1 DEF Construct
<1>2. CASE Serve
  BY <1>2 DEF Serve
<1>3. ASSUME NEW t \in IoThreads, StartIoThread(t) PROVE IInv'
  BY <1>3 DEF StartIoThread, Start
<1>4. CASE StartIoThreadFails
  BY <1>4 DEF StartIoThreadFails
<1>5. CASE StartRunner
  BY <1>5 DEF StartRunner, Start
<1>6. CASE StartRunnerFails
  BY <1>6 DEF StartRunnerFails
<1>7. CASE Stop
  BY <1>7 DEF Stop
<1>8. CASE JoinRunner
  BY <1>8 DEF JoinRunner
<1>9. CASE StopWs
  BY <1>9 DEF StopWs
<1>10. CASE JoinWs
  BY <1>10 DEF JoinWs
<1>11. CASE Destroy
  BY <1>11 DEF Destroy
<1>12. CASE Destroyed
  BY <1>12 DEF Destroyed
<1>13. CASE ConstructFails
  BY <1>13 DEF ConstructFails
<1>14. QED
  BY <1>1, <1>2, <1>3, <1>4, <1>5, <1>6, <1>7, <1>8, <1>9, <1>10, <1>11, <1>12, <1>13
     DEF OwnerNext, OwnerMoves

\* A thread that is alive may do what it likes, while the owner waits for it;
\* and the runner has work as long as the work guard is there.
LEMMA BecomesKeeps ==
    ASSUME IInv, NEW t \in Threads, Alive(t),
           NEW s \in {"idle", "busy", "ended"}, Becomes(t, s),
           t = Runner /\ s = "ended" => LocalCtx \in stopped,
           stopped' = stopped, ready' \in Nat, waiting' \in Nat
    PROVE  IInv'
<1>1. /\ made' = Members /\ made = Members /\ owner' = owner
      /\ owner \notin {"construct", "destroy", "done"}
  BY MembersOfInv, RunnerAssumption
     DEF Becomes, ThreadsSeeMembers, IInv, OwnerInv, NotAlive, Alive, Threads
<1>0. owner \in {"spawn", "stopWs", "joinWs"} => t # Runner
  BY DEF IInv, OwnerInv, NotAlive, Alive
<1>2. thread' = [thread EXCEPT ![t] = s]
  BY DEF Becomes
<1>3. TypeOK'
  BY <1>1, <1>2 DEF IInv, TypeOK
<1>4. OwnerInv'
  BY <1>0, <1>1, <1>2, RunnerAssumption DEF IInv, TypeOK, OwnerInv, NotAlive, Threads
<1>5. RunEndsByStop'
  BY <1>2, RunnerAssumption DEF IInv, TypeOK, RunEndsByStop, Threads
<1>6. QED  BY <1>3, <1>4, <1>5 DEF IInv

\* A step of any thread keeps the invariant.
LEMMA ThreadKeeps ==
    ASSUME IInv, (\E t \in IoThreads : IoNext(t)) \/ RunnerNext
    PROVE  IInv'
<1> USE DEF Threads, Alive, IInv, TypeOK
<1>1. ASSUME NEW t \in Threads, Run(t) PROVE IInv'
  BY <1>1, BecomesKeeps DEF Run
<1>2. ASSUME NEW t \in Threads, RunReturns(t) PROVE IInv'
  <2>1. made = Members
    BY <1>2, MembersOfInv DEF RunReturns, ThreadsSeeMembers
  <2>2. t = Runner => LocalCtx \in stopped
    BY <1>2, <2>1, RunnerAssumption
       DEF RunReturns, HasWork, Context, Members, WorkGuard
  <2>3. QED  BY <1>2, <2>2, BecomesKeeps DEF RunReturns
<1>3. ASSUME NEW t \in IoThreads,
             IoBegins(t) \/ IoOpensSession(t) \/ IoWakesSession(t) \/ IoEnds(t)
      PROVE  IInv'
  <2>1. t # Runner /\ thread[t] \in {"idle", "busy"} /\ stopped' = stopped
        /\ ready' \in Nat /\ waiting' \in Nat
        /\ \E s \in {"idle", "busy"} : Becomes(t, s)
    BY <1>3, RunnerAssumption
       DEF IoBegins, IoOpensSession, IoWakesSession, IoEnds, MayBegin
  <2>2. QED  BY <2>1, BecomesKeeps
<1>4. ASSUME RunnerBegins \/ RunnerEnds PROVE IInv'
  <2>1. thread[Runner] \in {"idle", "busy"} /\ stopped' = stopped
        /\ ready' \in Nat /\ waiting' \in Nat
        /\ \E s \in {"idle", "busy"} : Becomes(Runner, s)
    BY <1>4 DEF RunnerBegins, RunnerEnds, MayBegin
  <2>2. QED  BY <2>1, BecomesKeeps
<1>5. QED
  BY <1>1, <1>2, <1>3, <1>4 DEF IoNext, RunnerNext

\* The invariant holds in every state of the program.
LEMMA Invariance == Spec => []IInv
<1>1. Init => IInv
  BY RunnerAssumption
     DEF Init, IInv, TypeOK, OwnerInv, NotAlive, RunEndsByStop, Threads, Members
<1>2. IInv /\ [Next]_vars => IInv'
  <2> SUFFICES ASSUME IInv, [Next]_vars PROVE IInv'
    OBVIOUS
  <2>1. CASE OwnerNext
    BY <2>1, OwnerKeeps
  <2>2. CASE (\E t \in IoThreads : IoNext(t)) \/ RunnerNext
    BY <2>2, ThreadKeeps
  <2>3. CASE UNCHANGED vars
    BY <2>3 DEF vars, IInv, TypeOK, OwnerInv, NotAlive, RunEndsByStop
  <2>4. QED  BY <2>1, <2>2, <2>3 DEF Next, Over
<1>3. QED  BY <1>1, <1>2, PTL DEF Spec

\* The variables keep their types.
THEOREM TypeCorrect == Spec => []TypeOK
<1>1. IInv => TypeOK
  BY DEF IInv
<1>2. QED  BY <1>1, Invariance, PTL

\* No thread runs on a member of Impl that is not there, or not any more: App's
\* destructor joins every thread that was started, on every path to it.
THEOREM MembersOutliveThreads == Spec => []ThreadsSeeMembers
<1>1. QED  BY MembersOfInv, Invariance, PTL

\* App::run returns to nobody who did not call stop.
THEOREM RunReturnsWhenStopped == Spec => []RunEndsByStop
<1>1. IInv => RunEndsByStop
  BY DEF IInv
<1>2. QED  BY <1>1, Invariance, PTL
=============================================================================
