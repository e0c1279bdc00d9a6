-------------------------- MODULE WorldThreadProofs --------------------------
(* The safety of WorldThread, for any worlds, threads and length of queue.  *)
EXTENDS WorldThread, TLAPS

(* All threads but the controller's have ended, or never began.             *)
OthersAtRest == \A t \in Threads : t # worldThread => threadAt[t] \in {"none", "finished"}

(* A document has a thread exactly while it has a world, but for the moment *)
(* between forgetting the thread and deleting the world, and nothing runs   *)
(* without one or while it is being ended.                                  *)
ThreadWithWorld ==
  /\ mainAt # "replacing" => (world = None <=> worldThread = None)
  /\ mainAt = "replacing" => worldThread = None
  /\ mainAt \in {"opening", "terminating", "waking", "spinning"} => worldThread # None
  /\ mainAt \in {"terminating", "waking", "spinning", "replacing"} => ~worldRunning
  /\ worldRunning => worldThread # None

(* The lock the main thread took is the one the current thread would take.  *)
MainHoldsLock == mainAt = "locked" /\ worldThread # None => lockedBy[worldThread] = "main"

CycleOnWorld == \A t \in Threads : Iterating(t) => iterated[t] = world

(* Until setWorld: returns nobody can have asked the new thread to run.     *)
NewThreadIsIdle ==
  mainAt = "opening" =>
    /\ requests[worldThread] = <<>>
    /\ ~timer[worldThread]
    /\ threadAt[worldThread] \in {"started", "checking", "looping", "finished"}

(* The inductive invariant: the properties speak of every thread, and hold  *)
(* because only the controller's is ever awake.                             *)
IInv ==
  /\ TypeOK
  /\ OthersAtRest
  /\ ThreadWithWorld
  /\ MainHoldsLock
  /\ CycleOnWorld
  /\ NewThreadIsIdle

(* A document opens without a world.                                        *)
LEMMA InitLemma == Init => IInv
<1> <<>> \in Seq(Selectors)
  OBVIOUS
<1> QED BY NoneAssumption
  DEF Init, IInv, TypeOK, OthersAtRest, ThreadWithWorld, MainHoldsLock, CycleOnWorld,
      NewThreadIsIdle, Iterating

(* Posting a selector.                                                      *)
LEMMA PostLemma ==
  ASSUME TypeOK, NEW t \in Threads, NEW s \in Selectors, Post(t, s)
  PROVE  requests' \in [Threads -> Seq(Selectors)]
<1>1. requests \in [Threads -> Seq(Selectors)]
  BY DEF TypeOK
<1>2. Append(requests[t], s) \in Seq(Selectors)
  BY <1>1
<1> QED BY <1>1, <1>2 DEF Post

(* Each step of the main thread keeps the invariant.                        *)
LEMMA MainLemma ==
  ASSUME IInv, MainNext
  PROVE  IInv'
<1> USE NoneAssumption
    DEF IInv, TypeOK, OthersAtRest, ThreadWithWorld, MainHoldsLock, CycleOnWorld,
        NewThreadIsIdle, Iterating, MainGoes, controller, thread
<1>1. ASSUME NEW w \in Worlds, NEW t \in Threads, OpenWorld(w, t) PROVE IInv'
  <2>1. requests' \in [Threads -> Seq(Selectors)]
    <3> <<>> \in Seq(Selectors)
      OBVIOUS
    <3> QED BY <1>1 DEF OpenWorld
  <2>2. TypeOK'
    BY <1>1, <2>1 DEF OpenWorld
  <2>3. \A u \in Threads : threadAt[u] \in {"none", "finished"}
    BY <1>1 DEF OpenWorld
  <2>4. \A u \in Threads : threadAt'[u] = IF u = t THEN "started" ELSE threadAt[u]
    BY <1>1 DEF OpenWorld
  <2>5. OthersAtRest' /\ CycleOnWorld'
    BY <1>1, <2>3, <2>4 DEF OpenWorld
  <2>6. ThreadWithWorld' /\ MainHoldsLock' /\ NewThreadIsIdle'
    BY <1>1 DEF OpenWorld
  <2> QED BY <2>2, <2>5, <2>6
<1>2. CASE WorldOpened
  BY <1>2 DEF WorldOpened
<1>3. CASE StartRunning
  <2>1. requests' \in [Threads -> Seq(Selectors)]
    BY <1>3, PostLemma DEF StartRunning, Selectors
  <2> QED BY <1>3, <2>1 DEF StartRunning
<1>4. CASE PauseRunning
  <2>1. requests' \in [Threads -> Seq(Selectors)]
    BY <1>4, PostLemma DEF PauseRunning, Selectors
  <2> QED BY <1>4, <2>1 DEF PauseRunning
<1>5. CASE DisplayWorld
  BY <1>5 DEF DisplayWorld
<1>6. CASE LockWorld
  BY <1>6 DEF LockWorld
<1>7. CASE UnlockWorld
  BY <1>7 DEF UnlockWorld
<1>8. CASE ShowGraph \/ StepCreature \/ ChangeSettings \/ UseEnds
  BY <1>8 DEF ShowGraph, StepCreature, ChangeSettings, UseUnlocked, UseEnds
<1>9. CASE ClearWorld
  <2>1. worldThread \in Threads
    BY <1>9 DEF ClearWorld
  <2>2. requests' \in [Threads -> Seq(Selectors)]
    BY <1>9, <2>1, PostLemma DEF ClearWorld, Selectors
  <2> QED BY <1>9, <2>1, <2>2 DEF ClearWorld
<1>10. CASE SetTerminated
  BY <1>10 DEF SetTerminated
<1>11. CASE PostWakeUp
  <2>1. requests' \in [Threads -> Seq(Selectors)]
    BY <1>11, PostLemma DEF PostWakeUp, Selectors
  <2> QED BY <1>11, <2>1 DEF PostWakeUp
<1>12. CASE ForgetThread
  BY <1>12 DEF ForgetThread, SeesFinished
<1>13. CASE DeleteWorld
  BY <1>13 DEF DeleteWorld
<1>14. CASE KeepWaiting
  BY <1>14 DEF KeepWaiting, vars
<1> QED
  BY <1>1, <1>2, <1>3, <1>4, <1>5, <1>6, <1>7, <1>8, <1>9, <1>10, <1>11, <1>12, <1>13, <1>14
  DEF MainNext, Terminate

(* Each step of a world thread keeps the invariant.                         *)
LEMMA ThreadLemma ==
  ASSUME IInv, NEW t \in Threads, ThreadNext(t)
  PROVE  IInv'
<1> USE NoneAssumption
    DEF IInv, TypeOK, OthersAtRest, ThreadWithWorld, MainHoldsLock, CycleOnWorld,
        NewThreadIsIdle, Iterating, ThreadGoes, controller
<1>1. CASE EnterMain(t)
  BY <1>1 DEF EnterMain
<1>2. CASE RunLoop(t)
  BY <1>2 DEF RunLoop
<1>3. CASE Finish(t)
  BY <1>3 DEF Finish
<1>4. CASE Perform(t)
  <2>1. /\ requests[t] \in Seq(Selectors)
        /\ requests[t] # <<>>
    BY <1>4 DEF Perform
  <2>2. /\ NextRequest(t) \in Selectors
        /\ Tail(requests[t]) \in Seq(Selectors)
    BY <2>1 DEF NextRequest
  <2>3. TimerAfter(NextRequest(t), timer[t]) \in BOOLEAN
    BY <2>2 DEF TimerAfter, Selectors
  <2>4. /\ timer' \in [Threads -> BOOLEAN]
        /\ requests' \in [Threads -> Seq(Selectors)]
    BY <1>4, <2>2, <2>3 DEF Perform
  <2>5. mainAt # "opening" \/ t # worldThread
    BY <1>4 DEF Perform
  <2>6. \A u \in Threads : u # t =>
          /\ threadAt'[u] = threadAt[u]
          /\ timer'[u] = timer[u]
          /\ requests'[u] = requests[u]
    BY <1>4 DEF Perform
  <2>7. \A u \in Threads : Iterating(u)' <=> Iterating(u)
    BY <1>4 DEF Perform
  <2>8. TypeOK'
    BY <1>4, <2>4, <2>7 DEF Perform
  <2>9. OthersAtRest' /\ ThreadWithWorld' /\ MainHoldsLock' /\ CycleOnWorld'
    BY <1>4, <2>7 DEF Perform
  <2>10. NewThreadIsIdle'
    BY <1>4, <2>5, <2>6 DEF Perform
  <2> QED BY <2>8, <2>9, <2>10
<1>5. CASE FireTimer(t)
  BY <1>5 DEF FireTimer
<1>6. CASE BeginCycle(t)
  BY <1>6 DEF BeginCycle
<1>7. CASE EndCycle(t)
  BY <1>7 DEF EndCycle
<1> QED
  BY <1>1, <1>2, <1>3, <1>4, <1>5, <1>6, <1>7 DEF ThreadNext

(* The strengthened invariant always holds.                                 *)
THEOREM IInvInvariant == Spec => []IInv
<1>1. IInv /\ [Next]_vars => IInv'
  <2> SUFFICES ASSUME IInv, [Next]_vars PROVE IInv'
    OBVIOUS
  <2>1. CASE Next
    BY <2>1, MainLemma, ThreadLemma DEF Next
  <2>2. CASE UNCHANGED vars
    BY <2>2
    DEF vars, controller, thread, IInv, TypeOK, OthersAtRest, ThreadWithWorld,
        MainHoldsLock, CycleOnWorld, NewThreadIsIdle, Iterating
  <2> QED BY <2>1, <2>2
<1> QED BY <1>1, InitLemma, PTL DEF Spec

(* terminateWorldThread leaves no thread in a world that setWorld deletes,  *)
(* and a cycle is always of the current world.                              *)
THEOREM ThreadsAlwaysIterateTheWorld == Spec => []ThreadsIterateTheWorld
<1>1. IInv => ThreadsIterateTheWorld
  BY NoneAssumption
  DEF IInv, TypeOK, OthersAtRest, ThreadWithWorld, CycleOnWorld, ThreadsIterateTheWorld, Iterating
<1> QED BY <1>1, IInvInvariant, PTL

(* What the main thread does under the lock, it does with no thread inside  *)
(* the world, whichever thread object the lock belongs to.                  *)
THEOREM AlwaysLockedAlone == Spec => []LockedAlone
<1>1. IInv => LockedAlone
  BY NoneAssumption
  DEF IInv, TypeOK, OthersAtRest, MainHoldsLock, LockedAlone, Iterating
<1> QED BY <1>1, IInvInvariant, PTL

(* What setWorld: reads without the lock, it reads with no thread inside.   *)
THEOREM AlwaysOpenedInQuiet == Spec => []OpenedInQuiet
<1>1. IInv => OpenedInQuiet
  BY NoneAssumption
  DEF IInv, TypeOK, OthersAtRest, ThreadWithWorld, NewThreadIsIdle, OpenedInQuiet, Iterating
<1> QED BY <1>1, IInvInvariant, PTL

(* Each variable keeps its type, and a cycle its thread's lock.             *)
THEOREM TypeCorrectness == Spec => []TypeOK
<1>1. IInv => TypeOK
  BY DEF IInv
<1> QED BY <1>1, IInvInvariant, PTL

----------------------------------------------------------------------------
(* The timer.                                                               *)

(* Once a queue is performed by a thread with or without a timer, it has    *)
(* one exactly when running: the last selector that is not wakeUp says so,  *)
(* or, with no other, it is so already.                                     *)
Settles(queue, hasTimer, running) ==
  \/ \E i \in DOMAIN queue :
       /\ queue[i] = IF running THEN "installTimer" ELSE "uninstallTimer"
       /\ \A j \in DOMAIN queue : j > i => queue[j] = "wakeUp"
  \/ hasTimer = running /\ \A j \in DOMAIN queue : queue[j] = "wakeUp"

(* A thread is told to end only by a main thread that has stopped it and    *)
(* then waits for it.                                                       *)
TerminatedByMain ==
  worldThread # None /\ terminated[worldThread] => mainAt \in {"waking", "spinning"}

TimerInv ==
  /\ TerminatedByMain
  /\ worldThread # None
       => Settles(requests[worldThread], timer[worldThread], worldRunning)

(* wakeUp, posted last, settles nothing else.                               *)
LEMMA SettlesWakeUp ==
  ASSUME NEW queue \in Seq(Selectors), NEW hasTimer \in BOOLEAN, NEW running \in BOOLEAN,
         Settles(queue, hasTimer, running)
  PROVE  Settles(Append(queue, "wakeUp"), hasTimer, running)
<1>1. PICK n \in Nat : n = Len(queue) /\ DOMAIN queue = 1 .. n
  OBVIOUS
<1>2. PICK longer : longer = Append(queue, "wakeUp")
  OBVIOUS
<1>3. /\ DOMAIN longer = 1 .. (n + 1)
      /\ longer[n + 1] = "wakeUp"
      /\ \A i \in 1 .. n : longer[i] = queue[i]
  BY <1>1, <1>2
<1> QED BY <1>1, <1>2, <1>3 DEF Settles

(* The other two, posted last, settle it.                                   *)
LEMMA SettlesPosted ==
  ASSUME NEW queue \in Seq(Selectors), NEW hasTimer, NEW running \in BOOLEAN
  PROVE  Settles(Append(queue, IF running THEN "installTimer" ELSE "uninstallTimer"),
                 hasTimer, running)
<1> DEFINE selector == IF running THEN "installTimer" ELSE "uninstallTimer"
<1>1. PICK n \in Nat : n = Len(queue) /\ DOMAIN queue = 1 .. n
  OBVIOUS
<1>2. PICK longer : longer = Append(queue, selector)
  OBVIOUS
<1>3. /\ DOMAIN longer = 1 .. (n + 1)
      /\ longer[n + 1] = selector
  BY <1>1, <1>2
<1> QED BY <1>1, <1>2, <1>3 DEF Settles

(* Performing the oldest does not change what the queue will settle.        *)
LEMMA SettlesPerform ==
  ASSUME NEW queue \in Seq(Selectors), queue # <<>>, NEW hasTimer \in BOOLEAN,
         NEW running \in BOOLEAN, Settles(queue, hasTimer, running)
  PROVE  Settles(Tail(queue), TimerAfter(Head(queue), hasTimer), running)
<1>1. PICK n \in Nat : n = Len(queue) /\ DOMAIN queue = 1 .. n /\ n > 0
  OBVIOUS
<1>2. PICK rest : rest = Tail(queue)
  OBVIOUS
<1>3. DOMAIN rest = 1 .. (n - 1) /\ \A i \in 1 .. (n - 1) : rest[i] = queue[i + 1]
  BY <1>1, <1>2
<1>4. PICK first : first = Head(queue) /\ first = queue[1]
  OBVIOUS
<1>5. CASE \A j \in 1 .. n : queue[j] = "wakeUp"
  <2>1. hasTimer = running
    BY <1>1, <1>5 DEF Settles
  <2>2. TimerAfter(first, hasTimer) = hasTimer
    <3>1. first = "wakeUp"
      BY <1>1, <1>4, <1>5
    <3> QED BY <3>1, Zenon DEF TimerAfter
  <2>3. \A j \in DOMAIN rest : rest[j] = "wakeUp"
    BY <1>1, <1>3, <1>5
  <2> QED BY <1>2, <1>4, <2>1, <2>2, <2>3 DEF Settles
<1>6. CASE \E i \in 1 .. n :
             /\ queue[i] = IF running THEN "installTimer" ELSE "uninstallTimer"
             /\ \A j \in 1 .. n : j > i => queue[j] = "wakeUp"
  <2>1. PICK i \in 1 .. n :
             /\ queue[i] = IF running THEN "installTimer" ELSE "uninstallTimer"
             /\ \A j \in 1 .. n : j > i => queue[j] = "wakeUp"
    BY <1>6
  <2>2. CASE i = 1
    <3>1. TimerAfter(first, hasTimer) = running
      BY <1>4, <2>1, <2>2 DEF TimerAfter
    <3>2. \A j \in 1 .. (n - 1) : rest[j] = "wakeUp"
      BY <1>3, <2>1, <2>2
    <3> QED BY <1>2, <1>3, <1>4, <3>1, <3>2 DEF Settles
  <2>3. CASE i # 1
    <3>1. i - 1 \in 1 .. (n - 1) /\ rest[i - 1] = queue[i]
      BY <1>3, <2>3
    <3>2. \A j \in 1 .. (n - 1) : j > i - 1 => rest[j] = "wakeUp"
      BY <1>3, <2>1
    <3> QED BY <1>2, <1>3, <2>1, <3>1, <3>2 DEF Settles
  <2> QED BY <2>2, <2>3
<1> QED BY <1>1, <1>5, <1>6 DEF Settles

(* Every step keeps the timer's invariant.                                  *)
LEMMA TimerStep ==
  ASSUME IInv, TimerInv, Next
  PROVE  TimerInv'
<1> USE NoneAssumption
    DEF MainGoes, controller, thread, TerminatedByMain
<1>0. /\ worldThread \in Threads \union {None}
      /\ worldRunning \in BOOLEAN
      /\ timer \in [Threads -> BOOLEAN]
      /\ terminated \in [Threads -> BOOLEAN]
      /\ requests \in [Threads -> Seq(Selectors)]
      /\ worldThread # None =>
           /\ requests[worldThread] \in Seq(Selectors)
           /\ timer[worldThread] \in BOOLEAN
           /\ Settles(requests[worldThread], timer[worldThread], worldRunning)
  BY DEF IInv, TypeOK, TimerInv
<1>1. ASSUME NEW w \in Worlds, NEW t \in Threads, OpenWorld(w, t) PROVE TimerInv'
  <2>1. ~worldRunning'
    BY <1>1 DEF OpenWorld, IInv, ThreadWithWorld
  <2>2. worldThread' = t /\ requests'[t] = <<>> /\ timer'[t] = FALSE /\ ~terminated'[t]
    BY <1>0, <1>1 DEF OpenWorld
  <2>3. Settles(<<>>, FALSE, FALSE)
    BY DEF Settles
  <2>4. worldRunning' = FALSE
    BY <1>0, <1>1, <2>1 DEF OpenWorld
  <2> QED BY <2>2, <2>3, <2>4 DEF TimerInv
<1>2. CASE UNCHANGED <<controller, terminated, timer, requests>> /\ mainAt' = mainAt
  BY <1>2 DEF TimerInv
<1>3. CASE \/ WorldOpened \/ DisplayWorld \/ LockWorld \/ UnlockWorld \/ UseEnds
           \/ ShowGraph \/ StepCreature \/ ChangeSettings
  BY <1>3 DEF TimerInv, WorldOpened, DisplayWorld, LockWorld, UnlockWorld, UseEnds,
              ShowGraph, StepCreature, ChangeSettings, UseUnlocked
<1>4. CASE StartRunning \/ PauseRunning \/ (ClearWorld /\ worldRunning)
  <2>1. worldThread \in Threads /\ worldThread' = worldThread
        /\ worldRunning' \in BOOLEAN /\ terminated' = terminated /\ timer' = timer
        /\ mainAt = "ready"
    BY <1>0, <1>4 DEF StartRunning, PauseRunning, ClearWorld, IInv, ThreadWithWorld
  <2>2. requests'[worldThread]
          = Append(requests[worldThread],
                   IF worldRunning' THEN "installTimer" ELSE "uninstallTimer")
    BY <1>0, <1>4, <2>1 DEF StartRunning, PauseRunning, ClearWorld, Post
  <2>3. Settles(requests'[worldThread], timer'[worldThread], worldRunning')
    <3>1. PICK r \in BOOLEAN, h \in BOOLEAN, q \in Seq(Selectors) :
            r = worldRunning' /\ h = timer[worldThread] /\ q = requests[worldThread]
      BY <1>0, <2>1
    <3>2. Settles(Append(q, IF r THEN "installTimer" ELSE "uninstallTimer"), h, r)
      BY SettlesPosted
    <3>3. /\ timer'[worldThread] = h
          /\ requests'[worldThread] = Append(q, IF r THEN "installTimer" ELSE "uninstallTimer")
      BY <2>1, <2>2, <3>1
    <3> QED BY <3>1, <3>2, <3>3
  <2> QED BY <2>1, <2>3 DEF TimerInv
<1>5. CASE ClearWorld /\ ~worldRunning
  BY <1>0, <1>5 DEF TimerInv, ClearWorld
<1>6. CASE SetTerminated
  BY <1>6 DEF TimerInv, SetTerminated
<1>7. CASE PostWakeUp
  <2>1. worldThread \in Threads
    BY <1>0, <1>7 DEF PostWakeUp, IInv, ThreadWithWorld
  <2>2. requests'[worldThread] = Append(requests[worldThread], "wakeUp")
    BY <1>0, <1>7, <2>1 DEF PostWakeUp, Post
  <2>3. Settles(requests'[worldThread], timer[worldThread], worldRunning)
    BY <1>0, <2>1, <2>2, SettlesWakeUp
  <2> QED BY <1>7, <2>3 DEF TimerInv, PostWakeUp
<1>8. CASE ForgetThread
  BY <1>8 DEF ForgetThread, TimerInv
<1>9. CASE DeleteWorld
  <2>1. worldThread' = None
    BY <1>9 DEF DeleteWorld, IInv, ThreadWithWorld
  <2> QED BY <2>1 DEF TimerInv
<1>10. CASE KeepWaiting
  BY <1>10 DEF KeepWaiting, vars, TimerInv
<1>11. ASSUME NEW t \in Threads, Perform(t) PROVE TimerInv'
  <2>1. /\ worldThread' = worldThread /\ worldRunning' = worldRunning
        /\ mainAt' = mainAt /\ terminated' = terminated
        /\ requests[t] # <<>>
        /\ requests'[t] = Tail(requests[t])
        /\ timer'[t] = TimerAfter(Head(requests[t]), timer[t])
        /\ \A u \in Threads : u # t => requests'[u] = requests[u] /\ timer'[u] = timer[u]
    BY <1>0, <1>11 DEF Perform, NextRequest
  <2>2. CASE worldThread = t
    <3>1. Settles(requests'[t], timer'[t], worldRunning)
      BY <1>0, <2>1, <2>2, SettlesPerform
    <3> QED BY <2>1, <2>2, <3>1 DEF TimerInv
  <2>3. CASE worldThread # t
    BY <1>0, <2>1, <2>3 DEF TimerInv
  <2> QED BY <2>2, <2>3
<1>12. ASSUME NEW t \in Threads, Finish(t) PROVE TimerInv'
  <2>1. CASE worldThread = t
    <3>1. terminated[t] /\ mainAt \in {"waking", "spinning"}
      BY <1>12, <2>1 DEF Finish, TimerInv
    <3>2. worldRunning = FALSE
      BY <1>0, <3>1 DEF IInv, ThreadWithWorld
    <3>3. /\ requests' = requests /\ timer'[t] = FALSE /\ worldThread' = worldThread
          /\ worldRunning' = worldRunning /\ mainAt' = mainAt /\ terminated' = terminated
      BY <1>0, <1>12 DEF Finish
    <3>4. Settles(requests[t], FALSE, FALSE)
      BY <1>0, <2>1, <3>2 DEF Settles
    <3> QED BY <2>1, <3>1, <3>2, <3>3, <3>4 DEF TimerInv
  <2>2. CASE worldThread # t
    BY <1>0, <1>12, <2>2 DEF Finish, TimerInv
  <2> QED BY <2>1, <2>2
<1>13. ASSUME NEW t \in Threads,
              EnterMain(t) \/ RunLoop(t) \/ FireTimer(t) \/ BeginCycle(t) \/ EndCycle(t)
       PROVE  TimerInv'
  BY <1>2, <1>13 DEF EnterMain, RunLoop, FireTimer, BeginCycle, EndCycle
<1> QED
  BY <1>1, <1>3, <1>4, <1>5, <1>6, <1>7, <1>8, <1>9, <1>10, <1>11, <1>12, <1>13
  DEF Next, MainNext, ThreadNext, Terminate

(* When all that was posted to it is performed, the thread has its timer    *)
(* exactly when the controller says the world runs, however it was toggled. *)
THEOREM TimerAlwaysFollowsRunning == Spec => []TimerFollowsRunning
<1>1. Init => TimerInv
  BY DEF Init, TimerInv, TerminatedByMain
<1>2. IInv /\ TimerInv /\ [Next]_vars => TimerInv'
  <2> SUFFICES ASSUME IInv, TimerInv, [Next]_vars PROVE TimerInv'
    OBVIOUS
  <2>1. CASE Next
    BY <2>1, TimerStep
  <2>2. CASE UNCHANGED vars
    BY <2>2 DEF vars, controller, thread, TimerInv, TerminatedByMain
  <2> QED BY <2>1, <2>2
<1>3. IInv /\ TimerInv => TimerFollowsRunning
  BY NoneAssumption DEF IInv, TypeOK, TimerInv, Settles, TimerFollowsRunning
<1> QED BY <1>1, <1>2, <1>3, IInvInvariant, PTL DEF Spec
=============================================================================
