---------------------------- MODULE WorldThread ----------------------------
(* The document's main thread and its world thread                          *)
(* (Source/userinterface/cocoa/controllers/MTWorldController.mm).           *)
(*                                                                          *)
(* The main thread opens and closes worlds, starts and pauses them, draws   *)
(* them and steps them; an MTWorldThread iterates the current world from a  *)
(* timer on its run loop.  They share the world, each thread object's lock, *)
(* its terminated flag and its queue of performSelector requests.  The run  *)
(* loop, the lock and NSThread are the system's: they are modelled by what  *)
(* the controller relies on.  What is done to a world is World's business;  *)
(* here a world is its identity.                                            *)
EXTENDS Naturals, Sequences

CONSTANTS Worlds,       \* the worlds a document may open
          Threads,      \* the MTWorldThread objects that may exist
          None,         \* the null pointer
          MaxRequests   \* bound: requests a thread may have waiting when running is toggled

ASSUME NoneAssumption == None \notin Worlds \union Threads
ASSUME RequestsAssumption == MaxRequests \in Nat \ {0}

VARIABLES world,         \* mWorldData's mWorld
          worldThread,   \* the controller's _worldThread
          worldRunning,  \* the controller's _worldRunning, with which the update timer comes and goes
          mainAt,        \* where the main thread is
          threadAt,      \* where each world thread is
          iterated,      \* the world each world thread's iterate: has fetched
          lockedBy,      \* who holds each thread's _worldLock
          terminated,    \* each thread's _terminated
          timer,         \* does each thread's run loop have the run-world timer?
          requests       \* the selectors waiting on each thread's run loop, oldest first

controller == <<world, worldThread, worldRunning>>
thread == <<threadAt, iterated, lockedBy, terminated, timer, requests>>
vars == <<controller, mainAt, thread>>

Selectors == {"installTimer", "uninstallTimer", "wakeUp"}

Iterating(t) == threadAt[t] = "iterating"

(* What each variable holds, and that a cycle holds its thread's lock from *)
(* beginning to end and gives it back.                                      *)
TypeOK ==
  /\ world \in Worlds \union {None}
  /\ worldThread \in Threads \union {None}
  /\ worldRunning \in BOOLEAN
  /\ mainAt \in {"ready", "locking", "locked", "graphing", "stepping", "touching",
                 "terminating", "waking", "spinning", "replacing", "opening"}
  /\ threadAt \in [Threads -> {"none", "started", "checking", "looping", "locking",
                               "iterating", "finished"}]
  /\ iterated \in [Threads -> Worlds \union {None}]
  /\ lockedBy \in [Threads -> {"nobody", "main", "world"}]
  /\ terminated \in [Threads -> BOOLEAN]
  /\ timer \in [Threads -> BOOLEAN]
  /\ requests \in [Threads -> Seq(Selectors)]
  /\ \A t \in Threads : Iterating(t) <=> lockedBy[t] = "world"

Init ==
  /\ world = None
  /\ worldThread = None
  /\ worldRunning = FALSE
  /\ mainAt = "ready"
  /\ threadAt = [t \in Threads |-> "none"]
  /\ iterated = [t \in Threads |-> None]
  /\ lockedBy = [t \in Threads |-> "nobody"]
  /\ terminated = [t \in Threads |-> FALSE]
  /\ timer = [t \in Threads |-> FALSE]
  /\ requests = [t \in Threads |-> <<>>]

----------------------------------------------------------------------------
(* The main thread.                                                         *)

(* Mutant of Post: a request goes ahead of those waiting.                   *)
PostFirst(t, selector) == requests' = [requests EXCEPT ![t] = <<selector>> \o @]

Post(t, selector) == requests' = [requests EXCEPT ![t] = Append(@, selector)]

MainGoes(from, to) == mainAt = from /\ mainAt' = to

(* setWorld: with a world, there being none: no thread to end, the world    *)
(* set, a thread made for it; the views are then read without the lock.     *)
OpenWorld(w, t) ==
  /\ MainGoes("ready", "opening")
  /\ world = None
  /\ threadAt[t] \in {"none", "finished"}
  /\ world' = w
  /\ worldThread' = t
  /\ threadAt' = [threadAt EXCEPT ![t] = "started"]
  /\ lockedBy' = [lockedBy EXCEPT ![t] = "nobody"]
  /\ terminated' = [terminated EXCEPT ![t] = FALSE]
  /\ timer' = [timer EXCEPT ![t] = FALSE]
  /\ requests' = [requests EXCEPT ![t] = <<>>]
  /\ UNCHANGED <<worldRunning, iterated>>

(* ... and setWorld: ends in updateDisplay.                                 *)
WorldOpened == MainGoes("opening", "locking") /\ UNCHANGED <<controller, thread>>

StartRunning ==
  /\ mainAt = "ready"
  /\ world # None
  /\ ~worldRunning
  /\ Len(requests[worldThread]) < MaxRequests
  /\ worldRunning' = TRUE
  /\ Post(worldThread, "installTimer")
  /\ UNCHANGED <<world, worldThread, mainAt, threadAt, iterated, lockedBy, terminated, timer>>

(* Pausing ends with updateGenotypes, which reads the inventory unlocked.   *)
PauseRunning ==
  /\ MainGoes("ready", "touching")
  /\ worldRunning
  /\ Len(requests[worldThread]) < MaxRequests
  /\ worldRunning' = FALSE
  /\ Post(worldThread, "uninstallTimer")
  /\ UNCHANGED <<world, worldThread, threadAt, iterated, lockedBy, terminated, timer>>

(* The update timer, drawRect:, saving and exporting all take the lock of   *)
(* the current thread; with no thread, lockWorld is a message to nil.       *)
DisplayWorld == MainGoes("ready", "locking") /\ UNCHANGED <<controller, thread>>

LockWorld ==
  /\ MainGoes("locking", "locked")
  /\ worldThread # None => lockedBy[worldThread] = "nobody"
  /\ lockedBy' = [t \in Threads |-> IF t = worldThread THEN "main" ELSE lockedBy[t]]
  /\ UNCHANGED <<controller, threadAt, iterated, terminated, timer, requests>>

UnlockWorld ==
  /\ MainGoes("locked", "ready")
  /\ lockedBy' = [t \in Threads |-> IF t = worldThread THEN "nobody" ELSE lockedBy[t]]
  /\ UNCHANGED <<controller, threadAt, iterated, terminated, timer, requests>>

(* What the main thread does to an open world without the lock: switching   *)
(* to a graph or drawing it, stepping a creature, giving new settings.      *)
UseUnlocked(what) ==
  /\ MainGoes("ready", what)
  /\ world # None
  /\ UNCHANGED <<controller, thread>>

ShowGraph == UseUnlocked("graphing")
StepCreature == UseUnlocked("stepping")
ChangeSettings == UseUnlocked("touching")

UseEnds ==
  /\ mainAt \in {"graphing", "stepping", "touching"}
  /\ mainAt' = "ready"
  /\ UNCHANGED <<controller, thread>>

(* clearWorld, for closing or reverting: setRunning:NO, then setWorld:NULL, *)
(* which starts by ending the thread.                                       *)
ClearWorld ==
  /\ MainGoes("ready", "terminating")
  /\ world # None
  /\ worldRunning' = FALSE
  /\ IF worldRunning THEN Post(worldThread, "uninstallTimer") ELSE UNCHANGED requests
  /\ UNCHANGED <<world, worldThread, threadAt, iterated, lockedBy, terminated, timer>>

SetTerminated ==
  /\ MainGoes("terminating", "waking")
  /\ terminated' = [terminated EXCEPT ![worldThread] = TRUE]
  /\ UNCHANGED <<controller, threadAt, iterated, lockedBy, timer, requests>>

(* Mutant of PostWakeUp: nothing wakes the run loop.                        *)
NoWakeUp == MainGoes("waking", "spinning") /\ UNCHANGED <<controller, thread>>

PostWakeUp ==
  /\ MainGoes("waking", "spinning")
  /\ Post(worldThread, "wakeUp")
  /\ UNCHANGED <<controller, threadAt, iterated, lockedBy, terminated, timer>>

(* Mutant of SeesFinished: the main thread does not wait.                   *)
DoesNotWait == TRUE

SeesFinished == threadAt[worldThread] = "finished"

(* The main thread polls: hanging here would be a livelock, not a deadlock. *)
KeepWaiting == mainAt = "spinning" /\ ~SeesFinished /\ UNCHANGED vars

ForgetThread ==
  /\ MainGoes("spinning", "replacing")
  /\ SeesFinished
  /\ worldThread' = None
  /\ UNCHANGED <<world, worldRunning, thread>>

(* WorldData::setWorld deletes the old world.                               *)
DeleteWorld ==
  /\ MainGoes("replacing", "ready")
  /\ world' = None
  /\ UNCHANGED <<worldThread, worldRunning, thread>>

Terminate == SetTerminated \/ PostWakeUp \/ ForgetThread \/ DeleteWorld

----------------------------------------------------------------------------
(* A world thread.                                                          *)

ThreadGoes(t, from, to) ==
  /\ threadAt[t] = from
  /\ threadAt' = [threadAt EXCEPT ![t] = to]

EnterMain(t) ==
  /\ ThreadGoes(t, "started", "checking")
  /\ UNCHANGED <<controller, mainAt, iterated, lockedBy, terminated, timer, requests>>

(* The condition of main's loop: another runMode:, or uninstallTimer and    *)
(* the end of the thread.                                                   *)
RunLoop(t) ==
  /\ ~terminated[t]
  /\ ThreadGoes(t, "checking", "looping")
  /\ UNCHANGED <<controller, mainAt, iterated, lockedBy, terminated, timer, requests>>

Finish(t) ==
  /\ terminated[t]
  /\ ThreadGoes(t, "checking", "finished")
  /\ timer' = [timer EXCEPT ![t] = FALSE]
  /\ UNCHANGED <<controller, mainAt, iterated, lockedBy, terminated, requests>>

(* installTimer does nothing if there is a timer, uninstallTimer if there   *)
(* is none, wakeUp ever.                                                    *)
TimerAfter(selector, hasTimer) ==
  CASE selector = "installTimer"   -> TRUE
    [] selector = "uninstallTimer" -> FALSE
    [] selector = "wakeUp"         -> hasTimer

NextRequest(t) == Head(requests[t])

(* The run loop performs waiting selectors, some or all, then runMode:      *)
(* returns.  A timer alone does not make it return.                         *)
Perform(t) ==
  /\ requests[t] # <<>>
  /\ \/ ThreadGoes(t, "looping", "checking")
     \/ ThreadGoes(t, "looping", "looping") /\ Len(requests[t]) > 1
  /\ timer' = [timer EXCEPT ![t] = TimerAfter(NextRequest(t), @)]
  /\ requests' = [requests EXCEPT ![t] = Tail(@)]
  /\ UNCHANGED <<controller, mainAt, iterated, lockedBy, terminated>>

FireTimer(t) ==
  /\ timer[t]
  /\ ThreadGoes(t, "looping", "locking")
  /\ UNCHANGED <<controller, mainAt, iterated, lockedBy, terminated, timer, requests>>

(* Mutant of BeginCycle: the world is iterated without the lock.            *)
BeginCycleUnlocked(t) ==
  /\ ThreadGoes(t, "locking", "iterating")
  /\ iterated' = [iterated EXCEPT ![t] = world]
  /\ UNCHANGED <<controller, mainAt, lockedBy, terminated, timer, requests>>

(* runOneWorldCycle: under the lock, iterate: for about 20 ms.              *)
BeginCycle(t) ==
  /\ lockedBy[t] = "nobody"
  /\ ThreadGoes(t, "locking", "iterating")
  /\ lockedBy' = [lockedBy EXCEPT ![t] = "world"]
  /\ iterated' = [iterated EXCEPT ![t] = world]
  /\ UNCHANGED <<controller, mainAt, terminated, timer, requests>>

(* Mutant of EndCycle: the lock is not given back.                          *)
EndCycleLocked(t) ==
  /\ ThreadGoes(t, "iterating", "looping")
  /\ iterated' = [iterated EXCEPT ![t] = None]
  /\ UNCHANGED <<controller, mainAt, lockedBy, terminated, timer, requests>>

EndCycle(t) ==
  /\ ThreadGoes(t, "iterating", "looping")
  /\ lockedBy' = [lockedBy EXCEPT ![t] = "nobody"]
  /\ iterated' = [iterated EXCEPT ![t] = None]
  /\ UNCHANGED <<controller, mainAt, terminated, timer, requests>>

ThreadNext(t) ==
  \/ EnterMain(t) \/ RunLoop(t) \/ Finish(t)
  \/ Perform(t) \/ FireTimer(t) \/ BeginCycle(t) \/ EndCycle(t)

----------------------------------------------------------------------------
MainNext ==
  \/ \E w \in Worlds, t \in Threads : OpenWorld(w, t)
  \/ WorldOpened
  \/ StartRunning \/ PauseRunning
  \/ DisplayWorld \/ LockWorld \/ UnlockWorld
  \/ ShowGraph \/ StepCreature \/ ChangeSettings \/ UseEnds
  \/ ClearWorld \/ Terminate \/ KeepWaiting

Next == MainNext \/ \E t \in Threads : ThreadNext(t)

(* The main thread goes on with a termination it began, and the world       *)
(* thread with what it is doing.  Performing is strongly fair: each pass of *)
(* a run loop looks at its sources, so a timer that is always due does not  *)
(* keep requests waiting.  Nothing is assumed of who gets a contended lock. *)
Fairness ==
  /\ WF_vars(Terminate)
  /\ \A t \in Threads :
       /\ WF_vars(EnterMain(t) \/ RunLoop(t) \/ Finish(t) \/ BeginCycle(t) \/ EndCycle(t))
       /\ SF_vars(Perform(t))

Spec == Init /\ [][Next]_vars /\ Fairness

----------------------------------------------------------------------------
(* Safety.                                                                  *)

(* No world thread is inside a world that has been deleted or replaced:     *)
(* terminateWorldThread waits for the cycle under way, however long, before *)
(* WorldData::setWorld deletes the world.                                   *)
ThreadsIterateTheWorld ==
  \A t \in Threads : Iterating(t) => world # None /\ iterated[t] = world

(* The lock belongs to the thread object and is replaced with it, and still *)
(* a main thread that draws or saves has the world to itself.               *)
LockedAlone == mainAt = "locked" => \A t \in Threads : ~Iterating(t)

(* The unlocked reads with which setWorld ends find nobody iterating: a     *)
(* thread ended late, or a timer carried over, would be there.              *)
OpenedInQuiet == mainAt = "opening" => \A t \in Threads : ~Iterating(t)

(* However fast running is toggled, once the requests are performed the     *)
(* thread has its timer exactly when the controller says the world runs.    *)
TimerFollowsRunning ==
  worldThread # None /\ requests[worldThread] = <<>>
    => timer[worldThread] = worldRunning

(* Liveness: closing a world ends; the busy wait for the thread does not    *)
(* hang the main thread, wherever the thread was when it was told to end.   *)
ClosingEnds == mainAt = "terminating" ~> mainAt = "ready"

----------------------------------------------------------------------------
(* What the sources say that is not so.                                     *)

(* "collectData is called on the engine thread" (MT_DataCollectors.h): the  *)
(* main thread does not run the engine, collecting as it goes, alongside.   *)
EngineOnOneThread == mainAt = "stepping" => \A t \in Threads : ~Iterating(t)

=============================================================================
