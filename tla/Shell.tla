--------------------------------- MODULE Shell --------------------------------
(***************************************************************************)
(* The main task (main.cpp loop(), enterDeepSleep() and setup()) over the   *)
(* activity manager, the render task and the exchange window.  One pass     *)
(* runs the input checks and the current activity (ActivityManager::loop),  *)
(* settles the transitions that were requested, and gives the exchange      *)
(* window one tick.  The way into sleep runs ActivityManager::loop() once   *)
(* more, frees the framebuffer and keeps the window open for a while.       *)
(***************************************************************************)
EXTENDS ActivityManager, ExchangeWindow

CONSTANT MaxHops   \* bound: transitions asked for by onEnter and result handlers in one pass

ASSUME HopsAssumption == MaxHops \in Nat

VARIABLES
  step,        \* where the main task is
  resume,      \* where it goes on after a wait or stopRadio()
  closedBook,  \* ActivityManager::loop(): a book was left in this pass
  sleeping,    \* enterDeepSleep() has begun
  hops         \* transitions asked for by onEnter and handlers in this pass

mainVars == <<step, resume, closedBook, sleeping, hops>>
vars == <<managerVars, windowVars, mainVars>>

Steps == {"pass", "activity", "settle", "launch", "homeless", "entering", "handler",
          "waiting", "stopping", "tick", "paint", "sleepframe", "sleepwindow", "off"}

TypeOK ==
  /\ ManagerTypeOK
  /\ WindowTypeOK
  /\ step \in Steps
  /\ resume \in Steps
  /\ closedBook \in BOOLEAN
  /\ sleeping \in BOOLEAN
  /\ hops \in 0 .. MaxHops

\* setup(): the shell, Home or a book is entered and asks for its first frame.
Landing == {"Daily", "Home", "Book"}

Init ==
  /\ current \in Landing
  /\ stack = <<>>
  /\ action = "none" /\ pending = None
  /\ requested = TRUE /\ notified = FALSE
  /\ render = "idle" /\ framebuffer = TRUE
  /\ waiter = "none" /\ painted = FALSE
  /\ step = "pass" /\ resume = "pass"
  /\ closedBook = FALSE /\ sleeping = FALSE /\ hops = 0
  /\ WindowInit

\* The same after a restart; a wake from deep sleep arms the window.
Boot(armed) ==
  /\ current' \in Landing
  /\ stack' = <<>>
  /\ action' = "none" /\ pending' = None
  /\ requested' = TRUE /\ notified' = FALSE
  /\ render' = "idle" /\ framebuffer' = TRUE
  /\ waiter' = "none" /\ painted' = FALSE
  /\ step' = "pass" /\ resume' = "pass"
  /\ closedBook' = FALSE /\ sleeping' = FALSE /\ hops' = 0
  /\ window' = armed /\ trigger' = "wake"
  /\ framed' = FALSE /\ waited' = FALSE /\ expired' = FALSE
  /\ worker' = "idle" /\ runtime' = FALSE

\* Where ActivityManager::loop() returns to: loop(), or goToSleep().
AfterLoop == IF sleeping THEN "sleepframe" ELSE "tick"

GoTo(next) == step' = next /\ UNCHANGED <<resume, closedBook, sleeping, hops>>
GoOn(next, later) == step' = next /\ resume' = later /\ UNCHANGED <<closedBook, sleeping, hops>>

\* Window::close(): a radio that is up is stopped before the main task goes on.
Close(later) ==
  \/ RadioUp /\ GoOn("stopping", later) /\ UNCHANGED windowVars
  \/ Disarm /\ GoTo(later)

-------------------------------------------------------------------------------
(* ActivityManager::loop(): input *)

\* The release of a button whose long press was used is swallowed with the whole pass.
SuppressedRelease ==
  /\ step = "pass"
  /\ GoTo(AfterLoop)
  /\ UNCHANGED <<managerVars, windowVars>>

\* The home gesture: the activity handles it, or the pass ends with Home requested.
HomeGesture ==
  /\ step = "pass" /\ current # "Home"
  /\ \/ Replace("Home")
     \/ UNCHANGED <<action, pending>>
  /\ GoTo(AfterLoop)
  /\ UNCHANGED <<screenVars, requested, frameVars, windowVars>>

\* The front-light panel is pushed and the pass ends.
LightPanel ==
  /\ step = "pass"
  /\ Push("Dialog")
  /\ GoTo(AfterLoop)
  /\ UNCHANGED <<screenVars, requested, frameVars, windowVars>>

RunActivity ==
  /\ step = "pass"
  /\ GoTo("activity")
  /\ UNCHANGED <<managerVars, windowVars>>

\* What an activity's loop() asks for: nothing, or a transition.
Asked ==
  \/ UNCHANGED <<action, pending>>
  \/ \E screen \in {"Daily", "Home", "Book", "Dialog"} : Replace(screen)
  \/ Push("Dialog")
  \/ Pop

\* loop() of the current activity; repaints are deferred or immediate.
ActivityLoop ==
  /\ step = "activity"
  /\ Asked
  /\ \/ requested' = TRUE /\ UNCHANGED notified
     \/ notified' = TRUE /\ UNCHANGED requested
     \/ UNCHANGED <<requested, notified>>
  /\ GoTo("settle")
  /\ UNCHANGED <<screenVars, render, framebuffer, waiter, windowVars>>

\* loop() shows a new state and waits for it before it blocks on something else.
ActivityWaits ==
  /\ step = "activity"
  /\ Register
  /\ GoOn("waiting", "settle")
  /\ UNCHANGED <<screenVars, action, pending, requested, render, windowVars>>

\* ulTaskNotifyTake() returns.
Awoken ==
  /\ step = "waiting" /\ waiter = "woken"
  /\ waiter' = "none"
  /\ GoOn(resume, "pass")
  /\ UNCHANGED <<screenVars, action, pending, requested, notified, render, framebuffer, windowVars>>

-------------------------------------------------------------------------------
(* ActivityManager::loop(): transitions *)

SettlePop ==
  /\ step = "settle"
  /\ closedBook' = (closedBook \/ current = "Book")
  /\ \/ PopToParent /\ step' = "handler"
     \/ PopLast /\ step' = "homeless"
  /\ UNCHANGED <<resume, sleeping, hops, windowVars>>

SettleHome ==
  /\ step = "homeless"
  /\ HomeAfterPop
  /\ GoTo("entering")
  /\ UNCHANGED windowVars

\* Mutant: the window is left to the next pass of the loop.
StaysOpenForAny(screen) == TRUE
\* closeExchangeWindowFor(): the screens the window may stay open for.
StaysOpenFor(screen) == Tolerates(screen)

\* The radio gives way before the next screen is swapped in.
SettleClose ==
  /\ step = "settle" /\ action \in {"Push", "Replace", "ReplaceForSleep"}
  /\ closedBook' = (closedBook \/ (action = "Replace" /\ ReaderOpen /\ pending # "Book"))
  /\ \/ /\ StaysOpenFor(pending)
        /\ step' = "launch"
        /\ UNCHANGED <<resume, windowVars>>
     \/ /\ ~StaysOpenFor(pending) /\ RadioUp
        /\ step' = "stopping" /\ resume' = "launch"
        /\ UNCHANGED windowVars
     \/ /\ ~StaysOpenFor(pending) /\ Disarm
        /\ step' = "launch"
        /\ UNCHANGED resume
  /\ UNCHANGED <<managerVars, sleeping, hops>>

SettleLaunch ==
  /\ step = "launch"
  /\ Launch
  /\ GoTo("entering")
  /\ UNCHANGED windowVars

\* onEnter() asks for the first frame; the lock is free, so the render task may
\* already be drawing the activity.  The sleep screen draws itself.
Enter ==
  /\ step = "entering" /\ current # None
  /\ requested' = (requested \/ current # "Sleep")
  /\ painted' = (current = "Sleep")
  /\ render' = IF render = "drawing" THEN "drawingEarly" ELSE render
  /\ \/ UNCHANGED <<action, pending, hops>>
     \/ current # "Sleep" /\ hops < MaxHops /\ hops' = hops + 1 /\ Pop
  /\ step' = "settle"
  /\ UNCHANGED <<current, stack, notified, framebuffer, waiter,
                 resume, closedBook, sleeping, windowVars>>

\* onEnter() of a screen that has to be seen before it goes on.
EnterWaits ==
  /\ step = "entering" /\ current = "Dialog"
  /\ Register
  /\ render' = IF render = "drawing" THEN "drawingEarly" ELSE render
  /\ painted' = FALSE
  /\ GoOn("waiting", "settle")
  /\ UNCHANGED <<current, stack, action, pending, requested, windowVars>>

\* Mutant: a popped activity is not repainted on its own account.
RepaintAsAsked == requested
\* The uncovered activity is repainted unless its handler asked for a transition.
RepaintUncovered == requested \/ action' = "none"

\* The result handler of the uncovered activity, and the repaint after it.
Handler ==
  /\ step = "handler"
  /\ \/ UNCHANGED <<action, pending, hops>>
     \/ /\ hops < MaxHops /\ hops' = hops + 1
        /\ \/ \E screen \in {"Daily", "Home", "Book"} : Replace(screen)
           \/ Push("Dialog")
           \/ Pop
  /\ requested' = RepaintUncovered
  /\ step' = "settle"
  /\ UNCHANGED <<screenVars, frameVars, resume, closedBook, sleeping, windowVars>>

\* Everything settled: a book that was left arms the window, and repaints are sent.
Settled ==
  /\ step = "settle"
  /\ Flush
  /\ IF closedBook /\ allowsExchangeWindow THEN Arm("book") ELSE UNCHANGED windowVars
  /\ step' = AfterLoop
  /\ closedBook' = FALSE
  /\ hops' = 0
  /\ UNCHANGED <<resume, sleeping>>

-------------------------------------------------------------------------------
(* Window::loop() in loop(), and stopRadio() wherever it was called *)

Tick ==
  /\ step = "tick"
  /\ \/ TickStays(allowsExchangeWindow) /\ GoTo("pass")
     \/ /\ StopDue(allowsExchangeWindow)
        /\ GoOn("stopping", "pass")
        /\ UNCHANGED windowVars
  /\ UNCHANGED managerVars

LowMemory ==
  /\ step = "tick" /\ ServeLowMemory(allowsExchangeWindow) /\ GoOn("stopping", "pass")
  /\ UNCHANGED <<managerVars, windowVars>>

StopRadio ==
  /\ step = "stopping" /\ Releasable
  /\ Release
  /\ GoOn(resume, "pass")
  /\ UNCHANGED managerVars

-------------------------------------------------------------------------------
(* enterDeepSleep() *)

\* The power button or the idle timer; the window must not hold the heap.
SleepRequest ==
  /\ step = "pass" /\ ~sleeping
  /\ sleeping' = TRUE
  /\ \/ RadioUp /\ step' = "stopping" /\ resume' = "paint" /\ UNCHANGED windowVars
     \/ Disarm /\ step' = "paint" /\ UNCHANGED resume
  /\ UNCHANGED <<managerVars, closedBook, hops>>

\* paintSleepFrame(): Pocket Daily keeps its own frame on the panel.
PaintOwnFrame ==
  /\ step = "paint" /\ current = "Daily"
  /\ Register
  /\ GoOn("waiting", "sleepframe")
  /\ UNCHANGED <<screenVars, action, pending, requested, render, windowVars>>

\* goToSleep(): the sleep screen is requested and loop() runs once more.
GoToSleep ==
  /\ step = "paint"
  /\ action' = "ReplaceForSleep" /\ pending' = "Sleep"
  /\ GoTo("pass")
  /\ UNCHANGED <<screenVars, requested, frameVars, windowVars>>

\* The framebuffer is returned under the lock unless it is lent already, and the window
\* is armed for sleep; with Wi-Fi up neither happens.
ReleaseSleepFrame ==
  /\ step = "sleepframe" /\ LockFree
  /\ \/ /\ framebuffer' \in BOOLEAN
        /\ Arm("sleep")
        /\ GoTo("sleepwindow")
     \/ current \notin {"Daily", "Book"} /\ Close("off") /\ UNCHANGED framebuffer
  /\ UNCHANGED <<screenVars, action, pending, requested, notified, render, waiter>>

\* runBeforeDeepSleep(): one pass of the window, until it is idle.
SleepWindow ==
  /\ step = "sleepwindow"
  /\ \/ window = "IDLE" /\ GoTo("off") /\ UNCHANGED windowVars
     \/ window # "IDLE" /\ TickStays(TRUE) /\ GoTo("sleepwindow")
     \/ window # "IDLE" /\ StopDue(TRUE) /\ GoOn("stopping", "sleepwindow") /\ UNCHANGED windowVars
  /\ UNCHANGED managerVars

\* A button ends it, and so does too little memory.
SleepWindowCut ==
  /\ step = "sleepwindow" /\ window # "IDLE"
  /\ \/ Close("off")
     \/ ServeLowMemory(TRUE) /\ GoOn("stopping", "sleepwindow") /\ UNCHANGED windowVars
  /\ UNCHANGED managerVars

\* Deep sleep ends in a boot; the power button's arms the window.
Wake == step = "off" /\ \E armed \in {"IDLE", "ARMED"} : Boot(armed)

\* stopRadio(): a start that does not end in time restarts the device.
StartTimesOut == step = "stopping" /\ worker = "running" /\ Boot("IDLE")

-------------------------------------------------------------------------------
RenderTask ==
  /\ \/ RenderWakes /\ UNCHANGED windowVars
     \/ RenderBegins /\ UNCHANGED windowVars
     \/ RenderSkips /\ UNCHANGED windowVars
     \/ /\ RenderEnds
        /\ framed' = (framed \/ window = "ARMED")
        /\ UNCHANGED <<window, trigger, waited, expired, worker, runtime>>
  /\ step # "off"
  /\ UNCHANGED mainVars

Worker == WorkerEnds /\ UNCHANGED <<managerVars, mainVars>>
Time   == (FrameWaitEnds \/ DeadlinePasses) /\ UNCHANGED <<managerVars, mainVars>>

MainTask ==
  \/ SuppressedRelease \/ HomeGesture \/ LightPanel \/ RunActivity
  \/ ActivityLoop \/ ActivityWaits \/ Awoken
  \/ SettlePop \/ SettleHome \/ SettleClose \/ SettleLaunch \/ Enter \/ EnterWaits
  \/ Handler \/ Settled
  \/ Tick \/ StopRadio \/ StartTimesOut
  \/ SleepRequest \/ PaintOwnFrame \/ GoToSleep \/ ReleaseSleepFrame \/ SleepWindow \/ Wake

\* What only the environment decides: buttons and free memory in an open window.
Cut == LowMemory \/ SleepWindowCut

Next == MainTask \/ Cut \/ RenderTask \/ Worker \/ Time

Spec == Init /\ [][Next]_vars

\* The three tasks are scheduled at one priority, timers run, a start of NimBLE ends
\* one way or the other, and gestures do not fill every pass of the loop.
LiveSpec ==
  /\ Spec
  /\ WF_vars(MainTask)
  /\ SF_vars(RunActivity)
  /\ WF_vars(RenderTask)
  /\ WF_vars(Worker)
  /\ WF_vars(Time)

-------------------------------------------------------------------------------
(* Properties *)

\* A book never runs beside NimBLE's memory, and every pass of the loop begins with
\* the radio down unless the current screen tolerates it (closeExchangeWindowFor(),
\* and Window::loop() after the pops that do not call it).
RadioYields ==
  /\ current = "Book" /\ ~sleeping => ~runtime
  /\ step = "pass" /\ RadioUp => Tolerates(current) /\ ~ReaderOpen

\* Every pass of the loop comes to its end, and every way into sleep to deep sleep: no
\* wait for a frame, a lock or the radio's worker lasts for ever.
LoopReturns ==
  (step # "pass" \/ sleeping) ~> (step = "pass" /\ ~sleeping) \/ step = "off"

\* A window that raised the radio gives it back.
RadioComesDown == RadioUp ~> ~RadioUp

\* Once navigation rests the panel shows the current screen as it was entered or
\* uncovered: no repaint is lost between its request, the pass that sends it and the
\* render task, which takes all notifications at once.
ScreenPainted == <>[](action = "none" /\ ~sleeping) => []<>painted
===============================================================================
