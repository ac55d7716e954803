---------------------------- MODULE ActivityManager ---------------------------
(***************************************************************************)
(* The screens and the render task (activities/ActivityManager.cpp).  The   *)
(* main task keeps the current activity, the stack under it and one pending *)
(* transition; the render task draws the current activity.  They share the  *)
(* rendering mutex, task notifications (kept as one bit: the render task    *)
(* takes all of them at once) and the handle of the one task that waits for *)
(* a frame.  A section of the main task under RenderLock is one action that *)
(* is enabled while the render task does not hold the lock.                 *)
(***************************************************************************)
EXTENDS Sequences, Naturals, SequencesExt

CONSTANTS
  None,       \* no activity
  MaxDepth    \* bound: activities under the current one

ASSUME DepthAssumption == MaxDepth \in Nat

VARIABLES
  current,      \* currentActivity
  stack,        \* stackActivities
  action,       \* pendingAction
  pending,      \* pendingActivity
  requested,    \* requestedUpdate: notify the render task when the pass is over
  notified,     \* the render task has a notification to take
  render,       \* the render task
  framebuffer,  \* renderer.hasFrameBuffer(): lent to the radio in the sleep path
  waiter,       \* waitingTaskHandle, and how the wait ended
  painted       \* history: the panel shows the current activity as entered or uncovered

managerVars == <<current, stack, action, pending, requested, notified, render,
                 framebuffer, waiter, painted>>
frameVars  == <<notified, render, framebuffer, waiter>>
screenVars == <<current, stack, painted>>

\* Pocket Daily (the shell), Home, a book, any other screen, the sleep screen.
Screens == {"Daily", "Home", "Book", "Dialog", "Sleep"}
ASSUME NoneAssumption == None \notin Screens
Actions == {"none", "Push", "Pop", "Replace", "ReplaceForSleep"}

ManagerTypeOK ==
  /\ current \in Screens \cup {None}
  /\ stack \in Seq(Screens) /\ Len(stack) <= MaxDepth
  /\ action \in Actions
  /\ pending \in IF action \in {"none", "Pop"} THEN {None} ELSE Screens
  /\ requested \in BOOLEAN
  /\ notified \in BOOLEAN
  /\ render \in {"idle", "woken", "drawing", "drawingEarly", "drawingGone"}
  /\ framebuffer \in BOOLEAN
  /\ waiter \in {"none", "registered", "woken"}
  /\ painted \in BOOLEAN

\* Activity::allowsExchangeWindow(): Pocket Daily and the sleep screen.
Tolerates(screen) == screen \in {"Daily", "Sleep"}

\* isReaderActivity(): a book anywhere.
ReaderOpen == current = "Book" \/ \E i \in DOMAIN stack : stack[i] = "Book"

allowsExchangeWindow ==
  /\ current # None /\ Tolerates(current)
  /\ action = "none"
  /\ ~ReaderOpen

Drawing == render \in {"drawing", "drawingEarly", "drawingGone"}

\* Mutant: a transition does not take the lock.
AnyMoment == TRUE
\* The rendering mutex, taken by a transition, is free.
LockFree == ~Drawing

-------------------------------------------------------------------------------
(* The render task *)

\* ulTaskNotifyTake()
RenderWakes ==
  /\ render = "idle" /\ notified
  /\ render' = "woken"
  /\ notified' = FALSE
  /\ UNCHANGED <<current, stack, action, pending, requested, framebuffer, waiter, painted>>

\* The lock is taken, and there is something to draw.
RenderBegins ==
  /\ render = "woken" /\ current # None /\ framebuffer
  /\ render' = "drawing"
  /\ UNCHANGED <<current, stack, action, pending, requested, notified, framebuffer, waiter, painted>>

\* The waiting task is woken by whatever pass of the render task ends next.
Woken == IF waiter = "registered" THEN "woken" ELSE waiter

\* Nothing to draw.
RenderSkips ==
  /\ render = "woken" /\ (current = None \/ ~framebuffer)
  /\ render' = "idle"
  /\ waiter' = Woken
  /\ UNCHANGED <<current, stack, action, pending, requested, notified, framebuffer, painted>>

\* activity->render() returns: the frame is on the panel.
RenderEnds ==
  /\ Drawing
  /\ render' = "idle"
  /\ painted' = (painted \/ render = "drawing")
  /\ waiter' = Woken
  /\ UNCHANGED <<current, stack, action, pending, requested, notified, framebuffer>>

-------------------------------------------------------------------------------
(* Requests of the main task.  Each operator names what it leaves alone only *)
(* through the variables it assigns; the callers complete it.                *)

\* replaceActivity() with a current activity
Replace(screen) == action' = "Replace" /\ pending' = screen

\* pushActivity(): a pending activity is dropped
Push(screen) == Len(stack) < MaxDepth /\ action' = "Push" /\ pending' = screen

\* Mutant: a pending activity is kept.
PopOnly == action' = "Pop" /\ UNCHANGED pending
\* popActivity(): a pending activity is dropped
Pop == action' = "Pop" /\ pending' = None

\* requestUpdateAndWait(): register, notify, sleep
Register ==
  /\ waiter = "none"
  /\ waiter' = "registered"
  /\ notified' = TRUE
  /\ UNCHANGED framebuffer

\* An activity leaves a frame in progress, if the lock was not held against it.
Abandoned == IF Drawing THEN "drawingGone" ELSE render

-------------------------------------------------------------------------------
(* The pending transitions *)

\* Pop onto the activity below; its handler runs next.
PopToParent ==
  /\ action = "Pop" /\ current # None /\ stack # <<>>
  /\ LockFree
  /\ current' = Last(stack)
  /\ stack' = Front(stack)
  /\ action' = "none"
  /\ painted' = FALSE
  /\ render' = Abandoned
  /\ UNCHANGED <<pending, requested, notified, framebuffer, waiter>>

\* Pop of the last activity: the lock is released before goHome().
PopLast ==
  /\ action = "Pop" /\ current # None /\ stack = <<>>
  /\ LockFree
  /\ current' = None
  /\ action' = "none"
  /\ painted' = FALSE
  /\ render' = Abandoned
  /\ UNCHANGED <<stack, pending, requested, notified, framebuffer, waiter>>

\* goHome() without a current activity enters Home at once.
HomeAfterPop ==
  /\ current = None
  /\ current' = "Home"
  /\ UNCHANGED <<stack, action, pending, requested, painted, frameVars>>

\* Push, Replace or ReplaceForSleep, once the radio gave way to the new screen.
Launch ==
  /\ action \in {"Push", "Replace", "ReplaceForSleep"} /\ pending # None
  /\ LockFree
  /\ stack' = IF action = "Push" THEN Append(stack, current) ELSE <<>>
  /\ current' = pending
  /\ pending' = None
  /\ action' = "none"
  /\ painted' = FALSE
  /\ render' = Abandoned
  /\ UNCHANGED <<requested, notified, framebuffer, waiter>>

\* The end of the pass: deferred requests become one notification.
Flush ==
  /\ action = "none"
  /\ notified' = (notified \/ requested)
  /\ requested' = FALSE
  /\ UNCHANGED <<screenVars, action, pending, render, framebuffer, waiter>>

-------------------------------------------------------------------------------
(* Properties *)

\* The render task never draws an activity that the main task has destroyed, moved
\* to the stack or replaced meanwhile (the lock of renderTaskLoop() and loop()).
DrawsCurrentScreen == render # "drawingGone"
===============================================================================
