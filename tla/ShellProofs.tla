------------------------------ MODULE ShellProofs ------------------------------
(***************************************************************************)
(* What the three tasks of the shell keep of each other, for stacks of any *)
(* depth and any number of transitions in a pass: the screen that is drawn *)
(* is the current one, the radio's memory is never freed under its worker, *)
(* and the radio yields to every screen that does not tolerate it.         *)
(***************************************************************************)
EXTENDS Shell, TLAPS

\* There is no current activity only between a last Pop and Home; a Push still has
\* the room it was asked with.
ScreenInv ==
  /\ current = None <=> step = "homeless"
  /\ step = "homeless" => action = "none"
  /\ action = "Push" => Len(stack) < MaxDepth
  /\ step = "launch" => action \in {"Push", "Replace", "ReplaceForSleep"}

\* The steps on the way to deep sleep are taken only there, those of an ordinary pass
\* never; a wait or a stop of the radio goes on in its own path.
PathInv ==
  /\ step \in {"paint", "sleepframe", "sleepwindow", "off"} => sleeping
  /\ step = "tick" => ~sleeping
  /\ step = "waiting" =>
       /\ resume \in {"settle", "sleepframe"}
       /\ resume = "sleepframe" => sleeping
  /\ step = "stopping" =>
       /\ resume \in {"pass", "launch", "paint", "sleepwindow", "off"}
       /\ resume \in {"paint", "sleepwindow", "off"} => sleeping
       /\ resume = "launch" => action \in {"Push", "Replace", "ReplaceForSleep"}

\* While the radio is up no book is open, and the screen about to be entered tolerates
\* it; on the way to deep sleep it is up only in the window made for it.
RadioInv ==
  RadioUp =>
    IF sleeping
    THEN step \in {"stopping", "sleepwindow", "off"}
    ELSE /\ ~ReaderOpen
         /\ step = "pass" => Tolerates(current)
         /\ step = "launch" => Tolerates(pending)

ScreensTyped ==
  /\ current \in Screens \cup {None}
  /\ stack \in Seq(Screens) /\ Len(stack) <= MaxDepth
  /\ action \in Actions
  /\ pending \in IF action \in {"none", "Pop"} THEN {None} ELSE Screens

FramesTyped ==
  /\ requested \in BOOLEAN
  /\ notified \in BOOLEAN
  /\ render \in {"idle", "woken", "drawing", "drawingEarly", "drawingGone"}
  /\ framebuffer \in BOOLEAN
  /\ waiter \in {"none", "registered", "woken"}
  /\ painted \in BOOLEAN

MainTyped ==
  /\ step \in Steps
  /\ resume \in Steps
  /\ closedBook \in BOOLEAN
  /\ sleeping \in BOOLEAN
  /\ hops \in 0 .. MaxHops

\* What popping and pushing do to a stack of bounded depth.
LEMMA StackPops ==
  ASSUME NEW S, NEW s \in Seq(S), s # <<>>, NEW d \in Nat, Len(s) <= d
  PROVE  Last(s) \in S /\ Front(s) \in Seq(S) /\ Len(Front(s)) <= d
  BY DEF Last, Front

LEMMA StackPushes ==
  ASSUME NEW S, NEW s \in Seq(S), NEW e \in S, NEW d \in Nat, Len(s) < d
  PROVE  Append(s, e) \in Seq(S) /\ Len(Append(s, e)) <= d
  OBVIOUS

LEMMA StackEmpty ==
  ASSUME NEW S, NEW d \in Nat
  PROVE  <<>> \in Seq(S) /\ Len(<<>>) <= d
  OBVIOUS


\* TypeOK in parts that no step disturbs together.
Typed == ScreensTyped /\ FramesTyped /\ WindowTypeOK /\ MainTyped

ShellInv ==
  /\ Typed /\ ScreenInv /\ PathInv /\ RadioInv
  /\ RadioMemoryReturned /\ DrawsCurrentScreen

LEMMA TypedIsTypeOK == Typed <=> TypeOK
  BY DEF Typed, ScreensTyped, FramesTyped, MainTyped, TypeOK, ManagerTypeOK

LEMMA InitEstablishes == Init => ShellInv
<1> SUFFICES ASSUME Init PROVE ShellInv
  OBVIOUS
<1>1. ScreensTyped
  <2>1. current \in Screens /\ stack = <<>> /\ action = "none" /\ pending = None
    BY DEF Init, Landing, Screens
  <2>2. stack \in Seq(Screens) /\ Len(stack) <= MaxDepth
    BY <2>1, StackEmpty, DepthAssumption DEF DepthAssumption
  <2>3. QED
    BY <2>1, <2>2 DEF ScreensTyped, Actions
<1>2. FramesTyped /\ WindowTypeOK
  BY DEF Init, WindowInit, FramesTyped, WindowTypeOK, Triggers
<1>3. MainTyped
  <2>1. step = "pass" /\ resume = "pass" /\ closedBook = FALSE /\ sleeping = FALSE /\ hops = 0
    BY DEF Init
  <2>2. 0 \in 0 .. MaxHops
    BY HopsAssumption DEF HopsAssumption
  <2>3. QED
    BY <2>1, <2>2 DEF MainTyped, Steps
<1>4. ScreenInv /\ PathInv /\ RadioInv
  BY NoneAssumption DEF Init, WindowInit, Landing, ScreenInv, PathInv, RadioInv,
     RadioUp, NoneAssumption, Screens
<1>5. RadioMemoryReturned /\ DrawsCurrentScreen
  BY DEF Init, WindowInit, RadioMemoryReturned, RadioUp, DrawsCurrentScreen
<1>6. QED
  BY <1>1, <1>2, <1>3, <1>4, <1>5 DEF ShellInv, Typed

\* No step leaves the screens, the stack's bound or the pending transition ill-typed.
LEMMA ScreensKept ==
  ASSUME ScreensTyped, ScreenInv, [Next]_vars
  PROVE  ScreensTyped'
<1> USE DEF ScreensTyped, ScreenInv, Screens, Actions, Landing, managerVars, screenVars,
       GoTo, GoOn
<1>1. CASE UNCHANGED vars
  BY <1>1 DEF vars
<1>2. CASE SuppressedRelease
  BY <1>2 DEF SuppressedRelease, AfterLoop
<1>3. CASE HomeGesture
  BY <1>3 DEF HomeGesture, Replace, AfterLoop
<1>4. CASE LightPanel
  BY <1>4 DEF LightPanel, Push, AfterLoop
<1>5. CASE RunActivity
  BY <1>5 DEF RunActivity
<1>6. CASE ActivityLoop
  BY <1>6 DEF ActivityLoop, Asked, Replace, Push, Pop
<1>7. CASE ActivityWaits
  BY <1>7 DEF ActivityWaits, Register
<1>8. CASE Awoken
  BY <1>8 DEF Awoken
<1>9. CASE SettlePop
  <2>1. CASE PopToParent
    <3>1. Last(stack) \in Screens /\ Front(stack) \in Seq(Screens) /\ Len(Front(stack)) <= MaxDepth
      BY <2>1, StackPops, DepthAssumption DEF PopToParent, DepthAssumption, ScreensTyped
    <3>2. current' \in Screens /\ stack' \in Seq(Screens) /\ Len(stack') <= MaxDepth
      BY <2>1, <3>1 DEF PopToParent
    <3>3. action' = "none" /\ pending' = None
      BY <2>1 DEF PopToParent, ScreensTyped
    <3>4. QED
      BY <3>2, <3>3 DEF ScreensTyped, Actions
  <2>2. CASE PopLast
    <3>1. current' = None /\ UNCHANGED stack /\ action' = "none" /\ pending' = None
      BY <2>2 DEF PopLast, ScreensTyped
    <3>2. QED
      BY <3>1 DEF ScreensTyped, Actions
  <2>3. QED
    BY <1>9, <2>1, <2>2 DEF SettlePop
<1>10. CASE SettleHome
  BY <1>10 DEF SettleHome, HomeAfterPop
<1>11. CASE SettleClose
  BY <1>11 DEF SettleClose, StaysOpenFor, Disarm
<1>12. CASE SettleLaunch
  <2>1. current' \in Screens /\ action' = "none" /\ pending' = None
    BY <1>12 DEF SettleLaunch, Launch, ScreensTyped
  <2>2. CASE action = "Push"
    <3>1. stack' = Append(stack, current) /\ current \in Screens
      BY <1>12, <2>2 DEF SettleLaunch, Launch, ScreensTyped, ScreenInv, GoTo
    <3>2. stack' \in Seq(Screens) /\ Len(stack') <= MaxDepth
      BY <2>2, <3>1, StackPushes, DepthAssumption DEF ScreenInv, ScreensTyped,
         DepthAssumption
    <3>3. QED
      BY <2>1, <3>2 DEF ScreensTyped, Actions
  <2>3. CASE action # "Push"
    <3>1. stack' = <<>>
      BY <1>12, <2>3 DEF SettleLaunch, Launch
    <3>2. stack' \in Seq(Screens) /\ Len(stack') <= MaxDepth
      BY <3>1, StackEmpty, DepthAssumption DEF DepthAssumption
    <3>3. QED
      BY <2>1, <3>2 DEF ScreensTyped, Actions
  <2>4. QED
    BY <2>2, <2>3
<1>13. CASE Enter
  BY <1>13 DEF Enter, Pop
<1>14. CASE EnterWaits
  BY <1>14 DEF EnterWaits, Register
<1>15. CASE Handler
  BY <1>15 DEF Handler, Replace, Push, Pop
<1>16. CASE Settled
  BY <1>16 DEF Settled, Flush, Arm, AfterLoop
<1>17. CASE Tick
  BY <1>17 DEF Tick, TickStays, TickIdle, TickDrop, TickStartFails, TickStart,
     TickFinish, TickServe, StopDue, Disarm, Release
<1>18. CASE StopRadio
  BY <1>18 DEF StopRadio, Releasable, Release
<1>19. CASE StartTimesOut
  <2>1. current' \in Screens /\ stack' = <<>> /\ action' = "none" /\ pending' = None
    BY <1>19 DEF StartTimesOut, Boot, Landing, Screens
  <2>2. stack' \in Seq(Screens) /\ Len(stack') <= MaxDepth
    BY <2>1, StackEmpty, DepthAssumption DEF DepthAssumption
  <2>3. QED
    BY <2>1, <2>2 DEF ScreensTyped, Actions
<1>20. CASE SleepRequest
  BY <1>20 DEF SleepRequest, Disarm
<1>21. CASE PaintOwnFrame
  BY <1>21 DEF PaintOwnFrame, Register
<1>22. CASE GoToSleep
  BY <1>22 DEF GoToSleep
<1>23. CASE ReleaseSleepFrame
  BY <1>23 DEF ReleaseSleepFrame, Arm, Close, Disarm
<1>24. CASE SleepWindow
  BY <1>24 DEF SleepWindow, TickStays, TickIdle, TickDrop, TickStartFails, TickStart,
     TickFinish, TickServe, StopDue, Disarm, Release
<1>25. CASE Wake
  <2>1. current' \in Screens /\ stack' = <<>> /\ action' = "none" /\ pending' = None
    BY <1>25 DEF Wake, Boot, Landing, Screens
  <2>2. stack' \in Seq(Screens) /\ Len(stack') <= MaxDepth
    BY <2>1, StackEmpty, DepthAssumption DEF DepthAssumption
  <2>3. QED
    BY <2>1, <2>2 DEF ScreensTyped, Actions
<1>26. CASE LowMemory
  BY <1>26 DEF LowMemory, ServeLowMemory, StopDue
<1>27. CASE SleepWindowCut
  BY <1>27 DEF SleepWindowCut, Close, Disarm, ServeLowMemory, StopDue
<1>28. CASE RenderTask
  BY <1>28 DEF RenderTask, RenderWakes, RenderBegins, RenderSkips, RenderEnds, Woken
<1>29. CASE Worker
  BY <1>29 DEF Worker, WorkerEnds
<1>30. CASE Time
  BY <1>30 DEF Time, FrameWaitEnds, DeadlinePasses
<1>31. QED
  BY <1>1, <1>2, <1>3, <1>4, <1>5, <1>6, <1>7, <1>8, <1>9, <1>10, <1>11, <1>12, <1>13,
     <1>14, <1>15, <1>16, <1>17, <1>18, <1>19, <1>20, <1>21, <1>22, <1>23, <1>24, <1>25,
     <1>26, <1>27, <1>28, <1>29, <1>30 DEF Next, MainTask, Cut

LEMMA FramesKept ==
  ASSUME FramesTyped, [Next]_vars
  PROVE  FramesTyped'
<1> USE DEF FramesTyped, RepaintUncovered, screenVars, managerVars, frameVars, GoTo, GoOn
<1>1. CASE UNCHANGED vars
  BY <1>1 DEF vars
<1>2. CASE SuppressedRelease
  BY <1>2 DEF SuppressedRelease, AfterLoop
<1>3. CASE HomeGesture
  BY <1>3 DEF HomeGesture, Replace, AfterLoop
<1>4. CASE LightPanel
  BY <1>4 DEF LightPanel, Push, AfterLoop
<1>5. CASE RunActivity
  BY <1>5 DEF RunActivity
<1>6. CASE ActivityLoop
  BY <1>6 DEF ActivityLoop, Asked, Replace, Push, Pop
<1>7. CASE ActivityWaits
  BY <1>7 DEF ActivityWaits, Register
<1>8. CASE Awoken
  BY <1>8 DEF Awoken
<1>9. CASE SettlePop
  BY <1>9 DEF SettlePop, PopToParent, PopLast, Abandoned
<1>10. CASE SettleHome
  BY <1>10 DEF SettleHome, HomeAfterPop
<1>11. CASE SettleClose
  BY <1>11 DEF SettleClose, StaysOpenFor, Disarm
<1>12. CASE SettleLaunch
  BY <1>12 DEF SettleLaunch, Launch, Abandoned
<1>13. CASE Enter
  BY <1>13 DEF Enter, Pop
<1>14. CASE EnterWaits
  BY <1>14 DEF EnterWaits, Register
<1>15. CASE Handler
  BY <1>15 DEF Handler, Replace, Push, Pop
<1>16. CASE Settled
  BY <1>16 DEF Settled, Flush, Arm, AfterLoop
<1>17. CASE Tick
  BY <1>17 DEF Tick, TickStays, TickIdle, TickDrop, TickStartFails, TickStart,
     TickFinish, TickServe, StopDue, Disarm, Release
<1>18. CASE StopRadio
  BY <1>18 DEF StopRadio, Releasable, Release
<1>19. CASE StartTimesOut
  BY <1>19 DEF StartTimesOut, Boot
<1>20. CASE SleepRequest
  BY <1>20 DEF SleepRequest, Disarm
<1>21. CASE PaintOwnFrame
  BY <1>21 DEF PaintOwnFrame, Register
<1>22. CASE GoToSleep
  BY <1>22 DEF GoToSleep
<1>23. CASE ReleaseSleepFrame
  BY <1>23 DEF ReleaseSleepFrame, Arm, Close, Disarm
<1>24. CASE SleepWindow
  BY <1>24 DEF SleepWindow, TickStays, TickIdle, TickDrop, TickStartFails, TickStart,
     TickFinish, TickServe, StopDue, Disarm, Release
<1>25. CASE Wake
  BY <1>25 DEF Wake, Boot
<1>26. CASE LowMemory
  BY <1>26 DEF LowMemory, ServeLowMemory, StopDue
<1>27. CASE SleepWindowCut
  BY <1>27 DEF SleepWindowCut, Close, Disarm, ServeLowMemory, StopDue
<1>28. CASE RenderTask
  BY <1>28 DEF RenderTask, RenderWakes, RenderBegins, RenderSkips, RenderEnds, Woken
<1>29. CASE Worker
  BY <1>29 DEF Worker, WorkerEnds
<1>30. CASE Time
  BY <1>30 DEF Time, FrameWaitEnds, DeadlinePasses
<1>31. QED
  BY <1>1, <1>2, <1>3, <1>4, <1>5, <1>6, <1>7, <1>8, <1>9, <1>10, <1>11, <1>12, <1>13,
     <1>14, <1>15, <1>16, <1>17, <1>18, <1>19, <1>20, <1>21, <1>22, <1>23, <1>24, <1>25,
     <1>26, <1>27, <1>28, <1>29, <1>30 DEF Next, MainTask, Cut

LEMMA WindowKept ==
  ASSUME WindowTypeOK, [Next]_vars
  PROVE  WindowTypeOK'
<1> USE DEF WindowTypeOK, Triggers, RadioUp, windowVars, GoTo, GoOn
<1>1. CASE UNCHANGED vars
  BY <1>1 DEF vars
<1>2. CASE SuppressedRelease
  BY <1>2 DEF SuppressedRelease, AfterLoop
<1>3. CASE HomeGesture
  BY <1>3 DEF HomeGesture, Replace, AfterLoop
<1>4. CASE LightPanel
  BY <1>4 DEF LightPanel, Push, AfterLoop
<1>5. CASE RunActivity
  BY <1>5 DEF RunActivity
<1>6. CASE ActivityLoop
  BY <1>6 DEF ActivityLoop, Asked, Replace, Push, Pop
<1>7. CASE ActivityWaits
  BY <1>7 DEF ActivityWaits, Register
<1>8. CASE Awoken
  BY <1>8 DEF Awoken
<1>9. CASE SettlePop
  BY <1>9 DEF SettlePop, PopToParent, PopLast, Abandoned
<1>10. CASE SettleHome
  BY <1>10 DEF SettleHome, HomeAfterPop
<1>11. CASE SettleClose
  BY <1>11 DEF SettleClose, StaysOpenFor, Disarm
<1>12. CASE SettleLaunch
  BY <1>12 DEF SettleLaunch, Launch, Abandoned
<1>13. CASE Enter
  BY <1>13 DEF Enter, Pop
<1>14. CASE EnterWaits
  BY <1>14 DEF EnterWaits, Register
<1>15. CASE Handler
  BY <1>15 DEF Handler, Replace, Push, Pop
<1>16. CASE Settled
  BY <1>16 DEF Settled, Flush, Arm, AfterLoop
<1>17. CASE Tick
  BY <1>17 DEF Tick, TickStays, TickIdle, TickDrop, TickStartFails, TickStart,
     TickFinish, TickServe, StopDue, Disarm, Release
<1>18. CASE StopRadio
  BY <1>18 DEF StopRadio, Releasable, Release
<1>19. CASE StartTimesOut
  BY <1>19 DEF StartTimesOut, Boot
<1>20. CASE SleepRequest
  BY <1>20 DEF SleepRequest, Disarm
<1>21. CASE PaintOwnFrame
  BY <1>21 DEF PaintOwnFrame, Register
<1>22. CASE GoToSleep
  BY <1>22 DEF GoToSleep
<1>23. CASE ReleaseSleepFrame
  BY <1>23 DEF ReleaseSleepFrame, Arm, Close, Disarm
<1>24. CASE SleepWindow
  BY <1>24 DEF SleepWindow, TickStays, TickIdle, TickDrop, TickStartFails, TickStart,
     TickFinish, TickServe, StopDue, Disarm, Release
<1>25. CASE Wake
  BY <1>25 DEF Wake, Boot
<1>26. CASE LowMemory
  BY <1>26 DEF LowMemory, ServeLowMemory, StopDue
<1>27. CASE SleepWindowCut
  BY <1>27 DEF SleepWindowCut, Close, Disarm, ServeLowMemory, StopDue
<1>28. CASE RenderTask
  BY <1>28 DEF RenderTask, RenderWakes, RenderBegins, RenderSkips, RenderEnds, Woken
<1>29. CASE Worker
  BY <1>29 DEF Worker, WorkerEnds
<1>30. CASE Time
  BY <1>30 DEF Time, FrameWaitEnds, DeadlinePasses
<1>31. QED
  BY <1>1, <1>2, <1>3, <1>4, <1>5, <1>6, <1>7, <1>8, <1>9, <1>10, <1>11, <1>12, <1>13,
     <1>14, <1>15, <1>16, <1>17, <1>18, <1>19, <1>20, <1>21, <1>22, <1>23, <1>24, <1>25,
     <1>26, <1>27, <1>28, <1>29, <1>30 DEF Next, MainTask, Cut

LEMMA MainKept ==
  ASSUME MainTyped, [Next]_vars
  PROVE  MainTyped'
<1> USE DEF MainTyped, Steps, mainVars, GoTo, GoOn
<1>1. CASE UNCHANGED vars
  BY <1>1 DEF vars
<1>2. CASE SuppressedRelease
  BY <1>2 DEF SuppressedRelease, AfterLoop
<1>3. CASE HomeGesture
  BY <1>3 DEF HomeGesture, Replace, AfterLoop
<1>4. CASE LightPanel
  BY <1>4 DEF LightPanel, Push, AfterLoop
<1>5. CASE RunActivity
  BY <1>5 DEF RunActivity
<1>6. CASE ActivityLoop
  BY <1>6 DEF ActivityLoop, Asked, Replace, Push, Pop
<1>7. CASE ActivityWaits
  BY <1>7 DEF ActivityWaits, Register
<1>8. CASE Awoken
  BY <1>8 DEF Awoken
<1>9. CASE SettlePop
  BY <1>9 DEF SettlePop, PopToParent, PopLast, Abandoned
<1>10. CASE SettleHome
  BY <1>10 DEF SettleHome, HomeAfterPop
<1>11. CASE SettleClose
  BY <1>11 DEF SettleClose, StaysOpenFor, Disarm
<1>12. CASE SettleLaunch
  BY <1>12 DEF SettleLaunch, Launch, Abandoned
<1>13. CASE Enter
  <2>1. hops' = hops \/ (hops < MaxHops /\ hops' = hops + 1)
    BY <1>13 DEF Enter
  <2>2. hops' \in 0 .. MaxHops
    BY <2>1, HopsAssumption DEF MainTyped, HopsAssumption
  <2>3. step' = "settle" /\ UNCHANGED <<resume, closedBook, sleeping>>
    BY <1>13 DEF Enter
  <2>4. QED
    BY <2>2, <2>3 DEF MainTyped, Steps
<1>14. CASE EnterWaits
  BY <1>14 DEF EnterWaits, Register
<1>15. CASE Handler
  <2>1. hops' = hops \/ (hops < MaxHops /\ hops' = hops + 1)
    BY <1>15 DEF Handler
  <2>2. hops' \in 0 .. MaxHops
    BY <2>1, HopsAssumption DEF MainTyped, HopsAssumption
  <2>3. step' = "settle" /\ UNCHANGED <<resume, closedBook, sleeping>>
    BY <1>15 DEF Handler
  <2>4. QED
    BY <2>2, <2>3 DEF MainTyped, Steps
<1>16. CASE Settled
  <2>1. step' \in {"sleepframe", "tick"} /\ closedBook' = FALSE /\ hops' = 0 /\ UNCHANGED <<resume, sleeping>>
    BY <1>16 DEF Settled, AfterLoop
  <2>2. 0 \in 0 .. MaxHops
    BY HopsAssumption DEF HopsAssumption
  <2>3. QED
    BY <2>1, <2>2 DEF MainTyped, Steps
<1>17. CASE Tick
  BY <1>17 DEF Tick, TickStays, TickIdle, TickDrop, TickStartFails, TickStart,
     TickFinish, TickServe, StopDue, Disarm, Release
<1>18. CASE StopRadio
  BY <1>18 DEF StopRadio, Releasable, Release
<1>19. CASE StartTimesOut
  <2>1. step' = "pass" /\ resume' = "pass" /\ closedBook' = FALSE /\ sleeping' = FALSE /\ hops' = 0
    BY <1>19 DEF StartTimesOut, Boot
  <2>2. 0 \in 0 .. MaxHops
    BY HopsAssumption DEF HopsAssumption
  <2>3. QED
    BY <2>1, <2>2 DEF MainTyped, Steps
<1>20. CASE SleepRequest
  BY <1>20 DEF SleepRequest, Disarm
<1>21. CASE PaintOwnFrame
  BY <1>21 DEF PaintOwnFrame, Register
<1>22. CASE GoToSleep
  BY <1>22 DEF GoToSleep
<1>23. CASE ReleaseSleepFrame
  BY <1>23 DEF ReleaseSleepFrame, Arm, Close, Disarm
<1>24. CASE SleepWindow
  BY <1>24 DEF SleepWindow, TickStays, TickIdle, TickDrop, TickStartFails, TickStart,
     TickFinish, TickServe, StopDue, Disarm, Release
<1>25. CASE Wake
  <2>1. step' = "pass" /\ resume' = "pass" /\ closedBook' = FALSE /\ sleeping' = FALSE /\ hops' = 0
    BY <1>25 DEF Wake, Boot
  <2>2. 0 \in 0 .. MaxHops
    BY HopsAssumption DEF HopsAssumption
  <2>3. QED
    BY <2>1, <2>2 DEF MainTyped, Steps
<1>26. CASE LowMemory
  BY <1>26 DEF LowMemory, ServeLowMemory, StopDue
<1>27. CASE SleepWindowCut
  BY <1>27 DEF SleepWindowCut, Close, Disarm, ServeLowMemory, StopDue
<1>28. CASE RenderTask
  BY <1>28 DEF RenderTask, RenderWakes, RenderBegins, RenderSkips, RenderEnds, Woken
<1>29. CASE Worker
  BY <1>29 DEF Worker, WorkerEnds
<1>30. CASE Time
  BY <1>30 DEF Time, FrameWaitEnds, DeadlinePasses
<1>31. QED
  BY <1>1, <1>2, <1>3, <1>4, <1>5, <1>6, <1>7, <1>8, <1>9, <1>10, <1>11, <1>12, <1>13,
     <1>14, <1>15, <1>16, <1>17, <1>18, <1>19, <1>20, <1>21, <1>22, <1>23, <1>24, <1>25,
     <1>26, <1>27, <1>28, <1>29, <1>30 DEF Next, MainTask, Cut

\* A transition takes the lock, so it never finds a frame in progress.
LEMMA DrawsKept ==
  ASSUME DrawsCurrentScreen, [Next]_vars
  PROVE  DrawsCurrentScreen'
<1> USE DEF DrawsCurrentScreen, LockFree, Drawing, managerVars, screenVars, frameVars,
       GoTo, GoOn
<1>1. CASE UNCHANGED vars
  BY <1>1 DEF vars
<1>2. CASE SuppressedRelease
  BY <1>2 DEF SuppressedRelease, AfterLoop
<1>3. CASE HomeGesture
  BY <1>3 DEF HomeGesture, Replace, AfterLoop
<1>4. CASE LightPanel
  BY <1>4 DEF LightPanel, Push, AfterLoop
<1>5. CASE RunActivity
  BY <1>5 DEF RunActivity
<1>6. CASE ActivityLoop
  BY <1>6 DEF ActivityLoop, Asked, Replace, Push, Pop
<1>7. CASE ActivityWaits
  BY <1>7 DEF ActivityWaits, Register
<1>8. CASE Awoken
  BY <1>8 DEF Awoken
<1>9. CASE SettlePop
  BY <1>9 DEF SettlePop, PopToParent, PopLast, Abandoned
<1>10. CASE SettleHome
  BY <1>10 DEF SettleHome, HomeAfterPop
<1>11. CASE SettleClose
  BY <1>11 DEF SettleClose, StaysOpenFor, Disarm
<1>12. CASE SettleLaunch
  BY <1>12 DEF SettleLaunch, Launch, Abandoned
<1>13. CASE Enter
  BY <1>13 DEF Enter, Pop
<1>14. CASE EnterWaits
  BY <1>14 DEF EnterWaits, Register
<1>15. CASE Handler
  BY <1>15 DEF Handler, Replace, Push, Pop
<1>16. CASE Settled
  BY <1>16 DEF Settled, Flush, Arm, AfterLoop
<1>17. CASE Tick
  BY <1>17 DEF Tick, TickStays, TickIdle, TickDrop, TickStartFails, TickStart,
     TickFinish, TickServe, StopDue, Disarm, Release
<1>18. CASE StopRadio
  BY <1>18 DEF StopRadio, Releasable, Release
<1>19. CASE StartTimesOut
  BY <1>19 DEF StartTimesOut, Boot
<1>20. CASE SleepRequest
  BY <1>20 DEF SleepRequest, Disarm
<1>21. CASE PaintOwnFrame
  BY <1>21 DEF PaintOwnFrame, Register
<1>22. CASE GoToSleep
  BY <1>22 DEF GoToSleep
<1>23. CASE ReleaseSleepFrame
  BY <1>23 DEF ReleaseSleepFrame, Arm, Close, Disarm
<1>24. CASE SleepWindow
  BY <1>24 DEF SleepWindow, TickStays, TickIdle, TickDrop, TickStartFails, TickStart,
     TickFinish, TickServe, StopDue, Disarm, Release
<1>25. CASE Wake
  BY <1>25 DEF Wake, Boot
<1>26. CASE LowMemory
  BY <1>26 DEF LowMemory, ServeLowMemory, StopDue
<1>27. CASE SleepWindowCut
  BY <1>27 DEF SleepWindowCut, Close, Disarm, ServeLowMemory, StopDue
<1>28. CASE RenderTask
  BY <1>28 DEF RenderTask, RenderWakes, RenderBegins, RenderSkips, RenderEnds, Woken
<1>29. CASE Worker
  BY <1>29 DEF Worker, WorkerEnds
<1>30. CASE Time
  BY <1>30 DEF Time, FrameWaitEnds, DeadlinePasses
<1>31. QED
  BY <1>1, <1>2, <1>3, <1>4, <1>5, <1>6, <1>7, <1>8, <1>9, <1>10, <1>11, <1>12, <1>13,
     <1>14, <1>15, <1>16, <1>17, <1>18, <1>19, <1>20, <1>21, <1>22, <1>23, <1>24, <1>25,
     <1>26, <1>27, <1>28, <1>29, <1>30 DEF Next, MainTask, Cut

\* The radio is given up only once its worker is done.
LEMMA MemoryKept ==
  ASSUME RadioMemoryReturned, [Next]_vars
  PROVE  RadioMemoryReturned'
<1> USE DEF RadioMemoryReturned, RadioUp, windowVars, GoTo, GoOn
<1>1. CASE UNCHANGED vars
  BY <1>1 DEF vars
<1>2. CASE SuppressedRelease
  BY <1>2 DEF SuppressedRelease, AfterLoop
<1>3. CASE HomeGesture
  BY <1>3 DEF HomeGesture, Replace, AfterLoop
<1>4. CASE LightPanel
  BY <1>4 DEF LightPanel, Push, AfterLoop
<1>5. CASE RunActivity
  BY <1>5 DEF RunActivity
<1>6. CASE ActivityLoop
  BY <1>6 DEF ActivityLoop, Asked, Replace, Push, Pop
<1>7. CASE ActivityWaits
  BY <1>7 DEF ActivityWaits, Register
<1>8. CASE Awoken
  BY <1>8 DEF Awoken
<1>9. CASE SettlePop
  BY <1>9 DEF SettlePop, PopToParent, PopLast, Abandoned
<1>10. CASE SettleHome
  BY <1>10 DEF SettleHome, HomeAfterPop
<1>11. CASE SettleClose
  BY <1>11 DEF SettleClose, StaysOpenFor, Disarm
<1>12. CASE SettleLaunch
  BY <1>12 DEF SettleLaunch, Launch, Abandoned
<1>13. CASE Enter
  BY <1>13 DEF Enter, Pop
<1>14. CASE EnterWaits
  BY <1>14 DEF EnterWaits, Register
<1>15. CASE Handler
  BY <1>15 DEF Handler, Replace, Push, Pop
<1>16. CASE Settled
  BY <1>16 DEF Settled, Flush, Arm, AfterLoop
<1>17. CASE Tick
  BY <1>17 DEF Tick, TickStays, TickIdle, TickDrop, TickStartFails, TickStart,
     TickFinish, TickServe, StopDue, Disarm, Release
<1>18. CASE StopRadio
  BY <1>18 DEF StopRadio, Releasable, Release
<1>19. CASE StartTimesOut
  BY <1>19 DEF StartTimesOut, Boot
<1>20. CASE SleepRequest
  BY <1>20 DEF SleepRequest, Disarm
<1>21. CASE PaintOwnFrame
  BY <1>21 DEF PaintOwnFrame, Register
<1>22. CASE GoToSleep
  BY <1>22 DEF GoToSleep
<1>23. CASE ReleaseSleepFrame
  BY <1>23 DEF ReleaseSleepFrame, Arm, Close, Disarm
<1>24. CASE SleepWindow
  BY <1>24 DEF SleepWindow, TickStays, TickIdle, TickDrop, TickStartFails, TickStart,
     TickFinish, TickServe, StopDue, Disarm, Release
<1>25. CASE Wake
  BY <1>25 DEF Wake, Boot
<1>26. CASE LowMemory
  BY <1>26 DEF LowMemory, ServeLowMemory, StopDue
<1>27. CASE SleepWindowCut
  BY <1>27 DEF SleepWindowCut, Close, Disarm, ServeLowMemory, StopDue
<1>28. CASE RenderTask
  BY <1>28 DEF RenderTask, RenderWakes, RenderBegins, RenderSkips, RenderEnds, Woken
<1>29. CASE Worker
  BY <1>29 DEF Worker, WorkerEnds
<1>30. CASE Time
  BY <1>30 DEF Time, FrameWaitEnds, DeadlinePasses
<1>31. QED
  BY <1>1, <1>2, <1>3, <1>4, <1>5, <1>6, <1>7, <1>8, <1>9, <1>10, <1>11, <1>12, <1>13,
     <1>14, <1>15, <1>16, <1>17, <1>18, <1>19, <1>20, <1>21, <1>22, <1>23, <1>24, <1>25,
     <1>26, <1>27, <1>28, <1>29, <1>30 DEF Next, MainTask, Cut

LEMMA ScreenInvKept ==
  ASSUME ScreensTyped, ScreenInv, PathInv, [Next]_vars
  PROVE  ScreenInv'
<1> USE NoneAssumption DEF NoneAssumption, ScreensTyped, ScreenInv, PathInv, Screens,
       Actions, Landing, Front, Last,
          managerVars, screenVars, mainVars, GoTo, GoOn
<1>1. CASE UNCHANGED vars
  BY <1>1 DEF vars
<1>2. CASE SuppressedRelease
  BY <1>2 DEF SuppressedRelease, AfterLoop
<1>3. CASE HomeGesture
  BY <1>3 DEF HomeGesture, Replace, AfterLoop
<1>4. CASE LightPanel
  BY <1>4 DEF LightPanel, Push, AfterLoop
<1>5. CASE RunActivity
  BY <1>5 DEF RunActivity
<1>6. CASE ActivityLoop
  BY <1>6 DEF ActivityLoop, Asked, Replace, Push, Pop
<1>7. CASE ActivityWaits
  BY <1>7 DEF ActivityWaits, Register
<1>8. CASE Awoken
  BY <1>8 DEF Awoken
<1>9. CASE SettlePop
  BY <1>9 DEF SettlePop, PopToParent, PopLast, Abandoned
<1>10. CASE SettleHome
  BY <1>10 DEF SettleHome, HomeAfterPop
<1>11. CASE SettleClose
  BY <1>11 DEF SettleClose, StaysOpenFor, Disarm
<1>12. CASE SettleLaunch
  BY <1>12 DEF SettleLaunch, Launch, Abandoned
<1>13. CASE Enter
  BY <1>13 DEF Enter, Pop
<1>14. CASE EnterWaits
  BY <1>14 DEF EnterWaits, Register
<1>15. CASE Handler
  BY <1>15 DEF Handler, Replace, Push, Pop
<1>16. CASE Settled
  BY <1>16 DEF Settled, Flush, Arm, AfterLoop
<1>17. CASE Tick
  BY <1>17 DEF Tick, TickStays, TickIdle, TickDrop, TickStartFails, TickStart,
     TickFinish, TickServe, StopDue, Disarm, Release
<1>18. CASE StopRadio
  BY <1>18 DEF StopRadio, Releasable, Release
<1>19. CASE StartTimesOut
  BY <1>19 DEF StartTimesOut, Boot
<1>20. CASE SleepRequest
  BY <1>20 DEF SleepRequest, Disarm
<1>21. CASE PaintOwnFrame
  BY <1>21 DEF PaintOwnFrame, Register
<1>22. CASE GoToSleep
  BY <1>22 DEF GoToSleep
<1>23. CASE ReleaseSleepFrame
  BY <1>23 DEF ReleaseSleepFrame, Arm, Close, Disarm
<1>24. CASE SleepWindow
  BY <1>24 DEF SleepWindow, TickStays, TickIdle, TickDrop, TickStartFails, TickStart,
     TickFinish, TickServe, StopDue, Disarm, Release
<1>25. CASE Wake
  BY <1>25 DEF Wake, Boot
<1>26. CASE LowMemory
  BY <1>26 DEF LowMemory, ServeLowMemory, StopDue
<1>27. CASE SleepWindowCut
  BY <1>27 DEF SleepWindowCut, Close, Disarm, ServeLowMemory, StopDue
<1>28. CASE RenderTask
  BY <1>28 DEF RenderTask, RenderWakes, RenderBegins, RenderSkips, RenderEnds, Woken
<1>29. CASE Worker
  BY <1>29 DEF Worker, WorkerEnds
<1>30. CASE Time
  BY <1>30 DEF Time, FrameWaitEnds, DeadlinePasses
<1>31. QED
  BY <1>1, <1>2, <1>3, <1>4, <1>5, <1>6, <1>7, <1>8, <1>9, <1>10, <1>11, <1>12, <1>13,
     <1>14, <1>15, <1>16, <1>17, <1>18, <1>19, <1>20, <1>21, <1>22, <1>23, <1>24, <1>25,
     <1>26, <1>27, <1>28, <1>29, <1>30 DEF Next, MainTask, Cut

LEMMA PathKept ==
  ASSUME ScreenInv, PathInv, [Next]_vars
  PROVE  PathInv'
<1> USE DEF ScreenInv, PathInv, RadioUp, managerVars, screenVars, windowVars, mainVars,
       GoTo, GoOn
<1>1. CASE UNCHANGED vars
  BY <1>1 DEF vars
<1>2. CASE SuppressedRelease
  BY <1>2 DEF SuppressedRelease, AfterLoop
<1>3. CASE HomeGesture
  BY <1>3 DEF HomeGesture, Replace, AfterLoop
<1>4. CASE LightPanel
  BY <1>4 DEF LightPanel, Push, AfterLoop
<1>5. CASE RunActivity
  BY <1>5 DEF RunActivity
<1>6. CASE ActivityLoop
  BY <1>6 DEF ActivityLoop, Asked, Replace, Push, Pop
<1>7. CASE ActivityWaits
  BY <1>7 DEF ActivityWaits, Register
<1>8. CASE Awoken
  BY <1>8 DEF Awoken
<1>9. CASE SettlePop
  BY <1>9 DEF SettlePop, PopToParent, PopLast, Abandoned
<1>10. CASE SettleHome
  BY <1>10 DEF SettleHome, HomeAfterPop
<1>11. CASE SettleClose
  BY <1>11 DEF SettleClose, StaysOpenFor, Disarm
<1>12. CASE SettleLaunch
  BY <1>12 DEF SettleLaunch, Launch, Abandoned
<1>13. CASE Enter
  BY <1>13 DEF Enter, Pop
<1>14. CASE EnterWaits
  BY <1>14 DEF EnterWaits, Register
<1>15. CASE Handler
  BY <1>15 DEF Handler, Replace, Push, Pop
<1>16. CASE Settled
  BY <1>16 DEF Settled, Flush, Arm, AfterLoop
<1>17. CASE Tick
  BY <1>17 DEF Tick, TickStays, TickIdle, TickDrop, TickStartFails, TickStart,
     TickFinish, TickServe, StopDue, Disarm, Release
<1>18. CASE StopRadio
  BY <1>18 DEF StopRadio, Releasable, Release
<1>19. CASE StartTimesOut
  BY <1>19 DEF StartTimesOut, Boot
<1>20. CASE SleepRequest
  BY <1>20 DEF SleepRequest, Disarm
<1>21. CASE PaintOwnFrame
  BY <1>21 DEF PaintOwnFrame, Register
<1>22. CASE GoToSleep
  BY <1>22 DEF GoToSleep
<1>23. CASE ReleaseSleepFrame
  <2>1. CASE Arm("sleep") /\ GoTo("sleepwindow")
    BY <1>23, <2>1 DEF ReleaseSleepFrame, Arm
  <2>2. CASE Close("off")
    BY <1>23, <2>2 DEF ReleaseSleepFrame, Close, Disarm
  <2>3. QED
    BY <1>23, <2>1, <2>2 DEF ReleaseSleepFrame
<1>24. CASE SleepWindow
  BY <1>24 DEF SleepWindow, TickStays, TickIdle, TickDrop, TickStartFails, TickStart,
     TickFinish, TickServe, StopDue, Disarm, Release
<1>25. CASE Wake
  BY <1>25 DEF Wake, Boot
<1>26. CASE LowMemory
  BY <1>26 DEF LowMemory, ServeLowMemory, StopDue
<1>27. CASE SleepWindowCut
  <2>1. step = "sleepwindow" /\ UNCHANGED managerVars
    BY <1>27 DEF SleepWindowCut
  <2>2. CASE Close("off")
    BY <2>1, <2>2 DEF Close, Disarm
  <2>3. CASE GoOn("stopping", "sleepwindow") /\ UNCHANGED windowVars
    BY <2>1, <2>3
  <2>4. QED
    BY <1>27, <2>2, <2>3 DEF SleepWindowCut
<1>28. CASE RenderTask
  BY <1>28 DEF RenderTask, RenderWakes, RenderBegins, RenderSkips, RenderEnds, Woken
<1>29. CASE Worker
  BY <1>29 DEF Worker, WorkerEnds
<1>30. CASE Time
  BY <1>30 DEF Time, FrameWaitEnds, DeadlinePasses
<1>31. QED
  BY <1>1, <1>2, <1>3, <1>4, <1>5, <1>6, <1>7, <1>8, <1>9, <1>10, <1>11, <1>12, <1>13,
     <1>14, <1>15, <1>16, <1>17, <1>18, <1>19, <1>20, <1>21, <1>22, <1>23, <1>24, <1>25,
     <1>26, <1>27, <1>28, <1>29, <1>30 DEF Next, MainTask, Cut

\* The activity under the current one is no book when none is open.
LEMMA PoppedBelow ==
  ASSUME stack \in Seq(Screens), stack # <<>>, ~ReaderOpen,
         current' = Last(stack), stack' = Front(stack)
  PROVE  ~ReaderOpen'
  BY DEF ReaderOpen, Last, Front

\* Every way to raise the radio, to open a book or to enter a screen goes through a check
\* that the others rely on.
LEMMA RadioKept ==
  ASSUME ScreensTyped, ScreenInv, PathInv, RadioInv, RadioMemoryReturned, [Next]_vars
  PROVE  RadioInv'
<1> USE NoneAssumption DEF ScreenInv, PathInv, RadioInv, RadioUp, ReaderOpen,
       allowsExchangeWindow, Tolerates,
          managerVars, screenVars, windowVars, mainVars, GoTo, GoOn
<1>1. CASE UNCHANGED vars
  BY <1>1 DEF vars
<1>2. CASE SuppressedRelease
  BY <1>2 DEF SuppressedRelease, AfterLoop
<1>3. CASE HomeGesture
  BY <1>3 DEF HomeGesture, Replace, AfterLoop
<1>4. CASE LightPanel
  BY <1>4 DEF LightPanel, Push, AfterLoop
<1>5. CASE RunActivity
  BY <1>5 DEF RunActivity
<1>6. CASE ActivityLoop
  BY <1>6 DEF ActivityLoop, Asked, Replace, Push, Pop
<1>7. CASE ActivityWaits
  BY <1>7 DEF ActivityWaits, Register
<1>8. CASE Awoken
  BY <1>8 DEF Awoken
<1>9. CASE SettlePop
  <2>1. CASE PopToParent
    BY <1>9, <2>1, PoppedBelow DEF SettlePop, PopToParent, ScreensTyped
  <2>2. CASE PopLast
    BY <1>9, <2>2 DEF SettlePop, PopLast, ScreensTyped, NoneAssumption, Screens
  <2>3. QED
    BY <1>9, <2>1, <2>2 DEF SettlePop
<1>10. CASE SettleHome
  BY <1>10 DEF SettleHome, HomeAfterPop
<1>11. CASE SettleClose
  BY <1>11 DEF SettleClose, StaysOpenFor, Disarm
<1>12. CASE SettleLaunch
  BY <1>12 DEF SettleLaunch, Launch, Abandoned
<1>13. CASE Enter
  BY <1>13 DEF Enter, Pop
<1>14. CASE EnterWaits
  BY <1>14 DEF EnterWaits, Register
<1>15. CASE Handler
  BY <1>15 DEF Handler, Replace, Push, Pop
<1>16. CASE Settled
  BY <1>16 DEF Settled, Flush, Arm, AfterLoop
<1>17. CASE Tick
  BY <1>17 DEF Tick, TickStays, TickIdle, TickDrop, TickStartFails, TickStart,
     TickFinish, TickServe, StopDue, Disarm, Release
<1>18. CASE StopRadio
  BY <1>18 DEF StopRadio, Releasable, Release
<1>19. CASE StartTimesOut
  BY <1>19 DEF StartTimesOut, Boot
<1>20. CASE SleepRequest
  BY <1>20 DEF SleepRequest, Disarm
<1>21. CASE PaintOwnFrame
  BY <1>21 DEF PaintOwnFrame, Register
<1>22. CASE GoToSleep
  BY <1>22 DEF GoToSleep
<1>23. CASE ReleaseSleepFrame
  BY <1>23 DEF ReleaseSleepFrame, Arm, Close, Disarm
<1>24. CASE SleepWindow
  BY <1>24 DEF SleepWindow, TickStays, TickIdle, TickDrop, TickStartFails, TickStart,
     TickFinish, TickServe, StopDue, Disarm, Release
<1>25. CASE Wake
  BY <1>25 DEF Wake, Boot
<1>26. CASE LowMemory
  BY <1>26 DEF LowMemory, ServeLowMemory, StopDue
<1>27. CASE SleepWindowCut
  <2>1. step = "sleepwindow" /\ UNCHANGED managerVars
    BY <1>27 DEF SleepWindowCut
  <2>2. CASE Close("off")
    BY <2>1, <2>2 DEF Close, Disarm
  <2>3. CASE GoOn("stopping", "sleepwindow") /\ UNCHANGED windowVars
    BY <2>1, <2>3
  <2>4. QED
    BY <1>27, <2>2, <2>3 DEF SleepWindowCut
<1>28. CASE RenderTask
  BY <1>28 DEF RenderTask, RenderWakes, RenderBegins, RenderSkips, RenderEnds, Woken
<1>29. CASE Worker
  BY <1>29 DEF Worker, WorkerEnds
<1>30. CASE Time
  BY <1>30 DEF Time, FrameWaitEnds, DeadlinePasses
<1>31. QED
  BY <1>1, <1>2, <1>3, <1>4, <1>5, <1>6, <1>7, <1>8, <1>9, <1>10, <1>11, <1>12, <1>13,
     <1>14, <1>15, <1>16, <1>17, <1>18, <1>19, <1>20, <1>21, <1>22, <1>23, <1>24, <1>25,
     <1>26, <1>27, <1>28, <1>29, <1>30 DEF Next, MainTask, Cut

LEMMA StepKeeps == ShellInv /\ [Next]_vars => ShellInv'
<1> SUFFICES ASSUME ShellInv, [Next]_vars PROVE ShellInv'
  OBVIOUS
<1>1. Typed'
  BY ScreensKept, FramesKept, WindowKept, MainKept DEF ShellInv, Typed
<1>2. ScreenInv' /\ PathInv' /\ RadioInv'
  BY ScreenInvKept, PathKept, RadioKept DEF ShellInv, Typed
<1>3. RadioMemoryReturned' /\ DrawsCurrentScreen'
  BY MemoryKept, DrawsKept DEF ShellInv
<1>4. QED
  BY <1>1, <1>2, <1>3 DEF ShellInv

LEMMA ShellInvariant == Spec => []ShellInv
<1>1. QED
  BY InitEstablishes, StepKeeps, PTL DEF Spec

\* Every variable of the main task, the render task and the exchange window keeps its
\* type, the stack its bound, for stacks of any depth (ActivityManager.cpp, main.cpp).
THEOREM ShellTypeCorrect == Spec => []TypeOK
<1>1. ShellInv => TypeOK
  BY TypedIsTypeOK DEF ShellInv
<1>2. QED
  BY <1>1, ShellInvariant, PTL

\* The render task never draws an activity that was destroyed, stacked or replaced
\* under it (the lock of renderTaskLoop() and ActivityManager::loop()).
THEOREM DrawsOnlyCurrent == Spec => []DrawsCurrentScreen
<1>1. ShellInv => DrawsCurrentScreen
  BY DEF ShellInv
<1>2. QED
  BY <1>1, ShellInvariant, PTL

\* NimBLE's memory is back whenever the radio is down, and is never freed under the
\* worker that starts it (stopRadio(), finishStart()).
THEOREM RadioMemorySafe == Spec => []RadioMemoryReturned
<1>1. ShellInv => RadioMemoryReturned
  BY DEF ShellInv
<1>2. QED
  BY <1>1, ShellInvariant, PTL

\* No book runs beside the radio, and no pass begins with the radio up under a screen
\* that does not tolerate it, whatever stack, handlers and gestures led there
\* (closeExchangeWindowFor(), Window::loop()).
THEOREM RadioAlwaysYields == Spec => []RadioYields
<1>1. ShellInv => RadioYields
  BY DEF ShellInv, RadioYields, RadioInv, RadioMemoryReturned, ReaderOpen
<1>2. QED
  BY <1>1, ShellInvariant, PTL
================================================================================
