---------------------------- MODULE ExchangeWindow ----------------------------
(***************************************************************************)
(* The Bluetooth exchange window (nearby_sync/ExchangeWindow.cpp and the    *)
(* Controller of ExchangeWindowPolicy.cpp).  The main loop arms, starts,    *)
(* serves and closes it; NimBLE itself is started by a worker task that     *)
(* uses the Runtime the loop allocated and must not free under it.          *)
(* millis() is abstracted to two facts the controller asks for: the frame   *)
(* wait is over, the deadline has passed.                                   *)
(***************************************************************************)

VARIABLES
  window,    \* the Controller's state
  trigger,   \* what armed it
  framed,    \* a frame was completed since it was armed (renderCount # armedRender;
             \* asked only while it is armed)
  waited,    \* RENDER_WAIT_MS have passed since it was armed
  expired,   \* the deadline has passed
  worker,    \* startState: the NimBLE start on its own task
  runtime    \* the Runtime, and with it NimBLE's memory, is allocated

windowVars == <<window, trigger, framed, waited, expired, worker, runtime>>

Triggers == {"wake", "book", "sleep"}

WindowTypeOK ==
  /\ window \in {"IDLE", "ARMED", "STARTING", "OPEN"}
  /\ trigger \in Triggers
  /\ framed \in BOOLEAN
  /\ waited \in BOOLEAN
  /\ expired \in BOOLEAN
  /\ worker \in {"idle", "running", "succeeded", "failed"}
  /\ runtime \in BOOLEAN

WindowInit ==
  /\ window = "IDLE"
  /\ trigger = "wake"
  /\ framed = FALSE
  /\ waited = FALSE
  /\ expired = FALSE
  /\ worker = "idle"
  /\ runtime = FALSE

RadioUp == window \in {"STARTING", "OPEN"}

-------------------------------------------------------------------------------
(* The loop's operations on the window *)

\* Controller::arm(): an open window is extended, any other one waits for a frame.
Arm(why) ==
  /\ trigger' = why
  /\ IF RadioUp
     THEN expired' = FALSE /\ UNCHANGED <<window, framed, waited>>
     ELSE /\ window' = "ARMED"
          /\ framed' = FALSE
          /\ waited' = FALSE
          /\ UNCHANGED expired
  /\ UNCHANGED <<worker, runtime>>

\* Controller::close() with the radio down.
Disarm ==
  /\ ~RadioUp
  /\ window' = "IDLE"
  /\ UNCHANGED <<trigger, framed, waited, expired, worker, runtime>>

\* Releases NimBLE and reports Controller::stopped() or started(false); a start in
\* flight would run on.
Release ==
  /\ window' = "IDLE"
  /\ worker' = IF worker = "running" THEN worker ELSE "idle"
  /\ runtime' = FALSE
  /\ expired' = FALSE
  /\ UNCHANGED <<trigger, framed, waited>>

\* Mutant: the window is given up without waiting for the start in flight.
ReleasableAtOnce == TRUE
\* stopRadio() waits for the worker before it frees what the worker uses.
Releasable == worker # "running"

\* Mutant: the window waits for its frame, whatever armed it and however long.
DueOnFrame == framed
\* The armed window may start: its frame is on the panel, or was waited for long enough.
Due == trigger = "sleep" \/ framed \/ waited

\* tick(): nothing to do, or nothing to do yet.
TickIdle(shellActive) ==
  /\ \/ window = "IDLE"
     \/ window = "ARMED" /\ shellActive /\ ~Due
  /\ UNCHANGED windowVars

\* tick(): the shell was left before the window started.
TickDrop(shellActive) ==
  /\ window = "ARMED" /\ ~shellActive
  /\ Disarm

\* start(): the gate, the allocation or the task creation fails.
TickStartFails(shellActive) ==
  /\ window = "ARMED" /\ shellActive /\ Due
  /\ window' = "IDLE"
  /\ expired' = FALSE
  /\ UNCHANGED <<trigger, framed, waited, worker, runtime>>

\* start(): the worker gets the Runtime.
TickStart(shellActive) ==
  /\ window = "ARMED" /\ shellActive /\ Due
  /\ window' = "STARTING"
  /\ expired' = FALSE
  /\ runtime' = TRUE
  /\ worker' = "running"
  /\ UNCHANGED <<trigger, framed, waited>>

\* Mutant: the deadline is not looked at.
StopWhenLeft(shellActive) == RadioUp /\ ~shellActive
\* tick() answers STOP: the loop goes on to stopRadio().
StopDue(shellActive) == RadioUp /\ (~shellActive \/ expired)

\* finishStart(): no result yet, a failure or too little memory, or an open window.
TickFinish(shellActive) ==
  /\ window = "STARTING" /\ ~StopDue(shellActive)
  /\ \/ worker = "running" /\ UNCHANGED windowVars
     \/ worker \in {"failed", "succeeded"} /\ Release
     \/ /\ worker = "succeeded"
        /\ window' = "OPEN"
        /\ worker' = "idle"
        /\ UNCHANGED <<trigger, framed, waited, expired, runtime>>

\* serve(): the session with the phone, abstracted here (module ReadingSync).
TickServe(shellActive) ==
  /\ window = "OPEN" /\ ~StopDue(shellActive)
  /\ UNCHANGED windowVars

\* The passes of the loop that do not go on to stopRadio().
TickStays(shellActive) ==
  \/ TickIdle(shellActive)
  \/ TickDrop(shellActive)
  \/ TickStartFails(shellActive)
  \/ TickStart(shellActive)
  \/ TickFinish(shellActive)
  \/ TickServe(shellActive)

\* serve() finds too little memory and closes the window.
ServeLowMemory(shellActive) == window = "OPEN" /\ ~StopDue(shellActive)

-------------------------------------------------------------------------------
(* The worker task and time *)

\* startTask(): NimBLE came up, or it did not.
WorkerEnds ==
  /\ worker = "running"
  /\ worker' \in {"succeeded", "failed"}
  /\ UNCHANGED <<window, trigger, framed, waited, expired, runtime>>

FrameWaitEnds ==
  /\ window = "ARMED" /\ ~waited
  /\ waited' = TRUE
  /\ UNCHANGED <<window, trigger, framed, expired, worker, runtime>>

DeadlinePasses ==
  /\ RadioUp /\ ~expired
  /\ expired' = TRUE
  /\ UNCHANGED <<window, trigger, framed, waited, worker, runtime>>

-------------------------------------------------------------------------------
(* Properties *)

\* NimBLE's memory is back whenever the controller believes the radio is down, and
\* is never freed under the worker that starts it (stopRadio(), finishStart()).
RadioMemoryReturned ==
  /\ ~RadioUp => ~runtime /\ worker = "idle"
  /\ worker # "idle" => runtime
===============================================================================
