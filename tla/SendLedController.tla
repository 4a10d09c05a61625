-------------------------- MODULE SendLedController --------------------------
(***************************************************************************)
(* send_led_controller.py: one lamp, and the threads that want it.         *)
(*                                                                         *)
(*   worker     the alert worker: blinks while it dispatches, then shows   *)
(*              success or failure (alert_service.py, _worker_loop)        *)
(*   blinkers   one daemon thread per blinking, activity or failure        *)
(*   timers     one threading.Timer per success hold                       *)
(*   main       shutdown                                                   *)
(*                                                                         *)
(* Every mode has a generation, and a thread that outlives its mode finds  *)
(* out under the lock.  The waits are left out: one may end at any moment. *)
(* So is the brightness.                                                   *)
(***************************************************************************)
EXTENDS Naturals

CONSTANT MaxGeneration    \* bound: generations in the life of the controller

ASSUME GenerationAssumption == MaxGeneration \in Nat \ {0}

VARIABLES
    led,          \* the lamp
    generation,   \* _generation
    shut,         \* _closed
    stopping,     \* the stop event of the service
    blinker,      \* generation -> where its thread is
    told,         \* generations whose thread's own stop event is set
    failures,     \* generations whose thread blinks a failure
    known,        \* generation of _activity_thread or _failure_thread, or 0
    armed,        \* generations of the timers that are running
    fired,        \* ... and of those that ran out and want the lock
    worker,       \* where the worker is
    shown         \* history: what the worker asked for and was not ended since

modeVars == <<generation, told, known>>
timerVars == <<armed, fired>>
ledVars == <<led, generation, shut, stopping, blinker, told, failures, known,
             armed, fired, worker, shown>>

Generations == 1 .. MaxGeneration
BlinkerStates == {"none", "created", "check", "light", "lit", "darken", "dark",
                  "ending", "over"}
WorkerStates == {"free", "created", "started", "dispatching", "stopped", "gone"}

\* Mutant: the generation is not compared, only the closed flag is.
OwnsUnlessShut(g) == ~shut

\* Mutant: a generation counts unless it is in the future.
OwnsUnlessNewer(g) == generation >= g

\* What every thread asks under the lock before it touches the lamp.
Owns(g) == ~shut /\ generation = g

-----------------------------------------------------------------------------
(* The worker's calls.                                                     *)

\* Mutant: no thread is known, and it is told to stop all the same.
NewGenerationUnchecked ==
    /\ generation < MaxGeneration
    /\ generation' = generation + 1
    /\ told' = told \cup {known}
    /\ known' = 0

\* Every call starts a new generation; it tells the thread it knows of to stop.
NewGeneration ==
    /\ generation < MaxGeneration                 \* bound MaxGeneration
    /\ generation' = generation + 1
    /\ told' = told \cup ({known} \ {0})
    /\ known' = 0

\* The first part of start_activity_blink and show_failure_blink.
CreateBlinker(what) ==
    /\ ~shut
    /\ NewGeneration
    /\ armed' = {}
    /\ blinker' = [blinker EXCEPT ![generation'] = "created"]
    /\ worker' = "created"
    /\ shown' = what
    /\ UNCHANGED <<led, shut, stopping, fired>>

\* After shutdown a call returns at once.
ReturnsWhenShut(from, to) ==
    /\ shut
    /\ worker = from
    /\ worker' = to
    /\ UNCHANGED <<led, modeVars, shut, stopping, blinker, failures, timerVars, shown>>

StartActivity ==
    \/ /\ worker = "free"
       /\ CreateBlinker("activity")
       /\ UNCHANGED failures
    \/ ReturnsWhenShut("free", "dispatching")

\* thread.start(), without the lock
StartThread ==
    /\ worker = "created"
    /\ \E g \in Generations :
          /\ blinker[g] = "created"
          /\ blinker' = [blinker EXCEPT ![g] = "check"]
    /\ worker' = "started"
    /\ UNCHANGED <<led, modeVars, shut, stopping, failures, timerVars, shown>>

\* The thread is noted, or told to stop when shutdown came between.
Register ==
    /\ worker = "started"
    /\ IF shut
       THEN /\ told' = told \cup {g \in Generations : blinker[g] # "none"}
            /\ UNCHANGED known
       ELSE known' = generation /\ UNCHANGED told
    /\ worker' = IF shown = "activity" THEN "dispatching" ELSE "free"
    /\ UNCHANGED <<led, generation, shut, stopping, blinker, failures, timerVars, shown>>

\* Mutant: the lamp is left as the blinking thread left it.
LampAfterActivityKept == led

LampAfterActivity == IF shut THEN led ELSE "off"

StopActivity ==
    /\ worker = "dispatching"
    /\ NewGeneration
    /\ led' = LampAfterActivity
    /\ worker' = "stopped"
    /\ shown' = "nothing"
    /\ UNCHANGED <<shut, stopping, blinker, failures, armed, fired>>

\* A hold of no seconds turns the lamp off at once.
ShowSuccess ==
    \/ /\ worker = "stopped"
       /\ ~shut
       /\ NewGeneration
       /\ \/ led' = "on" /\ armed' = {generation'} /\ shown' = "success"
          \/ led' = "off" /\ armed' = {} /\ shown' = "nothing"
       /\ worker' = "free"
       /\ UNCHANGED <<shut, stopping, blinker, failures, fired>>
    \/ ReturnsWhenShut("stopped", "free")

\* (A failure blink of no seconds is the second case above.)
ShowFailure ==
    /\ worker = "stopped"
    /\ CreateBlinker("failure")
    /\ failures' = failures \cup {generation'}

\* The loop ends with the stop event, or with an exception, which sets it.
WorkerEnds ==
    /\ worker \in {"free", "stopped"}
    /\ worker' = "gone"
    /\ stopping' = TRUE
    /\ UNCHANGED <<led, modeVars, shut, blinker, failures, timerVars, shown>>

WorkerStep ==
    \/ StartActivity \/ StartThread \/ Register \/ StopActivity
    \/ ShowSuccess \/ ShowFailure \/ WorkerEnds

-----------------------------------------------------------------------------
(* The threads: _run_activity_blink, _run_failure_blink and                *)
(* _finish_success_hold.                                                   *)

Goes(g, from, to) ==
    /\ blinker[g] = from
    /\ blinker' = [blinker EXCEPT ![g] = to]
    /\ UNCHANGED <<modeVars, shut, stopping, failures, timerVars, worker, shown>>

Told(g) == g \in told \/ stopping

\* while ...: a failure is also over after its time.
Check(g) ==
    /\ \/ Owns(g) /\ ~Told(g) /\ Goes(g, "check", "light")
       \/ (~Owns(g) \/ Told(g) \/ g \in failures) /\ Goes(g, "check", "ending")
    /\ UNCHANGED led

\* The lamp is switched under the lock, by the owner only.
Light(g) ==
    IF Owns(g)
    THEN Goes(g, "light", "lit") /\ led' = "on"
    ELSE Goes(g, "light", "over") /\ UNCHANGED led

Lit(g) ==
    /\ Goes(g, "lit", IF Told(g) THEN "ending" ELSE IF Owns(g) THEN "darken" ELSE "over")
    /\ UNCHANGED led

Darken(g) ==
    IF Owns(g)
    THEN Goes(g, "darken", "dark") /\ led' = "off"
    ELSE Goes(g, "darken", "over") /\ UNCHANGED led

Dark(g) ==
    /\ Goes(g, "dark", IF Told(g) THEN "ending" ELSE "check")
    /\ UNCHANGED led

\* Mutant: the thread ends as it finds the lamp.
EndBlinkLeaves(g) ==
    /\ Goes(g, "ending", "over")
    /\ UNCHANGED led

EndBlink(g) ==
    /\ Goes(g, "ending", "over")
    /\ led' = IF Owns(g) THEN "off" ELSE led

BlinkerStep(g) == Check(g) \/ Light(g) \/ Lit(g) \/ Darken(g) \/ Dark(g) \/ EndBlink(g)

\* From now on cancel() comes too late.
TimerFires(g) ==
    /\ g \in armed
    /\ armed' = armed \ {g}
    /\ fired' = fired \cup {g}
    /\ UNCHANGED <<led, modeVars, shut, stopping, blinker, failures, worker, shown>>

FinishHold(g) ==
    /\ g \in fired
    /\ fired' = fired \ {g}
    /\ IF Owns(g)
       THEN led' = "off" /\ shown' = "nothing"
       ELSE UNCHANGED <<led, shown>>
    /\ UNCHANGED <<modeVars, shut, stopping, blinker, failures, armed, worker>>

TimerStep(g) == TimerFires(g) \/ FinishHold(g)

-----------------------------------------------------------------------------
(* The main thread.                                                        *)

Stop ==
    /\ ~stopping
    /\ stopping' = TRUE
    /\ UNCHANGED <<led, modeVars, shut, blinker, failures, timerVars, worker, shown>>

\* shutdown: the lamp is closed only when the worker has ended.
ShutDown ==
    /\ stopping
    /\ ~shut
    /\ shut' = TRUE
    /\ NewGeneration
    /\ armed' = {}
    /\ led' = IF worker = "gone" THEN "closed" ELSE led
    /\ UNCHANGED <<stopping, blinker, failures, fired, worker, shown>>

LedInit ==
    /\ led = "off"
    /\ generation = 0
    /\ shut = FALSE
    /\ stopping = FALSE
    /\ blinker = [g \in Generations |-> "none"]
    /\ told = {}
    /\ failures = {}
    /\ known = 0
    /\ armed = {}
    /\ fired = {}
    /\ worker = "free"
    /\ shown = "nothing"

LedNext ==
    \/ WorkerStep
    \/ \E g \in Generations : BlinkerStep(g) \/ TimerStep(g)
    \/ Stop \/ ShutDown

LedSpec == LedInit /\ [][LedNext]_ledVars

\* The threads and timers run, and the worker finishes a call it is in; what it
\* calls next, and what main does, is up to them.
LedFairness ==
    /\ \A g \in Generations : WF_ledVars(BlinkerStep(g)) /\ WF_ledVars(TimerStep(g))
    /\ WF_ledVars(StartThread)

FairLedSpec == LedSpec /\ LedFairness

-----------------------------------------------------------------------------
(* Properties.                                                             *)

\* Type correctness.
LedTypeOK ==
    /\ led \in {"off", "on", "closed"}
    /\ generation \in 0 .. MaxGeneration
    /\ shut \in BOOLEAN
    /\ stopping \in BOOLEAN
    /\ blinker \in [Generations -> BlinkerStates]
    /\ told \in SUBSET Generations
    /\ failures \in SUBSET Generations
    /\ known \in 0 .. MaxGeneration
    /\ armed \in SUBSET Generations
    /\ fired \in SUBSET Generations
    /\ worker \in WorkerStates
    /\ shown \in {"nothing", "activity", "success", "failure"}

\* No thread touches the lamp after it was closed (gpiozero raises, in a daemon
\* thread nobody watches), whatever it was about to do when shutdown came.
ClosedForGood == [][(led = "closed") => (led' = "closed")]_ledVars

\* The lamp is dark when nothing is shown, and when the thread that blinks for
\* what is shown has ended: no blinker or timer of an earlier mode lights it.
DarkWhenQuiet ==
    /\ ~shut
    /\ \/ shown = "nothing"
       \/ shown # "success" /\ blinker[generation] = "over"
    => led = "off"

\* A success is a steady light: no thread of an earlier mode darkens it.
SuccessIsSteady == ~shut /\ shown = "success" => led = "on"

\* The lamp does not stay lit: a blink, a hold or the end of the mode darkens
\* it, unless the controller is shut down.
DoesNotStayLit == led = "on" ~> led # "on" \/ shut

=============================================================================
