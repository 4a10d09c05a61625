----------------------------- MODULE MainThread -----------------------------
(***************************************************************************)
(* The main thread from the configuration file to the exit code: app.main  *)
(* in its five modes, the construction of AlertService and the clean-up    *)
(* when it fails half-way, run, shutdown and the signal handler.           *)
(*                                                                         *)
(* A signal handler runs on the main thread, on top of whatever it does.   *)
(* The main thread therefore is a stack of frames: the first is the        *)
(* program's own, each further one is a handler.  A frame has a list of    *)
(* critical sections before it: setting the stop event, setting the event  *)
(* of new work and setting the deadline, each under a lock that is not     *)
(* reentrant.  Two other threads go through such sections as well: the     *)
(* worker when it crashes, and the thread of a button press, of which      *)
(* there is one at a time, when it has stored its alert or failed to.      *)
(*                                                                         *)
(* What the worker dispatches and what a press stores is in AlertService;  *)
(* here the worker runs, crashes or ends after a stop, and a press is      *)
(* stored, ignored or fails.                                               *)
(***************************************************************************)
EXTENDS Configuration, DispatchResults, Functions

CONSTANTS
    Files,       \* configuration files, as Configuration takes them
    MaxSignals   \* bound: signals that arrive after run has installed its handler

ASSUME MainAssumption == MaxSignals \in Nat
ASSUME FilesAssumption ==
    \A f \in Files : f \in File /\ Len(f.buttons) <= 2      \* bound: two buttons

VARIABLES
    file,      \* <<the file>>, or <<>> once it is loaded
    mode,      \* of the command line
    pc,        \* of the program's own frame
    buttons,   \* the button objects to make, in order
    pins,      \* GPIO object -> its pin
    reach,     \* --test: the destinations of the button, {} if it is unknown
    todo,      \* what is still to be made or to be released, in order
    held,      \* what is open
    frames,    \* the main thread's stack
    signals,   \* signals so far
    stop,      \* the stop event is set
    deadline,  \* who has set the shutdown deadline
    worker,    \* none, running, crashing or dead
    crash,     \* the frame of a worker that crashes
    press,     \* where the thread of a button press is
    pressFrame,\* its frame
    fatal,     \* _fatal_error is set
    outlived,  \* the worker was alive when it had been waited for
    detached,  \* the dispatcher had requests under way at shutdown
    code,      \* the exit code as far as it is decided
    answers,   \* history: the outcomes of a test message
    stuck,     \* history: objects whose own release raised
    aborted    \* history: an exception no clean-up stands behind

fileVars == <<file, mode, buttons, pins, reach>>
stackVars == <<frames, signals, stop, deadline>>
errorVars == <<crash, press, pressFrame, fatal>>
threadVars == <<worker, errorVars>>
endVars == <<outlived, detached>>
mainVars == <<fileVars, pc, todo, held, stackVars, threadVars, endVars, code,
              answers, stuck, aborted>>

ButtonObjects == <<"button1", "button2">>
GpioObjects == {"alive_led", "send_led"} \cup {ButtonObjects[i] : i \in DOMAIN ButtonObjects}
Objects == GpioObjects \cup {"dispatcher", "queue", "send_led_controller"}

Modes == {"list", "validate", "validate_gpio", "test", "serve"}
Validating == mode \in {"validate", "validate_gpio"}
UsesGpio == mode \in {"validate_gpio", "serve"}

Undecided == -1
WorkerAlive == worker \in {"running", "crashing"}

Frame(sections) == [todo |-> sections, inside |-> FALSE]
Top == frames[Len(frames)]

\* A frame is in the critical section.
Inside(frame, section) == frame.inside /\ Head(frame.todo) = section

Locked(section) ==
    \/ \E i \in DOMAIN frames : Inside(frames[i], section)
    \/ Inside(crash, section)
    \/ Inside(pressFrame, section)

\* No handler runs, and no critical section is to be gone through first.
Undisturbed == Len(frames) = 1 /\ frames[1].todo = <<>>

At(place) == pc = place /\ Undisturbed

Exit(c) == pc' = "exited" /\ code' = c /\ todo' = <<>>

-----------------------------------------------------------------------------
(* load_config and the modes of the command line.                          *)

LoadKeeps == UNCHANGED <<held, stackVars, threadVars, endVars, answers, stuck, aborted>>

\* ConfigError is reported with 2; anything else is a traceback.
LoadFails ==
    /\ At("load")
    /\ Verdict(file[1]) # "accepted"
    /\ Exit(IF Verdict(file[1]) = "refused" THEN 2 ELSE 1)
    /\ UNCHANGED fileVars
    /\ LoadKeeps

\* The destinations of the button named in --test, which may be unknown.
ReachOf(f) ==
    {{}} \cup {LET names == Resolve(f, ButtonByName(f, f.buttons[i].name))
               IN  {names[k] : k \in DOMAIN names} : i \in DOMAIN f.buttons}

PinsOf(f) ==
    [o \in GpioObjects |->
        IF o = "alive_led" THEN f.num["alive_led_gpio"].val
        ELSE IF o = "send_led" THEN f.num["send_led_gpio"].val
        ELSE LET i == CHOOSE k \in DOMAIN ButtonObjects : ButtonObjects[k] = o
             IN  IF i <= Len(f.buttons) THEN f.buttons[i].gpio ELSE 0]

Load ==
    /\ At("load")
    /\ Verdict(file[1]) = "accepted"
    /\ file' = <<>>
    /\ mode' \in Modes
    /\ IF mode' \in {"validate_gpio", "serve"}
       THEN /\ buttons' = SubSeq(ButtonObjects, 1, Len(file[1].buttons))
            /\ pins' = PinsOf(file[1])
       ELSE UNCHANGED <<buttons, pins>>
    /\ IF mode' = "test" THEN reach' \in ReachOf(file[1]) ELSE UNCHANGED reach
    /\ IF mode' = "list" THEN Exit(0)
       ELSE pc' = "dispatcher" /\ UNCHANGED <<todo, code>>
    /\ LoadKeeps

-----------------------------------------------------------------------------
(* Construction.                                                           *)

\* fileVars and what only run and shutdown change.
BuildKeeps == UNCHANGED <<fileVars, stackVars, errorVars, endVars, answers>>

\* The objects of AlertService.__init__ after the queue, in order.
Parts ==
    <<"alive_led", "send_led", "send_led_controller">> \o buttons
        \o (IF mode = "serve" THEN <<"worker">> ELSE <<>>)

BuildDispatcher ==
    /\ At("dispatcher")
    /\ held' = {"dispatcher"}
    /\ IF mode = "test" THEN pc' = "construct" /\ todo' = Parts
       ELSE pc' = (IF mode = "serve" THEN "gpiozero" ELSE "queue") /\ UNCHANGED todo
    /\ UNCHANGED <<worker, code, stuck, aborted>>
    /\ BuildKeeps

\* The service asks for gpiozero before it opens the queue, a validation opens
\* the queue before it makes a service.
GpiozeroThere ==
    /\ At("gpiozero")
    /\ IF Validating THEN pc' = "construct" /\ todo' = Parts
       ELSE pc' = "queue" /\ UNCHANGED todo
    /\ UNCHANGED <<held, worker, code, stuck, aborted>>
    /\ BuildKeeps

\* ConfigError; a validation has its finally.
GpiozeroMissing ==
    /\ At("gpiozero")
    /\ UsesGpio
    /\ IF Validating THEN pc' = "finally" /\ code' = 2 /\ todo' = <<"dispatcher", "queue">>
       ELSE Exit(2)
    /\ aborted' = (aborted \/ ~Validating)
    /\ UNCHANGED <<held, worker, stuck>>
    /\ BuildKeeps

QueueOpens ==
    /\ At("queue")
    /\ held' = held \cup {"queue"}
    /\ IF mode = "serve" THEN pc' = "construct" /\ todo' = Parts
       ELSE pc' = "gpiozero" /\ UNCHANGED todo
    /\ UNCHANGED <<worker, code, stuck, aborted>>
    /\ BuildKeeps

\* The service opens it before its try: nobody closes the dispatcher.
QueueFails ==
    /\ At("queue")
    /\ IF Validating THEN pc' = "finally" /\ code' = 1 /\ todo' = <<"dispatcher">>
       ELSE Exit(1)
    /\ aborted' = (aborted \/ ~Validating)
    /\ UNCHANGED <<held, worker, stuck>>
    /\ BuildKeeps

\* A pin can be taken once.
PinFree(o) ==
    o \in GpioObjects /\ UsesGpio => \A p \in held \cap GpioObjects : pins[p] # pins[o]

Construct ==
    /\ At("construct") /\ todo # <<>>
    /\ PinFree(Head(todo))
    /\ IF Head(todo) = "worker" THEN worker' = "running" /\ UNCHANGED held
       ELSE held' = held \cup {Head(todo)} /\ UNCHANGED worker
    /\ todo' = Tail(todo)
    /\ UNCHANGED <<pc, code, stuck, aborted>>
    /\ BuildKeeps

\* What was made of an object before the failure.
IfHeld(o) == IF o \in held THEN <<o>> ELSE <<>>

\* Mutant: the send LED is left to its controller.
CleanUpOrderByController ==
    IfHeld(ButtonObjects[1]) \o IfHeld(ButtonObjects[2])
        \o IfHeld("send_led_controller") \o IfHeld("alive_led")
        \o (IF mode = "serve" THEN IfHeld("queue") ELSE <<>>) \o IfHeld("dispatcher")

\* _cleanup_startup_failure: the send LED by its controller, if there is one.
\* The queue of a validation is not the service's.
CleanUpOrder ==
    IfHeld(ButtonObjects[1]) \o IfHeld(ButtonObjects[2])
        \o (IF "send_led_controller" \in held THEN <<"send_led_controller">>
            ELSE IfHeld("send_led"))
        \o IfHeld("alive_led")
        \o (IF mode = "serve" THEN IfHeld("queue") ELSE <<>>) \o IfHeld("dispatcher")

\* An LED or a button that cannot be made, or a thread that cannot be started.
ConstructFails ==
    /\ At("construct") /\ todo # <<>>
    /\ UsesGpio
    /\ pc' = "clean up"
    /\ todo' = CleanUpOrder
    /\ stop' = TRUE
    /\ UNCHANGED <<held, worker, code, stuck, aborted>>
    /\ UNCHANGED <<fileVars, frames, signals, deadline, errorVars, endVars, answers>>

Constructed ==
    /\ At("construct") /\ todo = <<>>
    /\ IF mode = "serve" THEN pc' = "lamp" /\ UNCHANGED frames
       ELSE IF mode = "test" THEN pc' = "test" /\ UNCHANGED frames
       ELSE pc' = "join" /\ frames' = <<Frame(<<"stop", "work", "deadline">>)>>
    /\ UNCHANGED <<fileVars, todo, held, signals, stop, deadline, threadVars, endVars,
                   code, answers, stuck, aborted>>

-----------------------------------------------------------------------------
(* Releasing, after a failure and at the end.                              *)

\* The controller closes its LED unless the worker may still use it.
ReleasedWith(o) ==
    IF o = "send_led_controller" /\ ~outlived THEN {o, "send_led"} ELSE {o}

ReleaseKeeps == UNCHANGED <<fileVars, stackVars, threadVars, endVars, answers>>

Release ==
    /\ pc \in {"clean up", "close", "finally"} /\ Undisturbed /\ todo # <<>>
    /\ held' = held \ ReleasedWith(Head(todo))
    /\ todo' = Tail(todo)
    /\ UNCHANGED <<pc, code, stuck, aborted>>
    /\ ReleaseKeeps

\* The clean-up goes on with the next one.  shutdown and a finally do not.
ReleaseFails ==
    /\ pc \in {"clean up", "close", "finally"} /\ Undisturbed /\ todo # <<>>
    /\ stuck' = stuck \cup ReleasedWith(Head(todo))
    /\ IF pc = "clean up" THEN todo' = Tail(todo) /\ UNCHANGED <<pc, code, aborted>>
       ELSE Exit(1) /\ aborted' = TRUE
    /\ UNCHANGED held
    /\ ReleaseKeeps

\* The exception of the constructor goes on; a validation closes the dispatcher
\* once more and its queue.
CleanedUp ==
    /\ At("clean up") /\ todo = <<>>
    /\ IF Validating THEN pc' = "finally" /\ code' = 1 /\ todo' = <<"dispatcher", "queue">>
       ELSE Exit(1)
    /\ UNCHANGED <<held, stuck, aborted>>
    /\ ReleaseKeeps

Finished ==
    /\ At("finally") /\ todo = <<>>
    /\ Exit(IF code = Undecided THEN 0 ELSE code)
    /\ UNCHANGED <<held, stuck, aborted>>
    /\ ReleaseKeeps

-----------------------------------------------------------------------------
(* --test and run.                                                         *)

RunKeeps == UNCHANGED <<fileVars, todo, held, signals, stop, deadline, threadVars,
                        endVars, stuck>>

\* finally: self.shutdown()
ShutDown == pc' = "join" /\ frames' = <<Frame(<<"stop", "work", "deadline">>)>>

\* summarize_dispatch_results, as an exit code.
ExitCodeOf(outcomes) ==
    IF outcomes \cap {"retryable", "permanent"} # {} THEN 1
    ELSE IF outcomes \cap {"skipped", "refused"} # {} THEN 2 ELSE 0

\* A test message has neither deadline nor stop event, so every destination is
\* asked.  An unknown button is a ConfigError.
DispatchTest ==
    /\ At("test")
    /\ IF reach = {} THEN code' = 2 /\ UNCHANGED answers
       ELSE \E result \in [reach -> {"success", "retryable", "permanent"}] :
              /\ answers' = {result[d] : d \in reach}
              /\ code' = ExitCodeOf(answers')
    /\ ShutDown
    /\ UNCHANGED aborted
    /\ RunKeeps

LampOn ==
    /\ At("lamp")
    /\ pc' = "look"
    /\ UNCHANGED <<frames, code, answers, aborted>>
    /\ RunKeeps

\* The alive LED is lit before the try.
LampFails ==
    /\ At("lamp")
    /\ Exit(1)
    /\ aborted' = TRUE
    /\ UNCHANGED <<fileVars, held, stackVars, threadVars, endVars, answers, stuck>>

\* while not self._stop_event.is_set()
LookForStop ==
    /\ At("look")
    /\ IF stop THEN ShutDown ELSE pc' = "fatal?" /\ UNCHANGED frames
    /\ UNCHANGED <<code, answers, aborted>>
    /\ RunKeeps

\* _raise_if_fatal_error, and the nap.
LookForError ==
    /\ At("fatal?")
    /\ ~Locked("fatal")
    /\ IF fatal THEN code' = 1 /\ ShutDown
       ELSE pc' = "look" /\ UNCHANGED <<code, frames>>
    /\ UNCHANGED <<answers, aborted>>
    /\ RunKeeps

-----------------------------------------------------------------------------
(* shutdown                                                                *)

\* Mutant: the worker is taken for dead after the wait.
StillAliveNever == FALSE

\* _worker_is_alive, after the join.
StillAlive == WorkerAlive

\* What shutdown releases, and after it the finally of a validation.
CloseOrder(alive, keep) ==
    buttons \o <<"send_led_controller">>
        \o (IF alive THEN <<>>
            ELSE <<"alive_led", "dispatcher">>
                     \o (IF mode # "serve" \/ keep THEN <<>> ELSE <<"queue">>))
        \o (IF Validating THEN <<"queue">> ELSE <<>>)

\* Mutant: a join without a time-out.
JoinReturnsLate == At("join") /\ ~WorkerAlive

\* The join returns when the worker has ended or the time is over.
JoinReturns == At("join")

\* Requests can be detached only where there is a worker that dispatches.
Join ==
    /\ JoinReturns
    /\ outlived' = StillAlive
    /\ detached' \in (IF mode = "serve" THEN BOOLEAN ELSE {FALSE})
    /\ todo' = CloseOrder(outlived', detached')
    /\ pc' = "close"
    /\ UNCHANGED <<fileVars, held, stackVars, threadVars, code, answers, stuck, aborted>>

\* Mutant: run does not look for a fatal error again.
ShutdownDoneSilently ==
    /\ At("close") /\ todo = <<>>
    /\ ~Locked("fatal")
    /\ Exit(IF code = Undecided THEN 0 ELSE code)
    /\ UNCHANGED <<held, stuck, aborted>>
    /\ ReleaseKeeps

\* The last _raise_if_fatal_error of run; the others have their exit code.
ShutdownDone ==
    /\ At("close") /\ todo = <<>>
    /\ ~Locked("fatal")
    /\ Exit(IF code # Undecided THEN code ELSE IF fatal THEN 1 ELSE 0)
    /\ UNCHANGED <<held, stuck, aborted>>
    /\ ReleaseKeeps

-----------------------------------------------------------------------------
(* The critical sections of the main thread's frames.                      *)

\* Mutant: the lock is not given back.
LeftLocked(frame) == [todo |-> Tail(frame.todo), inside |-> TRUE]

Entered(frame) == [frame EXCEPT !.inside = TRUE]
Left(frame) == Frame(Tail(frame.todo))

StackKeeps == UNCHANGED <<fileVars, pc, todo, held, endVars, code, answers, stuck, aborted>>

EnterSection ==
    /\ Top.todo # <<>> /\ ~Top.inside
    /\ ~Locked(Head(Top.todo))
    /\ frames' = [frames EXCEPT ![Len(frames)] = Entered(@)]
    /\ UNCHANGED <<signals, stop, deadline, threadVars>>
    /\ StackKeeps

\* Mutant: shutdown and every signal begin a grace period of their own.
NewDeadlineAnew(setter) == setter

\* The first one counts.
NewDeadline(setter) == IF deadline = "none" THEN setter ELSE deadline

LeaveSection ==
    /\ Top.inside
    /\ frames' = [frames EXCEPT ![Len(frames)] = Left(@)]
    /\ stop' = (stop \/ Head(Top.todo) = "stop")
    /\ deadline' = IF Head(Top.todo) = "deadline"
                   THEN NewDeadline(IF Len(frames) = 1 THEN "shutdown" ELSE "signal")
                   ELSE deadline
    /\ UNCHANGED <<signals, threadVars>>
    /\ StackKeeps

\* run has installed its handler.
Signal ==
    /\ pc \in {"look", "fatal?", "join", "close"} /\ mode = "serve"
    /\ signals < MaxSignals                       \* bound MaxSignals
    /\ signals' = signals + 1
    /\ frames' = Append(frames, Frame(<<"deadline", "stop", "work">>))
    /\ UNCHANGED <<stop, deadline, threadVars>>
    /\ StackKeeps

HandlerReturns ==
    /\ Len(frames) > 1 /\ Top.todo = <<>>
    /\ frames' = SubSeq(frames, 1, Len(frames) - 1)
    /\ UNCHANGED <<signals, stop, deadline, threadVars>>
    /\ StackKeeps

-----------------------------------------------------------------------------
(* The threads of the worker and of a press.                               *)

\* Mutant: the two events before the error.
ErrorSectionsLate == <<"stop", "work", "fatal">>

\* _set_fatal_error
ErrorSections == <<"fatal", "stop", "work">>

MayMove(frame) == frame.todo # <<>> /\ (frame.inside \/ ~Locked(Head(frame.todo)))
Moved(frame) == IF frame.inside THEN Left(frame) ELSE Entered(frame)

\* What a thread sets as it leaves a section.
Sets(frame) ==
    /\ stop' = (stop \/ Inside(frame, "stop"))
    /\ fatal' = (fatal \/ Inside(frame, "fatal"))

\* Daemon threads: they end with the program.
ThreadKeeps == pc # "exited" /\ UNCHANGED <<frames, signals, deadline>> /\ StackKeeps

\* _worker_entrypoint
WorkerCrashes ==
    /\ worker = "running"
    /\ worker' = "crashing"
    /\ crash' = Frame(ErrorSections)
    /\ UNCHANGED <<press, pressFrame, fatal, stop>>
    /\ ThreadKeeps

WorkerSection ==
    /\ worker = "crashing" /\ MayMove(crash)
    /\ crash' = Moved(crash)
    /\ Sets(crash)
    /\ UNCHANGED <<worker, press, pressFrame>>
    /\ ThreadKeeps

\* After its crash or a stop.
WorkerEnds ==
    /\ \/ worker = "crashing" /\ crash.todo = <<>>
       \/ worker = "running" /\ stop
    /\ worker' = "dead"
    /\ UNCHANGED <<errorVars, stop>>
    /\ ThreadKeeps

PressKeeps == UNCHANGED <<worker, crash>> /\ ThreadKeeps

\* The first checks of handle_button_press.  A press they turn away, or one that
\* waits for _accept_lock behind this one, changes nothing.
PressArrives ==
    /\ press = "idle"
    /\ held \cap Range(ButtonObjects) # {}
    /\ ~stop /\ WorkerAlive /\ ~Locked("fatal") /\ ~fatal
    /\ press' = "checked"
    /\ UNCHANGED <<pressFrame, fatal, stop>>
    /\ PressKeeps

\* Under _accept_lock it looks again, at the worker and the error only.
PressLocks ==
    /\ press = "checked"
    /\ ~Locked("fatal")
    /\ press' = IF WorkerAlive /\ ~fatal THEN "locked" ELSE "idle"
    /\ UNCHANGED <<pressFrame, fatal, stop>>
    /\ PressKeeps

\* The cooldown, or a full queue.
PressIgnored ==
    /\ press = "locked"
    /\ press' = "idle"
    /\ UNCHANGED <<pressFrame, fatal, stop>>
    /\ PressKeeps

PressStored ==
    /\ press = "locked" /\ "queue" \in held
    /\ press' = "setting"
    /\ pressFrame' = Frame(<<"work">>)
    /\ UNCHANGED <<fatal, stop>>
    /\ PressKeeps

\* enqueue raises: a locked database, a full disk, a queue that is closed.
PressFails ==
    /\ press = "locked"
    /\ press' = "setting"
    /\ pressFrame' = Frame(ErrorSections)
    /\ UNCHANGED <<fatal, stop>>
    /\ PressKeeps

PressSection ==
    /\ press = "setting" /\ MayMove(pressFrame)
    /\ pressFrame' = Moved(pressFrame)
    /\ Sets(pressFrame)
    /\ UNCHANGED press
    /\ PressKeeps

PressEnds ==
    /\ press = "setting" /\ pressFrame.todo = <<>>
    /\ press' = "idle"
    /\ UNCHANGED <<pressFrame, fatal, stop>>
    /\ PressKeeps

-----------------------------------------------------------------------------
(* The specification.                                                      *)

MainInit ==
    /\ file \in {<<f>> : f \in Files}
    /\ mode = "list"
    /\ pc = "load"
    /\ buttons = <<>>
    /\ pins = [o \in GpioObjects |-> 0]
    /\ reach = {}
    /\ todo = <<>>
    /\ held = {}
    /\ frames = <<Frame(<<>>)>>
    /\ signals = 0
    /\ stop = FALSE
    /\ deadline = "none"
    /\ worker = "none"
    /\ crash = Frame(<<>>)
    /\ press = "idle"
    /\ pressFrame = Frame(<<>>)
    /\ fatal = FALSE
    /\ outlived = FALSE
    /\ detached = FALSE
    /\ code = Undecided
    /\ answers = {}
    /\ stuck = {}
    /\ aborted = FALSE

MainStep ==
    \/ LoadFails \/ Load \/ BuildDispatcher \/ GpiozeroThere \/ GpiozeroMissing
    \/ QueueOpens \/ QueueFails \/ Construct \/ ConstructFails \/ Constructed
    \/ Release \/ ReleaseFails \/ CleanedUp \/ Finished
    \/ DispatchTest \/ LampOn \/ LampFails \/ LookForStop \/ LookForError
    \/ Join \/ ShutdownDone
    \/ EnterSection \/ LeaveSection \/ HandlerReturns

WorkerStep == WorkerCrashes \/ WorkerSection \/ WorkerEnds

PressStep ==
    \/ PressArrives \/ PressLocks \/ PressIgnored \/ PressStored \/ PressFails
    \/ PressSection \/ PressEnds

MainNext == MainStep \/ WorkerStep \/ PressStep \/ Signal

MainSpec == MainInit /\ [][MainNext]_mainVars

\* The main thread runs, and a worker that crashes and a press get through their
\* short sections; nobody need press, crash, or end after a stop.
MainFairness ==
    WF_mainVars(MainStep) /\ WF_mainVars(WorkerSection) /\ WF_mainVars(PressSection)

FairMainSpec == MainSpec /\ MainFairness

-----------------------------------------------------------------------------
(* Properties.                                                             *)

\* Type correctness.
MainTypeOK ==
    /\ Len(file) <= 1
    /\ mode \in Modes
    /\ pc \in {"load", "dispatcher", "gpiozero", "queue", "construct", "clean up",
               "finally", "test", "lamp", "look", "fatal?", "join", "close", "exited"}
    /\ buttons \in {SubSeq(ButtonObjects, 1, n) : n \in 0 .. Len(ButtonObjects)}
    /\ pins \in [GpioObjects -> Int]
    /\ \A i \in DOMAIN todo : todo[i] \in Objects \cup {"worker"}
    /\ held \in SUBSET Objects
    /\ Len(frames) \in 1 .. 1 + MaxSignals
    /\ \A i \in DOMAIN frames : frames[i].inside => frames[i].todo # <<>>
    /\ signals \in 0 .. MaxSignals
    /\ stop \in BOOLEAN
    /\ deadline \in {"none", "signal", "shutdown"}
    /\ worker \in {"none", "running", "crashing", "dead"}
    /\ press \in {"idle", "checked", "locked", "setting"}
    /\ fatal \in BOOLEAN
    /\ outlived \in BOOLEAN
    /\ detached \in BOOLEAN
    /\ code \in {Undecided, 0, 1, 2}
    /\ pc = "exited" => code # Undecided
    /\ answers \in SUBSET Results
    /\ stuck \in SUBSET Objects
    /\ aborted \in BOOLEAN

\* README.md, Configuration: "if a button references a name that is missing or
\* disabled, startup stops with a configuration error".  What an accepted file
\* promises the other modules, of its routing and of its numbers.
AcceptedIsSound ==
    \A i \in DOMAIN file :
        Verdict(file[i]) = "accepted" => RoutingIsSound(file[i]) /\ NumbersAreSound(file[i])

\* Nothing stays open but what could not be closed, wherever the construction
\* failed: two objects that want the same pin, a queue that cannot be opened by
\* a validation.  At the end of an orderly shutdown that holds as well, except
\* for what a worker or a detached request may still use.
ReleasedUnlessAborted ==
    pc = "exited" /\ ~aborted =>
        held \subseteq stuck \cup (IF outlived THEN {"alive_led", "send_led", "dispatcher", "queue"}
                                   ELSE IF detached THEN {"queue"} ELSE {})

\* Whatever becomes of the main thread, it takes nothing from a live worker:
\* neither a failed construction nor a shutdown that waited in vain closes the
\* send LED, the dispatcher or the queue under it.
WorkerKeepsItsObjects == WorkerAlive => {"send_led", "dispatcher", "queue"} \subseteq held

\* The exit code tells what happened.  The service ends with 0 only after a
\* signal and with no fatal error, be it a crash of the worker or a press that
\* could not be stored; a crash it does not know of yet is one of a worker that
\* main had waited for in vain.  --test ends with 0 when everybody was reached
\* and with 1 when somebody was not, and 2 is left for configuration errors.
ExitCodeIsHonest ==
    pc = "exited" /\ ~aborted =>
        /\ mode = "serve" /\ code = 0 =>
              signals > 0 /\ ~fatal /\ (worker = "crashing" => outlived)
        /\ mode = "test" => code = (IF reach = {} THEN 2 ELSE IF answers = {"success"} THEN 0 ELSE 1)

\* The grace period counts from the first signal, not anew from the shutdown it
\* leads to or from another signal; only where no signal asked for the shutdown
\* does shutdown begin it, after a crash of the worker or a press that could not
\* be stored.
GraceFromTheSignal == mode = "serve" /\ deadline = "shutdown" => fatal

\* A handler on top of the stack waits for a lock that a frame below it holds.
BlockedOnItself ==
    /\ Len(frames) > 1 /\ Top.todo # <<>> /\ ~Top.inside
    /\ \E i \in 1 .. Len(frames) - 1 :
          Inside(frames[i], Head(Top.todo))

\* An ordinary stop, one signal to a service without a fatal error, neither from
\* its worker nor from a press, does not do that: the shutdown that goes through
\* the locks begins when the handler has returned, whatever the other threads do.
OneSignalNeverBlocks == signals <= 1 /\ ~fatal => ~BlockedOnItself

\* Once a stop is asked for, by a signal or by a fatal error, the
\* program ends, although its worker may never end, unless another signal comes
\* at a moment when the main thread itself holds the lock its handler needs.
ShutdownEndsUnlessBlocked == stop ~> pc = "exited" \/ BlockedOnItself

\* README.md, Operational Notes: "During shutdown, new button presses are
\* rejected and in-flight work is allowed a bounded grace period": so a shutdown
\* ends.
ShutdownEnds == stop ~> pc = "exited"

=============================================================================
