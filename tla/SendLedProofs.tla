---------------------------- MODULE SendLedProofs ----------------------------
(***************************************************************************)
(* Proofs about SendLedController, for any number of generations: the      *)
(* inductive invariant LedInv, the two safety invariants it contains, and  *)
(* that a closed lamp stays closed.                                        *)
(***************************************************************************)
EXTENDS SendLedController, TLAPS

-----------------------------------------------------------------------------
(* The inductive invariant.                                                *)

\* Threads and timers exist for generations that have begun only, so the next
\* generation finds none of its own; a timer is running or has run out.
NothingAhead ==
    /\ \A g \in Generations : blinker[g] # "none" => g <= generation
    /\ armed \cup fired \subseteq 1 .. generation
    /\ armed \cap fired = {}

\* What may touch the lamp belongs to what is shown: a timer of the present
\* generation to a success, a thread of it to a blinking.
ModeOwnsLamp ==
    ~shut =>
        /\ generation \in armed \cup fired => shown = "success"
        /\ shown = "success" => blinker[generation] = "none"
        /\ shown # "nothing" => generation # 0
        /\ shown = "nothing" /\ generation # 0 => blinker[generation] = "none"

ClosedMeansShut == led = "closed" => shut

\* The inductive invariant of the proofs.
LedInv ==
    /\ LedTypeOK
    /\ NothingAhead
    /\ ModeOwnsLamp
    /\ ClosedMeansShut
    /\ DarkWhenQuiet
    /\ SuccessIsSteady


\* What holds of the lamp itself, apart from types.
LampInv ==
    /\ NothingAhead
    /\ ModeOwnsLamp
    /\ ClosedMeansShut
    /\ DarkWhenQuiet
    /\ SuccessIsSteady

-----------------------------------------------------------------------------
(* Types.                                                                  *)

\* A new generation is within the bound.
LEMMA NewGenerationTypes ==
    ASSUME LedTypeOK, NewGeneration
    PROVE  /\ generation' \in Generations
           /\ generation' \in 0 .. MaxGeneration
           /\ told' \in SUBSET Generations
           /\ known' \in 0 .. MaxGeneration
<1>1. {known} \ {0} \in SUBSET Generations
  BY DEF LedTypeOK, Generations
<1> QED
  BY <1>1, GenerationAssumption DEF NewGeneration, LedTypeOK, Generations

\* The beginning of a blinking keeps the types.
LEMMA CreateBlinkerTypes ==
    ASSUME LedTypeOK, NEW what \in {"activity", "failure"}, CreateBlinker(what),
           failures' = failures \/ failures' = failures \cup {generation'}
    PROVE  LedTypeOK'
<1>1. /\ generation' \in Generations
      /\ generation' \in 0 .. MaxGeneration
      /\ told' \in SUBSET Generations
      /\ known' \in 0 .. MaxGeneration
  BY NewGenerationTypes DEF CreateBlinker
<1>2. blinker' \in [Generations -> BlinkerStates]
  BY <1>1 DEF CreateBlinker, LedTypeOK, BlinkerStates
<1> QED
  BY <1>1, <1>2 DEF CreateBlinker, LedTypeOK, WorkerStates

\* Every step of the worker keeps the types.
LEMMA WorkerTypes ==
    ASSUME LedTypeOK, WorkerStep
    PROVE  LedTypeOK'
<1> USE GenerationAssumption DEF LedTypeOK, Generations, BlinkerStates, WorkerStates,
        NewGeneration, modeVars, timerVars
<1>1. CASE StartActivity
  <2>1. CASE ReturnsWhenShut("free", "dispatching")
    BY <2>1 DEF ReturnsWhenShut
  <2> QED
    BY <1>1, <2>1, CreateBlinkerTypes DEF StartActivity
<1>2. CASE StartThread
  BY <1>2 DEF StartThread
<1>3. CASE Register
  BY <1>3 DEF Register
<1>4. CASE StopActivity
  BY <1>4 DEF StopActivity, LampAfterActivity
<1>5. CASE ShowSuccess
  <2>1. CASE ReturnsWhenShut("stopped", "free")
    BY <2>1 DEF ReturnsWhenShut
  <2>2. CASE ~ReturnsWhenShut("stopped", "free")
    <3>1. /\ generation' \in Generations
          /\ generation' \in 0 .. MaxGeneration
          /\ told' \in SUBSET Generations
          /\ known' \in 0 .. MaxGeneration
      BY <1>5, <2>2, NewGenerationTypes DEF ShowSuccess
    <3>2. /\ UNCHANGED <<shut, stopping, blinker, failures, fired>>
          /\ led' \in {"on", "off"}
          /\ armed' \in {{}, {generation'}}
          /\ worker' = "free"
          /\ shown' \in {"success", "nothing"}
      BY <1>5, <2>2 DEF ShowSuccess
    <3>3. armed' \in SUBSET Generations
      BY <3>1, <3>2
    <3> QED
      BY <3>1, <3>2, <3>3
  <2> QED
    BY <2>1, <2>2
<1>6. CASE ShowFailure
  BY <1>6, CreateBlinkerTypes DEF ShowFailure
<1>7. CASE WorkerEnds
  BY <1>7 DEF WorkerEnds
<1> QED
  BY <1>1, <1>2, <1>3, <1>4, <1>5, <1>6, <1>7 DEF WorkerStep

\* Every step of a thread, a timer or the main thread keeps the types.
LEMMA ThreadTypes ==
    ASSUME LedTypeOK,
           \/ \E g \in Generations : BlinkerStep(g) \/ TimerStep(g)
           \/ Stop
           \/ ShutDown
    PROVE  LedTypeOK'
<1> USE GenerationAssumption DEF LedTypeOK, Generations, BlinkerStates, WorkerStates,
        NewGeneration, modeVars, timerVars
<1>1. ASSUME NEW g \in Generations, BlinkerStep(g) PROVE LedTypeOK'
  <2>1. /\ UNCHANGED <<modeVars, shut, stopping, failures, timerVars, worker, shown>>
        /\ \E to \in BlinkerStates : blinker' = [blinker EXCEPT ![g] = to]
    BY <1>1 DEF BlinkerStep, Check, Light, Lit, Darken, Dark, EndBlink, Goes
  <2>2. led' \in {led, "on", "off"}
    BY <1>1 DEF BlinkerStep, Check, Light, Lit, Darken, Dark, EndBlink, Goes
  <2> QED
    BY <2>1, <2>2
<1>2. ASSUME NEW g \in Generations, TimerStep(g) PROVE LedTypeOK'
  BY <1>2 DEF TimerStep, TimerFires, FinishHold
<1>3. CASE Stop
  BY <1>3 DEF Stop
<1>4. CASE ShutDown
  BY <1>4 DEF ShutDown
<1> QED
  BY <1>1, <1>2, <1>3, <1>4

-----------------------------------------------------------------------------
(* The lamp.                                                               *)

\* A new generation begins with neither a thread nor a timer of its own.
LEMMA FreshGeneration ==
    ASSUME LedTypeOK, NothingAhead, NewGeneration
    PROVE  /\ generation' = generation + 1
           /\ generation' \in Generations
           /\ blinker[generation'] = "none"
           /\ generation' \notin armed \cup fired
           /\ 1 .. generation \subseteq 1 .. generation'
  BY GenerationAssumption DEF LedTypeOK, NothingAhead, NewGeneration, Generations

\* A blinking begins: the timers of the success are cancelled, and a timer that
\* fired before belongs to an older generation.
LEMMA CreateBlinkerLamp ==
    ASSUME LedTypeOK, LampInv, NEW what \in {"activity", "failure"}, CreateBlinker(what)
    PROVE  LampInv'
<1> USE DEF LampInv
<1>1. /\ ~shut /\ ~shut' /\ NewGeneration
      /\ armed' = {} /\ fired' = fired
      /\ blinker' = [blinker EXCEPT ![generation'] = "created"]
      /\ shown' = what
      /\ led' = led
  BY DEF CreateBlinker
<1>2. /\ generation' = generation + 1
      /\ generation' \in Generations
      /\ generation' \notin fired
      /\ 1 .. generation \subseteq 1 .. generation'
  BY <1>1, FreshGeneration
<1>3. blinker' \in [Generations -> BlinkerStates] /\ blinker'[generation'] = "created"
  BY <1>1, <1>2 DEF LedTypeOK, BlinkerStates
<1>4. NothingAhead'
  <2>1. ASSUME NEW g \in Generations, blinker'[g] # "none" PROVE g <= generation'
    BY <1>1, <1>2, <2>1 DEF NothingAhead, LedTypeOK, Generations
  <2>2. armed' \cup fired' \subseteq 1 .. generation'
    BY <1>1, <1>2 DEF NothingAhead
  <2> QED
    BY <1>1, <2>1, <2>2 DEF NothingAhead
<1>5. ModeOwnsLamp' /\ DarkWhenQuiet' /\ SuccessIsSteady' /\ ClosedMeansShut'
  BY <1>1, <1>2, <1>3
     DEF ModeOwnsLamp, DarkWhenQuiet, SuccessIsSteady, ClosedMeansShut, Generations
<1> QED
  BY <1>4, <1>5

\* A call that ends the mode, or begins a success, starts a generation that no
\* thread belongs to; what it leaves of the timers is its own or older.
LEMMA NewModeLamp ==
    ASSUME LedTypeOK, LampInv, NewGeneration,
           UNCHANGED <<blinker, fired>>,
           \/ armed' = armed
           \/ armed' = {}
           \/ armed' = {generation'} /\ shown' = "success",
           shown' \in {"nothing", "success"} \/ shut',
           led' = "closed" => shut',
           ~shut' => led' = (IF shown' = "success" THEN "on" ELSE "off")
    PROVE  LampInv'
<1> USE DEF LampInv
<1>1. /\ generation' = generation + 1
      /\ generation' \in Generations
      /\ blinker[generation'] = "none"
      /\ generation' \notin armed \cup fired
      /\ 1 .. generation \subseteq 1 .. generation'
  BY FreshGeneration
<1>2. NothingAhead'
  <2>1. ASSUME NEW g \in Generations, blinker'[g] # "none" PROVE g <= generation'
    BY <1>1, <2>1 DEF NothingAhead, LedTypeOK, Generations
  <2>2. generation' \in 1 .. generation'
    BY <1>1 DEF Generations
  <2>3. armed' \cup fired' \subseteq 1 .. generation'
    BY <1>1, <2>2 DEF NothingAhead
  <2> QED
    BY <1>1, <2>1, <2>3 DEF NothingAhead
<1>3. ModeOwnsLamp' /\ DarkWhenQuiet' /\ SuccessIsSteady' /\ ClosedMeansShut'
  BY <1>1
     DEF ModeOwnsLamp, DarkWhenQuiet, SuccessIsSteady, ClosedMeansShut, Generations
<1> QED
  BY <1>2, <1>3

\* A step that leaves the lamp, its generation and the timers alone, and of the
\* threads changes only that one starts, keeps everything.
LEMMA QuietStepLamp ==
    ASSUME LedTypeOK, LampInv, UNCHANGED <<led, generation, shut, armed, fired, shown>>,
           \/ blinker' = blinker
           \/ \E g \in Generations :
                 blinker[g] = "created" /\ blinker' = [blinker EXCEPT ![g] = "check"]
    PROVE  LampInv'
<1> USE DEF LampInv
<1>1. CASE blinker' = blinker
  BY <1>1 DEF NothingAhead, ModeOwnsLamp, ClosedMeansShut, DarkWhenQuiet, SuccessIsSteady
<1>2. ASSUME NEW g \in Generations, blinker[g] = "created",
             blinker' = [blinker EXCEPT ![g] = "check"]
      PROVE  LampInv'
  <2>1. /\ blinker'[g] = "check"
        /\ \A h \in Generations : h # g => blinker'[h] = blinker[h]
    BY <1>2 DEF LedTypeOK
  <2>2. generation \in Generations \/ generation = 0
    BY DEF LedTypeOK, Generations
  <2>3. NothingAhead'
    BY <1>2, <2>1 DEF NothingAhead
  <2>4. ModeOwnsLamp' /\ DarkWhenQuiet' /\ SuccessIsSteady' /\ ClosedMeansShut'
    BY <1>2, <2>1, <2>2
       DEF ModeOwnsLamp, ClosedMeansShut, DarkWhenQuiet, SuccessIsSteady
  <2> QED
    BY <2>3, <2>4
<1> QED
  BY <1>1, <1>2

\* The worker's calls keep the lamp in order.
LEMMA WorkerLamp ==
    ASSUME LedTypeOK, LampInv, WorkerStep
    PROVE  LampInv'
<1> USE DEF modeVars, timerVars
<1>1. CASE StartActivity
  <2>1. CASE CreateBlinker("activity")
    BY <2>1, CreateBlinkerLamp
  <2>2. CASE ReturnsWhenShut("free", "dispatching")
    BY <2>2, QuietStepLamp DEF ReturnsWhenShut
  <2> QED
    BY <1>1, <2>1, <2>2 DEF StartActivity
<1>2. CASE StartThread
  BY <1>2, QuietStepLamp DEF StartThread
<1>3. CASE Register
  BY <1>3, QuietStepLamp DEF Register
<1>4. CASE StopActivity
  <2>1. led' = "closed" => shut'
    BY <1>4 DEF StopActivity, LampAfterActivity, LampInv, ClosedMeansShut
  <2> QED
    BY <1>4, <2>1, NewModeLamp DEF StopActivity, LampAfterActivity
<1>5. CASE ShowSuccess
  <2>1. CASE ReturnsWhenShut("stopped", "free")
    BY <2>1, QuietStepLamp DEF ReturnsWhenShut
  <2>2. CASE ~ReturnsWhenShut("stopped", "free")
    BY <1>5, <2>2, NewModeLamp DEF ShowSuccess
  <2> QED
    BY <2>1, <2>2
<1>6. CASE ShowFailure
  BY <1>6, CreateBlinkerLamp DEF ShowFailure
<1>7. CASE WorkerEnds
  BY <1>7, QuietStepLamp DEF WorkerEnds
<1> QED
  BY <1>1, <1>2, <1>3, <1>4, <1>5, <1>6, <1>7 DEF WorkerStep

\* A blinking thread switches the lamp only while its generation is the present
\* one, which then is no success, and leaves it dark.
LEMMA BlinkerLamp ==
    ASSUME LedTypeOK, LampInv, NEW g \in Generations, BlinkerStep(g)
    PROVE  LampInv'
<1> USE DEF LampInv
<1>1. /\ UNCHANGED <<generation, shut, armed, fired, shown>>
      /\ blinker[g] # "none"
      /\ \E to \in BlinkerStates \ {"none"} : blinker' = [blinker EXCEPT ![g] = to]
  BY DEF BlinkerStep, Check, Light, Lit, Darken, Dark, EndBlink, Goes, BlinkerStates,
         modeVars, timerVars
<1>2. /\ blinker'[g] # "none"
      /\ \A h \in Generations : h # g => blinker'[h] = blinker[h]
  BY <1>1 DEF LedTypeOK
<1>3. generation \in Generations \/ generation = 0
  BY DEF LedTypeOK, Generations
<1>4. g \in Nat /\ g # 0
  BY GenerationAssumption DEF Generations
<1>5. NothingAhead'
  BY <1>1, <1>2 DEF NothingAhead
<1>6. CASE ~Owns(g)
  <2>1. led' = led
    BY <1>6 DEF BlinkerStep, Check, Light, Lit, Darken, Dark, EndBlink
  <2> QED
    BY <1>1, <1>2, <1>3, <1>5, <1>6, <2>1
       DEF Owns, ModeOwnsLamp, ClosedMeansShut, DarkWhenQuiet, SuccessIsSteady
<1>7. CASE Owns(g)
  <2>1. ~shut /\ generation = g /\ shown \notin {"nothing", "success"}
    BY <1>1, <1>4, <1>7 DEF Owns, ModeOwnsLamp
  <2>2. led' \in {led, "on", "off"} /\ (blinker'[g] = "over" => led' = "off")
    BY <1>7 DEF BlinkerStep, Check, Light, Lit, Darken, Dark, EndBlink, Goes, LedTypeOK
  <2> QED
    BY <1>1, <1>2, <1>5, <2>1, <2>2
       DEF ModeOwnsLamp, ClosedMeansShut, DarkWhenQuiet, SuccessIsSteady
<1> QED
  BY <1>6, <1>7

\* A timer that ran out too late finds another generation.
LEMMA TimerLamp ==
    ASSUME LedTypeOK, LampInv, NEW g \in Generations, TimerStep(g)
    PROVE  LampInv'
<1> USE DEF LampInv
<1>1. CASE TimerFires(g)
  <2>1. /\ UNCHANGED <<led, generation, shut, blinker, shown>>
        /\ armed' \cup fired' = armed \cup fired
        /\ armed' \cap fired' = {}
    BY <1>1 DEF TimerFires, modeVars, NothingAhead
  <2> QED
    BY <2>1 DEF NothingAhead, ModeOwnsLamp, ClosedMeansShut, DarkWhenQuiet, SuccessIsSteady
<1>2. CASE FinishHold(g)
  <2>1. /\ UNCHANGED <<generation, shut, blinker, armed>>
        /\ g \in fired
        /\ fired' = fired \ {g}
        /\ IF Owns(g) THEN led' = "off" /\ shown' = "nothing"
                      ELSE UNCHANGED <<led, shown>>
    BY <1>2 DEF FinishHold, modeVars
  <2>2. NothingAhead'
    BY <2>1 DEF NothingAhead
  <2>3. CASE Owns(g)
    <3>1. ~shut /\ generation = g /\ blinker[g] = "none"
      BY <2>1, <2>3 DEF Owns, ModeOwnsLamp
    <3>2. g \notin armed'
      BY <2>1, <3>1 DEF NothingAhead
    <3> QED
      BY <2>1, <2>2, <2>3, <3>1, <3>2
         DEF ModeOwnsLamp, ClosedMeansShut, DarkWhenQuiet, SuccessIsSteady
  <2>4. CASE ~Owns(g)
    BY <2>1, <2>2, <2>4
       DEF ModeOwnsLamp, ClosedMeansShut, DarkWhenQuiet, SuccessIsSteady
  <2> QED
    BY <2>3, <2>4
<1> QED
  BY <1>1, <1>2 DEF TimerStep

\* The main thread's steps: the lamp is closed under the closed flag.
LEMMA MainLamp ==
    ASSUME LedTypeOK, LampInv, Stop \/ ShutDown
    PROVE  LampInv'
<1>1. CASE Stop
  BY <1>1, QuietStepLamp DEF Stop, modeVars, timerVars
<1>2. CASE ShutDown
  BY <1>2, NewModeLamp DEF ShutDown
<1> QED
  BY <1>1, <1>2

-----------------------------------------------------------------------------
(* The theorems.                                                           *)

\* The invariant holds in every reachable state.
THEOREM LampIsOwned == LedSpec => []LedInv
<1> USE DEF LedInv
<1>1. LedInit => LedInv
  <2> SUFFICES ASSUME LedInit PROVE LedInv
    OBVIOUS
  <2>1. LedTypeOK
    <3>1. 0 \in 0 .. MaxGeneration
      BY GenerationAssumption
    <3> QED
      BY <3>1 DEF LedInit, LedTypeOK, BlinkerStates, WorkerStates
  <2>2. NothingAhead /\ ModeOwnsLamp /\ ClosedMeansShut /\ DarkWhenQuiet /\ SuccessIsSteady
    BY DEF LedInit, NothingAhead, ModeOwnsLamp, ClosedMeansShut, DarkWhenQuiet,
           SuccessIsSteady, Generations
  <2> QED
    BY <2>1, <2>2
<1>2. LedInv /\ [LedNext]_ledVars => LedInv'
  <2> SUFFICES ASSUME LedInv, [LedNext]_ledVars PROVE LedInv'
    OBVIOUS
  <2>1. LampInv
    BY DEF LampInv
  <2>2. CASE WorkerStep
    BY <2>1, <2>2, WorkerTypes, WorkerLamp DEF LampInv
  <2>3. ASSUME NEW g \in Generations, BlinkerStep(g) PROVE LedInv'
    BY <2>1, <2>3, ThreadTypes, BlinkerLamp DEF LampInv
  <2>4. ASSUME NEW g \in Generations, TimerStep(g) PROVE LedInv'
    BY <2>1, <2>4, ThreadTypes, TimerLamp DEF LampInv
  <2>5. CASE Stop \/ ShutDown
    BY <2>1, <2>5, ThreadTypes, MainLamp DEF LampInv
  <2>6. CASE UNCHANGED ledVars
    BY <2>6 DEF ledVars, LedTypeOK, NothingAhead, ModeOwnsLamp, ClosedMeansShut,
                DarkWhenQuiet, SuccessIsSteady
  <2> QED
    BY <2>2, <2>3, <2>4, <2>5, <2>6 DEF LedNext
<1> QED
  BY <1>1, <1>2, PTL DEF LedSpec

\* Types.
THEOREM LedTypes == LedSpec => []LedTypeOK
<1>1. LedInv => LedTypeOK
  BY DEF LedInv
<1> QED
  BY <1>1, LampIsOwned, PTL

\* send_led_controller.py, the generation checks: the lamp is dark when nothing
\* is shown and when the blinking is over, for every interleaving of the worker
\* with all the threads and timers of earlier modes.
THEOREM QuietIsDark == LedSpec => []DarkWhenQuiet
<1>1. LedInv => DarkWhenQuiet
  BY DEF LedInv
<1> QED
  BY <1>1, LampIsOwned, PTL

\* _finish_success_hold and the blinking threads: nobody but its own timer ends
\* a success.
THEOREM SuccessStaysLit == LedSpec => []SuccessIsSteady
<1>1. LedInv => SuccessIsSteady
  BY DEF LedInv
<1> QED
  BY <1>1, LampIsOwned, PTL

\* shutdown closes the lamp for good: every later step of a thread that did not
\* end in time finds the closed flag.
THEOREM LampStaysClosed == LedSpec => ClosedForGood
<1>1. LedInv /\ [LedNext]_ledVars => [led = "closed" => led' = "closed"]_ledVars
  <2> SUFFICES ASSUME LedInv, LedNext, led = "closed" PROVE led' = "closed"
    OBVIOUS
  <2>1. shut
    BY DEF LedInv, ClosedMeansShut
  <2>2. CASE WorkerStep
    BY <2>1, <2>2 DEF WorkerStep, StartActivity, CreateBlinker, ReturnsWhenShut, StartThread,
       Register, StopActivity, LampAfterActivity, ShowSuccess, ShowFailure, WorkerEnds
  <2>3. ASSUME NEW g \in Generations, BlinkerStep(g) \/ TimerStep(g) PROVE led' = "closed"
    BY <2>1, <2>3 DEF BlinkerStep, Check, Light, Lit, Darken, Dark, EndBlink, Owns,
       TimerStep, TimerFires, FinishHold
  <2>4. CASE Stop \/ ShutDown
    BY <2>1, <2>4 DEF Stop, ShutDown
  <2> QED
    BY <2>2, <2>3, <2>4 DEF LedNext
<1> QED
  BY <1>1, LampIsOwned, PTL DEF LedSpec, ClosedForGood

=============================================================================
