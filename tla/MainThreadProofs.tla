-------------------------- MODULE MainThreadProofs --------------------------
(***************************************************************************)
(* Proofs about MainThread, for any set of configuration files and any     *)
(* number of signals: the inductive invariant MainInv and the safety       *)
(* properties of the main thread that follow from it.                      *)
(***************************************************************************)
EXTENDS MainThread, ConfigurationProofs, SequenceTheorems, TLAPS

-----------------------------------------------------------------------------
(* The inductive invariant.                                                *)

\* What the proofs know of a reachable state beyond its types.  The stack: the
\* program's frame goes through the sections of shutdown, each handler through
\* its own in order, the deadline before the stop event, and the program stands
\* still under it.
ShutdownSections ==
    {<<"stop", "work", "deadline">>, <<"work", "deadline">>, <<"deadline">>, <<>>}
HandlerSections == {<<"deadline", "stop", "work">>, <<"stop", "work">>, <<"work">>, <<>>}
ThreadSections == {<<"fatal", "stop", "work">>, <<"stop", "work">>, <<"work">>, <<>>}

StackInOrder ==
    /\ frames \in Seq([todo : ShutdownSections \cup HandlerSections, inside : BOOLEAN])
    /\ Len(frames) \in 1 .. 1 + signals
    /\ frames[1].todo \in ShutdownSections
    /\ frames[1].todo # <<>> => pc = "join"
    /\ \A i \in 2 .. Len(frames) :
          /\ frames[i].todo \in HandlerSections
          /\ frames[i].todo # <<"deadline", "stop", "work">> => deadline # "none"
    /\ Len(frames) > 1 => mode = "serve" /\ pc \in {"look", "fatal?", "join", "close"}
    /\ crash \in [todo : ThreadSections, inside : BOOLEAN]
    /\ pressFrame \in [todo : ThreadSections, inside : BOOLEAN]

\* Where the modes lead, and the exit code they have so far.
ModesInPlace ==
    /\ pc = "load" => mode = "list" /\ code = Undecided /\ file \in {<<f>> : f \in Files}
    /\ mode = "list" => pc \in {"load", "exited"}
    /\ mode = "test" => pc \in {"dispatcher", "construct", "test", "join", "close", "exited"}
    /\ pc = "test" => mode = "test"
    /\ pc \in {"lamp", "look", "fatal?"} => mode = "serve"
    /\ pc = "finally" => Validating
    /\ mode = "serve" /\ pc # "exited" => code \in {Undecided, 1}
    /\ mode = "test" /\ (pc \in {"join", "close"} \/ (pc = "exited" /\ ~aborted)) =>
          code = IF reach = {} THEN 2 ELSE IF answers = {"success"} THEN 0 ELSE 1

\* Nobody stops the service but a signal or a thread that has recorded a fatal
\* error, and before the shutdown a signal leads to it has begun, its handler has
\* set the deadline.
StopHasACause ==
    /\ pc = "load" => ~stop /\ ~fatal /\ deadline = "none" /\ worker = "none" /\ press = "idle"
    /\ crash.todo = <<"stop", "work">> => fatal
    /\ pressFrame.todo = <<"stop", "work">> => fatal
    /\ deadline = "signal" => signals > 0
    /\ mode = "serve" /\ deadline = "shutdown" => fatal
    /\ mode = "serve" =>
          /\ stop /\ pc \notin {"clean up", "exited"} => fatal \/ deadline = "signal"
          /\ pc \in {"join", "close"} => fatal \/ deadline = "signal"
          /\ pc = "exited" /\ code = 0 /\ ~aborted => ~fatal /\ deadline = "signal"

\* The worker is made last, after what it uses, and what it uses is on no list
\* of things to release while it lives.
WorkerIsLast ==
    /\ worker # "none" =>
          /\ mode = "serve"
          /\ pc \in {"construct", "lamp", "look", "fatal?", "join", "close", "exited"}
          /\ pc = "construct" => todo = <<>>
    /\ pc = "construct" =>
          /\ {"dispatcher"} \cup (IF mode = "serve" THEN {"queue"} ELSE {}) \subseteq held
          /\ "send_led" \in held \cup Range(todo)
          /\ \A i \in DOMAIN todo : todo[i] = "worker" => i = Len(todo) /\ mode = "serve"
    /\ mode = "serve" /\ pc \in {"lamp", "look", "fatal?", "join"} =>
          {"send_led", "dispatcher", "queue"} \subseteq held
    /\ WorkerAlive =>
          /\ {"send_led", "dispatcher", "queue"} \subseteq held \/ pc = "construct"
          /\ pc = "close" => outlived
          /\ pc = "exited" /\ code = 0 /\ ~aborted => outlived
    /\ outlived \/ detached => mode = "serve" /\ pc \in {"close", "exited"}
    /\ outlived /\ pc = "close" =>
          Range(todo) \cap {"send_led", "dispatcher", "queue"} = {}

\* What is open before the construction, and what is open and not on the list
\* of things to release once there is one.
InUse == IF outlived THEN {"alive_led", "send_led", "dispatcher", "queue"}
         ELSE IF detached THEN {"queue"} ELSE {}

ToRelease == UNION {ReleasedWith(o) : o \in Range(todo)}

OpenIsListed ==
    /\ todo \in Seq(Objects \cup {"worker"})
    /\ pc # "construct" => "worker" \notin Range(todo)
    /\ buttons \in Seq(Range(ButtonObjects))
    /\ held \cap Range(ButtonObjects) \subseteq Range(buttons)
    /\ mode = "test" => "queue" \notin held
    /\ pc = "construct" =>
          Range(todo) \subseteq {"alive_led", "send_led", "send_led_controller", "worker"}
                                   \cup Range(buttons)
    /\ pc \in {"load", "dispatcher"} => held = {}
    /\ pc = "queue" => held = {"dispatcher"}
    /\ pc = "gpiozero" => held = IF mode = "serve" THEN {"dispatcher"} ELSE {"dispatcher", "queue"}
    /\ pc = "clean up" =>
          held \subseteq stuck \cup ToRelease
                            \cup (IF Validating THEN {"dispatcher", "queue"} ELSE {})
    /\ pc = "finally" => held \subseteq stuck \cup Range(todo)
    /\ pc = "close" => held \subseteq stuck \cup ToRelease \cup InUse
    /\ pc = "exited" /\ ~aborted => held \subseteq stuck \cup InUse

MainInv ==
    /\ MainTypeOK
    /\ StackInOrder
    /\ ModesInPlace
    /\ StopHasACause
    /\ WorkerIsLast
    /\ OpenIsListed


-----------------------------------------------------------------------------
(* Sequences.                                                              *)

\* What is on a list is its head and what is on its tail.
LEMMA HeadOrTail ==
    ASSUME NEW S, NEW s \in Seq(S), s # <<>>
    PROVE  /\ Range(s) = {Head(s)} \cup Range(Tail(s))
           /\ Head(s) \in S
           /\ Tail(s) \in Seq(S)
           /\ Head(s) = s[1]
<1>1. /\ Head(s) \in S
      /\ Tail(s) \in Seq(S)
      /\ Len(Tail(s)) = Len(s) - 1
      /\ \A i \in 1 .. Len(Tail(s)) : Tail(s)[i] = s[i + 1]
  BY HeadTailProperties
<1>2. Range(s) = {s[i] : i \in 1 .. Len(s)}
  BY RangeEquality
<1>3. Range(Tail(s)) = {Tail(s)[i] : i \in 1 .. Len(Tail(s))}
  BY <1>1, RangeEquality
<1>4. Len(s) \in Nat /\ Len(s) > 0
  BY EmptySeq
<1>5. Head(s) = s[1]
  BY <1>4
<1>6. \A i \in 1 .. Len(s) : i = 1 \/ i - 1 \in 1 .. Len(Tail(s))
  BY <1>1, <1>4
<1>7. \A i \in 1 .. Len(Tail(s)) : i + 1 \in 1 .. Len(s)
  BY <1>1, <1>4
<1>8. Range(s) \subseteq {Head(s)} \cup Range(Tail(s))
  <2> SUFFICES ASSUME NEW i \in 1 .. Len(s), i # 1
               PROVE  s[i] \in Range(Tail(s))
    BY <1>2, <1>5
  <2>1. i - 1 \in 1 .. Len(Tail(s)) /\ (i - 1) + 1 = i
    BY <1>6
  <2> QED
    BY <2>1, <1>1, <1>3
<1>9. {Head(s)} \cup Range(Tail(s)) \subseteq Range(s)
  BY <1>1, <1>2, <1>3, <1>4, <1>5, <1>7
<1> QED
  BY <1>1, <1>5, <1>8, <1>9

\* Short lists, and two lists one after the other.
LEMMA RangeOfNone == Range(<<>>) = {}
  BY DEF Range

\* A list of one.
LEMMA ListOfOne ==
    ASSUME NEW S, NEW a \in S
    PROVE  <<a>> \in Seq(S) /\ Range(<<a>>) = {a} /\ Len(<<a>>) = 1
  BY DEF Range

\* A list of two.
LEMMA ListOfTwo ==
    ASSUME NEW S, NEW a \in S, NEW b \in S
    PROVE  <<a, b>> \in Seq(S) /\ Range(<<a, b>>) = {a, b}
  BY DEF Range

\* A list of three.
LEMMA ListOfThree ==
    ASSUME NEW S, NEW a \in S, NEW b \in S, NEW c \in S
    PROVE  <<a, b, c>> \in Seq(S) /\ Range(<<a, b, c>>) = {a, b, c} /\ Len(<<a, b, c>>) = 3
  BY DEF Range

\* What two lists hold together.
LEMMA OneAfterTheOther ==
    ASSUME NEW S, NEW s \in Seq(S), NEW t \in Seq(S)
    PROVE  s \o t \in Seq(S) /\ Range(s \o t) = Range(s) \cup Range(t)
  BY ConcatProperties, RangeConcatenation

-----------------------------------------------------------------------------
(* The lists of things to make and to release.                             *)

\* The two buttons, and any number of them.
LEMMA ButtonsAreObjects ==
    /\ ButtonObjects \in Seq(GpioObjects)
    /\ Len(ButtonObjects) = 2
    /\ Range(ButtonObjects) = {"button1", "button2"}
    /\ GpioObjects = {"alive_led", "send_led", "button1", "button2"}
    /\ Objects = GpioObjects \cup {"dispatcher", "queue", "send_led_controller"}
    /\ \A n \in 0 .. 2 : SubSeq(ButtonObjects, 1, n) \in Seq(Range(ButtonObjects))
<1>1. ButtonObjects \in Seq({"button1", "button2"})
  BY DEF ButtonObjects
<1>2. Len(ButtonObjects) = 2 /\ DOMAIN ButtonObjects = 1 .. 2
  BY DEF ButtonObjects
<1>3. ButtonObjects[1] = "button1" /\ ButtonObjects[2] = "button2"
  BY DEF ButtonObjects
<1>4. Range(ButtonObjects) = {"button1", "button2"}
  BY ListOfTwo DEF ButtonObjects
<1>5. GpioObjects = {"alive_led", "send_led", "button1", "button2"}
  BY <1>2, <1>3 DEF GpioObjects
<1>6. ButtonObjects \in Seq(GpioObjects)
  BY <1>5 DEF ButtonObjects
<1>7. ASSUME NEW n \in 0 .. 2
      PROVE  SubSeq(ButtonObjects, 1, n) \in Seq(Range(ButtonObjects))
  <2>1. \A i \in 1 .. n : ButtonObjects[i] \in Range(ButtonObjects)
    BY <1>2 DEF Range
  <2> QED
    BY <2>1, SubSeqProperties
<1> QED
  BY <1>2, <1>4, <1>5, <1>6, <1>7 DEF Objects

\* What can be on a list of things to make or to release.
LEMMA TheObjects ==
    LET All == Objects \cup {"worker"}
    IN  /\ "alive_led" \in All /\ "send_led" \in All /\ "send_led_controller" \in All
        /\ "worker" \in All /\ "queue" \in All /\ "dispatcher" \in All
        /\ "button1" \in All /\ "button2" \in All
        /\ \A s \in Seq(Range(ButtonObjects)) :
              s \in Seq(All) /\ Range(s) \subseteq {"button1", "button2"}
<1> DEFINE All == Objects \cup {"worker"}
<1>1. {"alive_led", "send_led", "send_led_controller", "worker", "queue", "dispatcher",
       "button1", "button2"} \subseteq All
  BY ButtonsAreObjects
<1>2. Range(ButtonObjects) \subseteq All
  BY <1>1, ButtonsAreObjects
<1>3. ASSUME NEW s \in Seq(Range(ButtonObjects))
      PROVE  s \in Seq(All) /\ Range(s) \subseteq {"button1", "button2"}
  <2>1. s \in Seq(All)
    <3> HIDE DEF All
    <3> QED
      BY <1>2
  <2>2. Range(s) \subseteq Range(ButtonObjects)
    BY RangeOfSeq
  <2> QED
    BY <2>1, <2>2, ButtonsAreObjects
<1> QED
  BY <1>1, <1>3

\* What the service makes after the queue: its lamps, its buttons and, last, its
\* worker.
LEMMA PartsAre ==
    ASSUME buttons \in Seq(Range(ButtonObjects))
    PROVE  /\ Parts \in Seq(Objects \cup {"worker"})
           /\ "send_led" \in Range(Parts)
           /\ Range(Parts) \subseteq
                {"alive_led", "send_led", "send_led_controller", "worker"} \cup Range(buttons)
           /\ \A i \in DOMAIN Parts :
                 Parts[i] = "worker" => i = Len(Parts) /\ mode = "serve"
<1> DEFINE All == Objects \cup {"worker"}
           lamps == <<"alive_led", "send_led", "send_led_controller">>
           most == lamps \o buttons
           last == IF mode = "serve" THEN <<"worker">> ELSE <<>>
<1>1. /\ lamps \in Seq(All) /\ Len(lamps) = 3
      /\ Range(lamps) = {"alive_led", "send_led", "send_led_controller"}
  BY TheObjects, ListOfThree
<1>2. buttons \in Seq(All) /\ Range(buttons) \subseteq {"button1", "button2"}
  BY TheObjects
<1>3. /\ last \in Seq(All) /\ Range(last) \subseteq {"worker"}
      /\ Len(last) = IF mode = "serve" THEN 1 ELSE 0
  <2>1. CASE mode = "serve"
    BY <2>1, TheObjects, ListOfOne
  <2>2. CASE mode # "serve"
    BY <2>2, RangeOfNone
  <2> QED
    BY <2>1, <2>2
<1>4. Parts = most \o last
  BY DEF Parts
<1> HIDE DEF All, lamps
<1>5. /\ most \in Seq(All) /\ Range(most) = Range(lamps) \cup Range(buttons)
      /\ Len(most) \in Nat
  BY <1>1, <1>2, OneAfterTheOther
<1> HIDE DEF most, last
<1>6. Parts \in Seq(All) /\ Range(Parts) = Range(most) \cup Range(last)
  BY <1>3, <1>4, <1>5, OneAfterTheOther
<1>7. /\ Len(Parts) = Len(most) + Len(last)
      /\ DOMAIN Parts = 1 .. Len(Parts)
      /\ \A i \in 1 .. Len(Parts) : i <= Len(most) => Parts[i] = most[i]
  <2>1. /\ Len(most \o last) = Len(most) + Len(last)
        /\ \A i \in 1 .. Len(most) + Len(last) :
              (most \o last)[i] = IF i <= Len(most) THEN most[i] ELSE last[i - Len(most)]
    BY <1>3, <1>5, ConcatProperties
  <2>2. DOMAIN Parts = 1 .. Len(Parts)
    BY <1>6
  <2> QED
    BY <2>1, <2>2, <1>4
<1>8. ASSUME NEW i \in DOMAIN Parts, Parts[i] = "worker"
      PROVE  i = Len(Parts) /\ mode = "serve"
  <2>1. CASE i <= Len(most)
    <3>1. most[i] \in Range(most)
      BY <1>5, <1>7, <2>1, RangeEquality
    <3>2. most[i] = "worker"
      BY <1>7, <1>8, <2>1
    <3> QED
      BY <3>1, <3>2, <1>1, <1>2, <1>5
  <2>2. CASE ~(i <= Len(most))
    BY <2>2, <1>3, <1>5, <1>7
  <2> QED
    BY <2>1, <2>2
<1>9. Parts \in Seq(Objects \cup {"worker"})
  BY <1>6 DEF All
<1> QED
  BY <1>1, <1>3, <1>5, <1>6, <1>8, <1>9

\* What was made of an object.
LEMMA IfHeldIs ==
    ASSUME NEW o \in Objects \cup {"worker"}
    PROVE  /\ IfHeld(o) \in Seq(Objects \cup {"worker"})
           /\ Range(IfHeld(o)) = {o} \cap held
<1> DEFINE All == Objects \cup {"worker"}
<1>1. <<o>> \in Seq(All) /\ Range(<<o>>) = {o}
  BY ListOfOne
<1>2. <<>> \in Seq(All) /\ Range(<<>>) = {}
  BY RangeOfNone
<1> HIDE DEF All
<1>3. CASE o \in held
  <2>1. IfHeld(o) = <<o>>
    BY <1>3 DEF IfHeld
  <2> QED
    BY <2>1, <1>1, <1>3 DEF All
<1>4. CASE o \notin held
  <2>1. IfHeld(o) = <<>>
    BY <1>4 DEF IfHeld
  <2> QED
    BY <2>1, <1>2, <1>4 DEF All
<1> QED
  BY <1>3, <1>4

\* What is closed when the construction has failed is everything that is open,
\* but for the queue of a validation, which has its finally.
LEMMA CleanUpIsComplete ==
    ASSUME held \in SUBSET Objects
    PROVE  /\ CleanUpOrder \in Seq(Objects \cup {"worker"})
           /\ "worker" \notin Range(CleanUpOrder)
           /\ ~outlived => \A q \in held :
                 \/ q \in UNION {ReleasedWith(o) : o \in Range(CleanUpOrder)}
                 \/ q = "queue" /\ mode # "serve"
<1> DEFINE All == Objects \cup {"worker"}
           s1 == IfHeld(ButtonObjects[1])
           s2 == IfHeld(ButtonObjects[2])
           s3 == IF "send_led_controller" \in held THEN <<"send_led_controller">>
                 ELSE IfHeld("send_led")
           s4 == IfHeld("alive_led")
           s5 == IF mode = "serve" THEN IfHeld("queue") ELSE <<>>
           s6 == IfHeld("dispatcher")
           t2 == s1 \o s2
           t3 == t2 \o s3
           t4 == t3 \o s4
           t5 == t4 \o s5
           t6 == t5 \o s6
<1>1. ButtonObjects[1] = "button1" /\ ButtonObjects[2] = "button2"
  BY DEF ButtonObjects
<1>2. s1 \in Seq(All) /\ Range(s1) = {"button1"} \cap held
  BY <1>1, TheObjects, IfHeldIs
<1>3. s2 \in Seq(All) /\ Range(s2) = {"button2"} \cap held
  BY <1>1, TheObjects, IfHeldIs
<1>4. /\ s3 \in Seq(All)
      /\ Range(s3) = IF "send_led_controller" \in held THEN {"send_led_controller"}
                     ELSE {"send_led"} \cap held
  <2>1. CASE "send_led_controller" \in held
    BY <2>1, TheObjects, ListOfOne
  <2>2. CASE "send_led_controller" \notin held
    BY <2>2, TheObjects, IfHeldIs
  <2> QED
    BY <2>1, <2>2
<1>5. s4 \in Seq(All) /\ Range(s4) = {"alive_led"} \cap held
  BY TheObjects, IfHeldIs
<1>6. /\ s5 \in Seq(All)
      /\ Range(s5) = IF mode = "serve" THEN {"queue"} \cap held ELSE {}
  <2>1. CASE mode = "serve"
    BY <2>1, TheObjects, IfHeldIs
  <2>2. CASE mode # "serve"
    BY <2>2, RangeOfNone
  <2> QED
    BY <2>1, <2>2
<1>7. s6 \in Seq(All) /\ Range(s6) = {"dispatcher"} \cap held
  BY TheObjects, IfHeldIs
<1>8. CleanUpOrder = t6
  BY DEF CleanUpOrder
<1> HIDE DEF All, s1, s2, s3, s4, s5, s6
<1>9. t2 \in Seq(All) /\ Range(t2) = Range(s1) \cup Range(s2)
  BY <1>2, <1>3, OneAfterTheOther
<1> HIDE DEF t2
<1>10. t3 \in Seq(All) /\ Range(t3) = Range(t2) \cup Range(s3)
  BY <1>9, <1>4, OneAfterTheOther
<1> HIDE DEF t3
<1>11. t4 \in Seq(All) /\ Range(t4) = Range(t3) \cup Range(s4)
  BY <1>10, <1>5, OneAfterTheOther
<1> HIDE DEF t4
<1>12. t5 \in Seq(All) /\ Range(t5) = Range(t4) \cup Range(s5)
  BY <1>11, <1>6, OneAfterTheOther
<1> HIDE DEF t5
<1>13. t6 \in Seq(All) /\ Range(t6) = Range(t5) \cup Range(s6)
  BY <1>12, <1>7, OneAfterTheOther
<1> HIDE DEF t6
<1>14. ASSUME NEW o \in held
       PROVE  \/ o \in Range(CleanUpOrder)
              \/ o = "send_led" /\ "send_led_controller" \in Range(CleanUpOrder)
              \/ o = "queue" /\ mode # "serve"
  <2>1. o \in {"alive_led", "send_led", "button1", "button2", "dispatcher", "queue",
               "send_led_controller"}
    BY ButtonsAreObjects
  <2>2. Range(t6) = Range(s1) \cup Range(s2) \cup Range(s3) \cup Range(s4)
                       \cup Range(s5) \cup Range(s6)
    BY <1>9, <1>10, <1>11, <1>12, <1>13
  <2> QED
    BY <2>1, <2>2, <1>2, <1>3, <1>4, <1>5, <1>6, <1>7, <1>8
<1>15. \A o : o \in ReleasedWith(o)
  BY DEF ReleasedWith
<1>16. ~outlived => "send_led" \in ReleasedWith("send_led_controller")
  BY DEF ReleasedWith
<1>17. ASSUME NEW q \in held, ~outlived
       PROVE  \/ q \in UNION {ReleasedWith(o) : o \in Range(CleanUpOrder)}
              \/ q = "queue" /\ mode # "serve"
  BY <1>14, <1>15, <1>16, <1>17
<1>18. "worker" \notin Range(CleanUpOrder)
  <2>1. "worker" \notin held
    BY ButtonsAreObjects
  <2> QED
    BY <2>1, <1>2, <1>3, <1>4, <1>5, <1>6, <1>7, <1>8, <1>9, <1>10, <1>11, <1>12, <1>13
<1>19. CleanUpOrder \in Seq(Objects \cup {"worker"})
  BY <1>8, <1>13 DEF All
<1> QED
  BY <1>17, <1>19, <1>18

\* What shutdown closes, and after it the finally of a validation.
LEMMA CloseOrderIs ==
    ASSUME buttons \in Seq(Range(ButtonObjects)),
           NEW alive \in BOOLEAN, NEW keep \in BOOLEAN
    PROVE  /\ CloseOrder(alive, keep) \in Seq(Objects \cup {"worker"})
           /\ Range(CloseOrder(alive, keep)) =
                Range(buttons) \cup {"send_led_controller"}
                  \cup (IF alive THEN {} ELSE {"alive_led", "dispatcher"})
                  \cup (IF alive \/ mode # "serve" \/ keep THEN {} ELSE {"queue"})
                  \cup (IF Validating THEN {"queue"} ELSE {})
<1> DEFINE All == Objects \cup {"worker"}
           s2 == <<"send_led_controller">>
           u1 == <<"alive_led", "dispatcher">>
           u2 == IF mode # "serve" \/ keep THEN <<>> ELSE <<"queue">>
           u == u1 \o u2
           s3 == IF alive THEN <<>> ELSE u
           s4 == IF Validating THEN <<"queue">> ELSE <<>>
           t2 == buttons \o s2
           t3 == t2 \o s3
           t4 == t3 \o s4
<1>1. buttons \in Seq(All)
  BY TheObjects
<1>2. s2 \in Seq(All) /\ Range(s2) = {"send_led_controller"}
  BY TheObjects, ListOfOne
<1>3. u1 \in Seq(All) /\ Range(u1) = {"alive_led", "dispatcher"}
  BY TheObjects, ListOfTwo
<1>4. u2 \in Seq(All) /\ Range(u2) = IF mode # "serve" \/ keep THEN {} ELSE {"queue"}
  <2>1. CASE mode # "serve" \/ keep
    <3>1. u2 = <<>>
      BY <2>1
    <3> HIDE DEF All, u2
    <3> QED
      BY <2>1, <3>1, RangeOfNone
  <2>2. CASE ~(mode # "serve" \/ keep)
    BY <2>2, TheObjects, ListOfOne
  <2> QED
    BY <2>1, <2>2
<1>5. s4 \in Seq(All) /\ Range(s4) = IF Validating THEN {"queue"} ELSE {}
  <2>1. CASE Validating
    BY <2>1, TheObjects, ListOfOne
  <2>2. CASE ~Validating
    BY <2>2, RangeOfNone
  <2> QED
    BY <2>1, <2>2
<1>6. CloseOrder(alive, keep) = t4
  BY DEF CloseOrder
<1> HIDE DEF All, s2, s4, u1, u2
<1>7. u \in Seq(All) /\ Range(u) = Range(u1) \cup Range(u2)
  BY <1>3, <1>4, OneAfterTheOther
<1> HIDE DEF u
<1>8. s3 \in Seq(All) /\ Range(s3) = IF alive THEN {} ELSE Range(u)
  <2>1. CASE alive
    BY <2>1, RangeOfNone
  <2>2. CASE ~alive
    BY <2>2, <1>7
  <2> QED
    BY <2>1, <2>2
<1> HIDE DEF s3
<1>9. t2 \in Seq(All) /\ Range(t2) = Range(buttons) \cup Range(s2)
  BY <1>1, <1>2, OneAfterTheOther
<1> HIDE DEF t2
<1>10. t3 \in Seq(All) /\ Range(t3) = Range(t2) \cup Range(s3)
  BY <1>9, <1>8, OneAfterTheOther
<1> HIDE DEF t3
<1>11. t4 \in Seq(All) /\ Range(t4) = Range(t3) \cup Range(s4)
  BY <1>10, <1>5, OneAfterTheOther
<1> HIDE DEF t4
<1>12. CloseOrder(alive, keep) \in Seq(Objects \cup {"worker"})
  BY <1>6, <1>11 DEF All
<1> QED
  BY <1>2, <1>3, <1>4, <1>5, <1>6, <1>7, <1>8, <1>9, <1>10, <1>11, <1>12

-----------------------------------------------------------------------------
(* The stack.                                                              *)

\* The sections left of a list of sections.
LEMMA SectionsGoOn ==
    /\ \A s \in ShutdownSections : s # <<>> => Tail(s) \in ShutdownSections
    /\ \A s \in HandlerSections :
          s # <<>> =>
             /\ Tail(s) \in HandlerSections
             /\ Tail(s) # <<"deadline", "stop", "work">>
             /\ Head(s) = "deadline" => s = <<"deadline", "stop", "work">>
             /\ s = <<"deadline", "stop", "work">> => Head(s) = "deadline"
             /\ Head(s) = "stop" => s # <<"deadline", "stop", "work">>
    /\ \A s \in ThreadSections : s # <<>> => Tail(s) \in ThreadSections
    /\ <<>> \in ShutdownSections /\ <<>> \in HandlerSections /\ <<>> \in ThreadSections
    /\ <<"stop", "work", "deadline">> \in ShutdownSections
    /\ <<"deadline", "stop", "work">> \in HandlerSections
    /\ <<"fatal", "stop", "work">> \in ThreadSections /\ <<"work">> \in ThreadSections
    /\ \A s \in ThreadSections :
          s # <<>> =>
             /\ Head(s) = "stop" => s = <<"stop", "work">>
             /\ Tail(s) = <<"stop", "work">> => Head(s) = "fatal"
  BY DEF ShutdownSections, HandlerSections, ThreadSections

Sections == ShutdownSections \cup HandlerSections
Frames == [todo : Sections, inside : BOOLEAN]

\* Steps of the program's own frame: no handler runs and no section is left.
OwnStep ==
    \/ LoadFails \/ Load \/ BuildDispatcher \/ GpiozeroThere \/ GpiozeroMissing
    \/ QueueOpens \/ QueueFails \/ Construct \/ ConstructFails \/ Constructed
    \/ Release \/ ReleaseFails \/ CleanedUp \/ Finished
    \/ DispatchTest \/ LampOn \/ LampFails \/ LookForStop \/ LookForError
    \/ Join \/ ShutdownDone

\* They find the stack as they leave it, or begin a shutdown on it.
LEMMA OwnStepOnTheStack ==
    ASSUME OwnStep
    PROVE  /\ Undisturbed
           /\ UNCHANGED <<signals, deadline, errorVars>>
           /\ \/ UNCHANGED frames
              \/ /\ frames' = <<Frame(<<"stop", "work", "deadline">>)>>
                 /\ pc' = "join"
           /\ stop' = stop \/ ConstructFails
           /\ mode' = mode \/ Load
<1> USE DEF At, LoadKeeps, BuildKeeps, ReleaseKeeps, RunKeeps, stackVars, threadVars, errorVars,
        fileVars, endVars
<1>1. CASE LoadFails \/ Load
  BY <1>1 DEF LoadFails, Load
<1>2. CASE BuildDispatcher \/ GpiozeroThere \/ GpiozeroMissing \/ QueueOpens \/ QueueFails
  BY <1>2 DEF BuildDispatcher, GpiozeroThere, GpiozeroMissing, QueueOpens, QueueFails
<1>3. CASE Construct
  BY <1>3 DEF Construct
<1>4. CASE ConstructFails
  BY <1>4 DEF ConstructFails
<1>5. CASE Constructed
  BY <1>5 DEF Constructed
<1>6. CASE Release \/ ReleaseFails \/ CleanedUp \/ Finished
  BY <1>6 DEF Release, ReleaseFails, CleanedUp, Finished
<1>7. CASE DispatchTest
  BY <1>7 DEF DispatchTest, ShutDown
<1>8. CASE LampOn \/ LampFails
  BY <1>8 DEF LampOn, LampFails
<1>9. CASE LookForStop
  BY <1>9 DEF LookForStop, ShutDown
<1>10. CASE LookForError
  BY <1>10 DEF LookForError, ShutDown
<1>11. CASE Join
  BY <1>11 DEF Join, JoinReturns
<1>12. CASE ShutdownDone
  BY <1>12 DEF ShutdownDone
<1> QED
  BY <1>1, <1>2, <1>3, <1>4, <1>5, <1>6, <1>7, <1>8, <1>9, <1>10, <1>11, <1>12 DEF OwnStep

\* A step of the program's own frame keeps the stack in order.
LEMMA OwnStepStack ==
    ASSUME StackInOrder, MainTypeOK, OwnStep
    PROVE  /\ StackInOrder'
           /\ \A i \in DOMAIN frames' : frames'[i].inside => frames'[i].todo # <<>>
           /\ Len(frames') = 1
<1>1. /\ Len(frames) = 1 /\ frames[1].todo = <<>>
      /\ UNCHANGED <<signals, deadline, crash, pressFrame>>
      /\ \/ UNCHANGED frames
         \/ /\ frames' = <<Frame(<<"stop", "work", "deadline">>)>>
            /\ pc' = "join"
  BY OwnStepOnTheStack DEF Undisturbed, errorVars
<1>2. CASE UNCHANGED frames
  <2>1. frames' \in Seq([todo : ShutdownSections \cup HandlerSections, inside : BOOLEAN])
    BY <1>2 DEF StackInOrder
  <2>2. Len(frames') = 1 /\ frames'[1].todo = <<>>
    BY <1>1, <1>2
  <2>3. Len(frames') \in 1 .. 1 + signals'
    BY <1>1, <1>2 DEF StackInOrder
  <2>4. ~(Len(frames') > 1) /\ 2 .. Len(frames') = {}
    BY <2>2
  <2>5. /\ crash' \in [todo : ThreadSections, inside : BOOLEAN]
        /\ pressFrame' \in [todo : ThreadSections, inside : BOOLEAN]
    BY <1>1 DEF StackInOrder
  <2>6. \A i \in DOMAIN frames' : frames'[i].inside => frames'[i].todo # <<>>
    BY <1>2 DEF MainTypeOK
  <2> QED
    BY <2>1, <2>2, <2>5, <2>3, <2>4, <2>6, SectionsGoOn DEF StackInOrder
<1>3. CASE frames' = <<Frame(<<"stop", "work", "deadline">>)>> /\ pc' = "join"
  <2> DEFINE f == Frame(<<"stop", "work", "deadline">>)
  <2>1. f \in Frames /\ f.todo \in ShutdownSections /\ f.inside = FALSE
    BY SectionsGoOn DEF Frame, Frames, Sections
  <2> HIDE DEF f
  <2>2. /\ frames' = <<f>>
        /\ frames' \in Seq(Frames) /\ Len(frames') = 1 /\ frames'[1] = f
        /\ DOMAIN frames' = 1 .. 1
    BY <1>3, <2>1 DEF f
  <2> QED
    BY <1>1, <1>3, <2>1, <2>2 DEF StackInOrder, Frames, Sections
<1> QED
  BY <1>1, <1>2, <1>3

\* The stack while a frame, a handler or the crashing worker moves.
LEMMA TopOfTheStack ==
    ASSUME StackInOrder, MainTypeOK
    PROVE  /\ frames \in Seq(Frames) /\ Len(frames) \in Nat /\ Len(frames) >= 1
           /\ Len(frames) \in DOMAIN frames /\ DOMAIN frames = 1 .. Len(frames)
           /\ signals \in Nat /\ MaxSignals \in Nat
           /\ Top \in Frames
<1>1. frames \in Seq(Frames)
  BY DEF StackInOrder, Frames, Sections
<1>2. Len(frames) \in 1 .. 1 + MaxSignals /\ signals \in 0 .. MaxSignals
  BY Zenon DEF MainTypeOK
<1>3. /\ Len(frames) \in Nat /\ Len(frames) >= 1 /\ DOMAIN frames = 1 .. Len(frames)
      /\ signals \in Nat
  BY <1>1, <1>2, MainAssumption
<1>4. Top \in Frames
  BY <1>1, <1>3 DEF Top
<1> QED
  BY <1>1, <1>3, <1>4, MainAssumption

\* To enter a section leaves every list of sections as it is.
LEMMA EnterSectionStack ==
    ASSUME StackInOrder, MainTypeOK, EnterSection
    PROVE  /\ StackInOrder'
           /\ \A i \in DOMAIN frames' : frames'[i].inside => frames'[i].todo # <<>>
           /\ Len(frames') = Len(frames)
<1> DEFINE f == Entered(Top)
<1>1. /\ frames' = [frames EXCEPT ![Len(frames)] = f]
      /\ UNCHANGED <<signals, deadline, crash, pressFrame, pc, mode>>
      /\ Top.todo # <<>>
  BY DEF EnterSection, StackKeeps, threadVars, errorVars, fileVars, Top
<1>2. f \in Frames /\ f.todo = Top.todo
  BY TopOfTheStack DEF Entered, Frames
<1> HIDE DEF f
<1>3. /\ frames' \in Seq(Frames) /\ Len(frames') = Len(frames)
      /\ DOMAIN frames' = DOMAIN frames
      /\ \A i \in DOMAIN frames : frames'[i] = IF i = Len(frames) THEN f ELSE frames[i]
  BY <1>1, <1>2, TopOfTheStack
<1>4. \A i \in DOMAIN frames : frames'[i].todo = frames[i].todo
  BY <1>2, <1>3 DEF Top
<1>5. \A i \in DOMAIN frames' : frames'[i].inside => frames'[i].todo # <<>>
  BY <1>1, <1>2, <1>3, <1>4 DEF MainTypeOK
<1>6. ASSUME NEW i \in 2 .. Len(frames')
      PROVE  /\ frames'[i].todo \in HandlerSections
             /\ frames'[i].todo # <<"deadline", "stop", "work">> => deadline' # "none"
  <2>1. /\ i \in DOMAIN frames /\ i \in 2 .. Len(frames)
        /\ frames'[i].todo = frames[i].todo
    BY <1>3, <1>4, TopOfTheStack
  <2> QED
    BY <2>1, <1>1 DEF StackInOrder
<1>7. 1 \in DOMAIN frames /\ frames'[1].todo = frames[1].todo
  BY <1>4, TopOfTheStack
<1> QED
  BY <1>1, <1>3, <1>5, <1>6, <1>7, TopOfTheStack DEF StackInOrder, Frames, Sections

\* To leave one shortens the list of the top frame, and a handler that goes on to
\* its stop event has set the deadline.
LEMMA LeaveSectionStack ==
    ASSUME StackInOrder, MainTypeOK, LeaveSection
    PROVE  /\ StackInOrder'
           /\ \A i \in DOMAIN frames' : frames'[i].inside => frames'[i].todo # <<>>
           /\ Len(frames') = Len(frames)
<1> DEFINE f == Left(Top)
<1>1. /\ frames' = [frames EXCEPT ![Len(frames)] = f]
      /\ UNCHANGED <<signals, crash, pressFrame, pc, mode>>
  BY DEF LeaveSection, StackKeeps, threadVars, errorVars, fileVars, Top
<1>2. Top.todo # <<>>
  BY TopOfTheStack DEF LeaveSection, Top, MainTypeOK
<1>3. /\ f.todo = Tail(Top.todo) /\ f.inside = FALSE
      /\ f \in Frames
      /\ Top.todo \in ShutdownSections => f.todo \in ShutdownSections
      /\ Top.todo \in HandlerSections => f.todo \in HandlerSections
  BY <1>2, TopOfTheStack, SectionsGoOn DEF Left, Frame, Frames, Sections
<1> HIDE DEF f
<1>4. /\ frames' \in Seq(Frames) /\ Len(frames') = Len(frames)
      /\ DOMAIN frames' = DOMAIN frames
      /\ \A i \in DOMAIN frames : frames'[i] = IF i = Len(frames) THEN f ELSE frames[i]
  BY <1>1, <1>3, TopOfTheStack
<1>5. \A i \in DOMAIN frames' : frames'[i].inside => frames'[i].todo # <<>>
  BY <1>3, <1>4 DEF MainTypeOK
<1>6. deadline # "none" => deadline' # "none"
  BY DEF LeaveSection, NewDeadline
<1>7. Top.todo = <<"deadline", "stop", "work">> => deadline' # "none"
  BY SectionsGoOn DEF LeaveSection, NewDeadline
<1>8. ASSUME NEW i \in 2 .. Len(frames')
      PROVE  /\ frames'[i].todo \in HandlerSections
             /\ frames'[i].todo # <<"deadline", "stop", "work">> => deadline' # "none"
  <2>1. /\ i \in DOMAIN frames
        /\ frames[i].todo \in HandlerSections
        /\ frames[i].todo # <<"deadline", "stop", "work">> => deadline # "none"
    BY <1>4, TopOfTheStack DEF StackInOrder
  <2>2. CASE i = Len(frames)
    BY <2>1, <2>2, <1>3, <1>4, <1>6, <1>7 DEF Top
  <2>3. CASE i # Len(frames)
    BY <2>1, <2>3, <1>4, <1>6
  <2> QED
    BY <2>2, <2>3
<1>9. /\ frames'[1].todo \in ShutdownSections
      /\ frames'[1].todo # <<>> => pc' = "join"
  BY <1>1, <1>2, <1>3, <1>4, TopOfTheStack DEF StackInOrder, Top
<1> QED
  BY <1>1, <1>4, <1>5, <1>8, <1>9, TopOfTheStack DEF StackInOrder, Frames, Sections

\* A signal puts a handler on the stack of the service.
LEMMA SignalStack ==
    ASSUME StackInOrder, MainTypeOK, Signal
    PROVE  /\ StackInOrder'
           /\ \A i \in DOMAIN frames' : frames'[i].inside => frames'[i].todo # <<>>
           /\ Len(frames') = Len(frames) + 1
<1> DEFINE f == Frame(<<"deadline", "stop", "work">>)
<1>1. /\ frames' = Append(frames, f) /\ signals' = signals + 1
      /\ UNCHANGED <<deadline, crash, pressFrame, pc, mode>>
      /\ mode = "serve" /\ pc \in {"look", "fatal?", "join", "close"}
  BY DEF Signal, StackKeeps, threadVars, errorVars, fileVars
<1>2. /\ f \in Frames /\ f.inside = FALSE
      /\ f.todo = <<"deadline", "stop", "work">>
      /\ f.todo \in HandlerSections
  BY SectionsGoOn DEF Frame, Frames, Sections
<1> HIDE DEF f
<1>3. /\ frames' \in Seq(Frames) /\ Len(frames') = Len(frames) + 1
      /\ DOMAIN frames' = 1 .. Len(frames) + 1
      /\ \A i \in 1 .. Len(frames) : frames'[i] = frames[i]
      /\ frames'[Len(frames) + 1] = f
  BY <1>1, <1>2, TopOfTheStack
<1>4. ASSUME NEW i \in DOMAIN frames', frames'[i].inside
      PROVE  frames'[i].todo # <<>>
  <2>1. i \in DOMAIN frames \/ i = Len(frames) + 1
    BY <1>3, TopOfTheStack
  <2>2. CASE i \in DOMAIN frames
    <3>1. frames'[i] = frames[i]
      BY <2>2, <1>3, TopOfTheStack
    <3> QED
      BY <3>1, <2>2, <1>4 DEF MainTypeOK
  <2>3. CASE i = Len(frames) + 1
    BY <2>3, <1>2, <1>3, <1>4
  <2> QED
    BY <2>1, <2>2, <2>3
<1>5. ASSUME NEW i \in 2 .. Len(frames')
      PROVE  /\ frames'[i].todo \in HandlerSections
             /\ frames'[i].todo # <<"deadline", "stop", "work">> => deadline' # "none"
  <2>1. i \in 2 .. Len(frames) \/ i = Len(frames) + 1
    BY <1>3, TopOfTheStack
  <2>2. CASE i \in 2 .. Len(frames)
    BY <2>2, <1>1, <1>3, TopOfTheStack DEF StackInOrder
  <2>3. CASE i = Len(frames) + 1
    BY <2>3, <1>2, <1>3
  <2> QED
    BY <2>1, <2>2, <2>3
<1>6. frames'[1] = frames[1]
  BY <1>3, TopOfTheStack
<1> QED
  BY <1>1, <1>3, <1>4, <1>5, <1>6, TopOfTheStack DEF StackInOrder, Frames, Sections

\* A handler that returns uncovers the frame below it.
LEMMA HandlerReturnsStack ==
    ASSUME StackInOrder, MainTypeOK, HandlerReturns
    PROVE  /\ StackInOrder'
           /\ \A i \in DOMAIN frames' : frames'[i].inside => frames'[i].todo # <<>>
           /\ Len(frames') = Len(frames) - 1
<1>1. /\ frames' = SubSeq(frames, 1, Len(frames) - 1)
      /\ UNCHANGED <<signals, deadline, crash, pressFrame, pc, mode>>
      /\ Len(frames) > 1
  BY DEF HandlerReturns, StackKeeps, threadVars, errorVars, fileVars
<1>2. /\ frames' \in Seq(Frames) /\ Len(frames') = Len(frames) - 1
      /\ DOMAIN frames' = 1 .. Len(frames) - 1
      /\ \A i \in 1 .. Len(frames) - 1 : frames'[i] = frames[i]
  BY <1>1, TopOfTheStack
<1>3. ASSUME NEW i \in DOMAIN frames', frames'[i].inside
      PROVE  frames'[i].todo # <<>>
  <2>1. i \in DOMAIN frames /\ frames'[i] = frames[i]
    BY <1>2, TopOfTheStack
  <2> QED
    BY <2>1, <1>3 DEF MainTypeOK
<1> QED
  BY <1>1, <1>2, <1>3, TopOfTheStack DEF StackInOrder, Frames, Sections

\* A frame of another thread goes through its sections: the error is recorded
\* before the stop event is set.
LEMMA FrameMoves ==
    ASSUME NEW f \in [todo : ThreadSections, inside : BOOLEAN],
           MayMove(f), Sets(f), stop \in BOOLEAN, fatal \in BOOLEAN,
           f.todo = <<"stop", "work">> => fatal
    PROVE  /\ Moved(f) \in [todo : ThreadSections, inside : BOOLEAN]
           /\ Moved(f).todo = <<"stop", "work">> => fatal'
           /\ stop' \in BOOLEAN /\ (stop' => stop \/ fatal)
           /\ fatal' \in BOOLEAN /\ (fatal => fatal')
<1>1. /\ f.todo \in ThreadSections /\ f.todo # <<>>
      /\ Tail(f.todo) \in ThreadSections
      /\ Head(f.todo) = "stop" => f.todo = <<"stop", "work">>
      /\ Tail(f.todo) = <<"stop", "work">> => Head(f.todo) = "fatal"
  BY SectionsGoOn DEF MayMove
<1>2. /\ stop' = (stop \/ Inside(f, "stop"))
      /\ fatal' = (fatal \/ Inside(f, "fatal"))
  BY DEF Sets
<1>3. stop' \in BOOLEAN /\ (stop' => stop \/ fatal)
  BY <1>1, <1>2 DEF Inside
<1>4. fatal' \in BOOLEAN /\ (fatal => fatal')
  BY <1>2 DEF Inside
<1>5. CASE f.inside
  <2>1. Moved(f) = [todo |-> Tail(f.todo), inside |-> FALSE]
    BY <1>5 DEF Moved, Left, Frame
  <2>2. Tail(f.todo) = <<"stop", "work">> => fatal'
    BY <1>1, <1>2, <1>5 DEF Inside
  <2> QED
    BY <2>1, <2>2, <1>1, <1>3, <1>4
<1>6. CASE ~f.inside
  <2>1. Moved(f) = [f EXCEPT !.inside = TRUE]
    BY <1>6 DEF Moved, Entered
  <2>2. Moved(f) \in [todo : ThreadSections, inside : BOOLEAN] /\ Moved(f).todo = f.todo
    BY <2>1
  <2> QED
    BY <2>2, <1>3, <1>4
<1> QED
  BY <1>5, <1>6

\* The lists of sections other threads begin with.
LEMMA NewFrames ==
    /\ Frame(ErrorSections) \in [todo : ThreadSections, inside : BOOLEAN]
    /\ Frame(ErrorSections).todo # <<"stop", "work">>
    /\ Frame(<<"work">>) \in [todo : ThreadSections, inside : BOOLEAN]
    /\ Frame(<<"work">>).todo # <<"stop", "work">>
<1>1. <<"fatal", "stop", "work">> # <<"stop", "work">> /\ <<"work">> # <<"stop", "work">>
  OBVIOUS
<1> QED
  BY <1>1, SectionsGoOn DEF Frame, ErrorSections

\* What the other threads leave alone.
LEMMA ThreadStepKeeps ==
    ASSUME WorkerStep \/ PressStep
    PROVE  pc # "exited" /\ UNCHANGED <<frames, signals, deadline>> /\ StackKeeps
<1>1. CASE WorkerStep
  BY <1>1 DEF WorkerStep, WorkerCrashes, WorkerSection, WorkerEnds, ThreadKeeps
<1>2. CASE PressStep
  BY <1>2 DEF PressStep, PressArrives, PressLocks, PressIgnored, PressStored, PressFails,
     PressSection, PressEnds, PressKeeps, ThreadKeeps
<1> QED
  BY <1>1, <1>2

\* The threads' frames, and what they set.
ThreadsInOrder ==
    /\ crash \in [todo : ThreadSections, inside : BOOLEAN]
    /\ pressFrame \in [todo : ThreadSections, inside : BOOLEAN]
    /\ crash.todo = <<"stop", "work">> => fatal
    /\ pressFrame.todo = <<"stop", "work">> => fatal
    /\ stop \in BOOLEAN /\ fatal \in BOOLEAN
    /\ worker \in {"none", "running", "crashing", "dead"}
    /\ press \in {"idle", "checked", "locked", "setting"}

\* A step of the worker: it stops the service with an error on record, and it
\* does not come to life.
LEMMA WorkerStepThreads ==
    ASSUME ThreadsInOrder, WorkerStep
    PROVE  /\ ThreadsInOrder'
           /\ (stop' => stop \/ fatal) /\ (fatal => fatal')
           /\ worker # "none" /\ worker' # "none" /\ (WorkerAlive' => WorkerAlive)
<1>1. CASE WorkerCrashes
  <2>1. /\ worker = "running" /\ worker' = "crashing" /\ crash' = Frame(ErrorSections)
        /\ UNCHANGED <<press, pressFrame, fatal, stop>>
    BY <1>1 DEF WorkerCrashes
  <2> QED
    BY <2>1, NewFrames DEF ThreadsInOrder, WorkerAlive
<1>2. CASE WorkerSection
  <2>1. /\ worker = "crashing" /\ MayMove(crash) /\ Sets(crash) /\ crash' = Moved(crash)
        /\ UNCHANGED <<worker, press, pressFrame>>
    BY <1>2 DEF WorkerSection
  <2>2. /\ Moved(crash) \in [todo : ThreadSections, inside : BOOLEAN]
        /\ Moved(crash).todo = <<"stop", "work">> => fatal'
        /\ stop' \in BOOLEAN /\ (stop' => stop \/ fatal)
        /\ fatal' \in BOOLEAN /\ (fatal => fatal')
    BY <2>1, FrameMoves DEF ThreadsInOrder
  <2> QED
    BY <2>1, <2>2 DEF ThreadsInOrder, WorkerAlive
<1>3. CASE WorkerEnds
  <2>1. worker \in {"running", "crashing"} /\ worker' = "dead"
        /\ UNCHANGED <<crash, press, pressFrame, fatal, stop>>
    BY <1>3 DEF WorkerEnds, errorVars
  <2> QED
    BY <2>1 DEF ThreadsInOrder, WorkerAlive
<1> QED
  BY <1>1, <1>2, <1>3 DEF WorkerStep

\* A step of a press.
LEMMA PressStepThreads ==
    ASSUME ThreadsInOrder, PressStep
    PROVE  /\ ThreadsInOrder'
           /\ (stop' => stop \/ fatal) /\ (fatal => fatal')
           /\ UNCHANGED worker
           /\ worker # "none" \/ press # "idle"
<1>0. UNCHANGED <<worker, crash>>
  BY DEF PressStep, PressArrives, PressLocks, PressIgnored, PressStored, PressFails,
     PressSection, PressEnds, PressKeeps
<1>1. CASE PressArrives \/ PressLocks \/ PressIgnored \/ PressEnds
  <2>1. /\ press' \in {"idle", "checked", "locked"}
        /\ UNCHANGED <<pressFrame, fatal, stop>>
        /\ worker # "none" \/ press # "idle"
    BY <1>1 DEF PressArrives, PressLocks, PressIgnored, PressEnds, WorkerAlive
  <2> QED
    BY <1>0, <2>1 DEF ThreadsInOrder
<1>2. CASE PressStored \/ PressFails
  <2>1. /\ press = "locked" /\ press' = "setting"
        /\ pressFrame' \in {Frame(ErrorSections), Frame(<<"work">>)}
        /\ UNCHANGED <<fatal, stop>>
    BY <1>2 DEF PressStored, PressFails
  <2>2. /\ pressFrame' \in [todo : ThreadSections, inside : BOOLEAN]
        /\ pressFrame'.todo # <<"stop", "work">>
    BY <2>1, NewFrames
  <2> QED
    BY <1>0, <2>1, <2>2 DEF ThreadsInOrder
<1>3. CASE PressSection
  <2>1. /\ press = "setting" /\ MayMove(pressFrame) /\ Sets(pressFrame)
        /\ pressFrame' = Moved(pressFrame) /\ UNCHANGED press
    BY <1>3 DEF PressSection
  <2>2. /\ Moved(pressFrame) \in [todo : ThreadSections, inside : BOOLEAN]
        /\ Moved(pressFrame).todo = <<"stop", "work">> => fatal'
        /\ stop' \in BOOLEAN /\ (stop' => stop \/ fatal)
        /\ fatal' \in BOOLEAN /\ (fatal => fatal')
    BY <2>1, FrameMoves DEF ThreadsInOrder
  <2> QED
    BY <1>0, <2>1, <2>2 DEF ThreadsInOrder
<1> QED
  BY <1>1, <1>2, <1>3 DEF PressStep

\* Both leave the stack in order.
LEMMA ThreadStack ==
    ASSUME StackInOrder, ThreadsInOrder, WorkerStep \/ PressStep
    PROVE  StackInOrder'
<1>1. ThreadsInOrder'
  BY WorkerStepThreads, PressStepThreads
<1>2. UNCHANGED <<frames, signals, deadline, pc, mode>>
  BY ThreadStepKeeps DEF StackKeeps, fileVars
<1> QED
  BY <1>1, <1>2 DEF StackInOrder, ThreadsInOrder

-----------------------------------------------------------------------------
(* Types.                                                                  *)

\* Steps on the stack and steps of the other threads.
OtherStep ==
    \/ EnterSection \/ LeaveSection \/ HandlerReturns
    \/ WorkerStep \/ PressStep
    \/ Signal

\* A step is one of the program's own frame or another one.
LEMMA EveryStep == MainNext => OwnStep \/ OtherStep
  BY DEF MainNext, MainStep, OwnStep, OtherStep

\* What the latter leave alone.
LEMMA OtherStepKeeps == OtherStep => StackKeeps
  BY ThreadStepKeeps DEF OtherStep, EnterSection, LeaveSection, HandlerReturns, Signal

\* Three parts of MainTypeOK: what the file gave, the stack, and the rest.
FileTypes ==
    /\ Len(file) <= 1
    /\ mode \in Modes
    /\ buttons \in {SubSeq(ButtonObjects, 1, n) : n \in 0 .. Len(ButtonObjects)}
    /\ pins \in [GpioObjects -> Int]

StackTypes ==
    /\ Len(frames) \in 1 .. 1 + MaxSignals
    /\ \A i \in DOMAIN frames : frames[i].inside => frames[i].todo # <<>>
    /\ signals \in 0 .. MaxSignals

Places == {"load", "dispatcher", "gpiozero", "queue", "construct", "clean up",
           "finally", "test", "lamp", "look", "fatal?", "join", "close", "exited"}

OtherTypes ==
    /\ pc \in Places
    /\ held \in SUBSET Objects
    /\ stop \in BOOLEAN
    /\ deadline \in {"none", "signal", "shutdown"}
    /\ worker \in {"none", "running", "crashing", "dead"}
    /\ press \in {"idle", "checked", "locked", "setting"}
    /\ fatal \in BOOLEAN
    /\ outlived \in BOOLEAN
    /\ detached \in BOOLEAN
    /\ code \in {Undecided, 0, 1, 2}
    /\ pc = "exited" => code # Undecided
    /\ answers \in SUBSET Results
    /\ stuck \in SUBSET Objects
    /\ aborted \in BOOLEAN

TodoTypes == \A i \in DOMAIN todo : todo[i] \in Objects \cup {"worker"}

\* Together they are the type invariant.
LEMMA TypeParts == MainTypeOK <=> FileTypes /\ StackTypes /\ OtherTypes /\ TodoTypes
  BY Zenon DEF MainTypeOK, FileTypes, StackTypes, OtherTypes, TodoTypes, Places

\* Also in the next state.
LEMMA TypePartsPrimed ==
    FileTypes' /\ StackTypes' /\ OtherTypes' /\ TodoTypes' => MainTypeOK'
  BY Zenon DEF MainTypeOK, FileTypes, StackTypes, OtherTypes, TodoTypes, Places

\* What MainInv says, part by part.
LEMMA InvParts ==
    ASSUME MainInv
    PROVE  /\ MainTypeOK /\ FileTypes /\ StackTypes /\ OtherTypes /\ TodoTypes
           /\ StackInOrder /\ ModesInPlace /\ StopHasACause /\ WorkerIsLast /\ OpenIsListed
           /\ ThreadsInOrder
<1>1. /\ MainTypeOK /\ FileTypes /\ StackTypes /\ OtherTypes /\ TodoTypes
      /\ StackInOrder /\ ModesInPlace /\ StopHasACause /\ WorkerIsLast /\ OpenIsListed
  BY TypeParts DEF MainInv
<1>2. ThreadsInOrder
  BY <1>1 DEF ThreadsInOrder, OtherTypes, StackInOrder, StopHasACause
<1> QED
  BY <1>1, <1>2

\* Exit codes are not Undecided.
LEMMA Codes == Undecided \notin {0, 1, 2}
  BY DEF Undecided

\* What is taken from the file has its types.
LEMMA LoadTypes ==
    ASSUME FileTypes, ModesInPlace, Load
    PROVE  /\ FileTypes'
           /\ buttons' \in {buttons} \cup {SubSeq(ButtonObjects, 1, n) : n \in 0 .. 2}
<1>1. file[1] \in Files
  <2>1. PICK f \in Files : file = <<f>>
    BY DEF Load, At, ModesInPlace
  <2> QED
    BY <2>1
<1>2. /\ file[1].num \in [Keys -> Float]
      /\ Len(file[1].buttons) \in 0 .. 2
      /\ \A i \in 1 .. Len(file[1].buttons) : file[1].buttons[i].gpio \in Int
  <2>1. file[1] \in File /\ Len(file[1].buttons) <= 2
    BY <1>1, FilesAssumption
  <2>2. file[1].num \in [Keys -> Float] /\ file[1].buttons \in Seq(Button)
    BY <2>1 DEF File
  <2>3. \A i \in 1 .. Len(file[1].buttons) : file[1].buttons[i] \in Button
    BY <2>2, ElementOfSeq
  <2>4. Len(file[1].buttons) \in 0 .. 2
    <3> DEFINE n == Len(file[1].buttons)
    <3>1. n \in Nat /\ n <= 2
      BY <2>1, <2>2, LenProperties
    <3> HIDE DEF n
    <3>2. n \in 0 .. 2
      BY <3>1
    <3> QED
      BY <3>2 DEF n
  <2>5. \A i \in 1 .. Len(file[1].buttons) : file[1].buttons[i].gpio \in Int
    BY <2>3 DEF Button
  <2> QED
    BY <2>2, <2>4, <2>5
<1>3. "alive_led_gpio" \in Keys /\ "send_led_gpio" \in Keys
  <2>1. IntKeys[2] = "alive_led_gpio" /\ IntKeys[3] = "send_led_gpio"
    BY DEF IntKeys
  <2>2. 2 \in DOMAIN IntKeys /\ 3 \in DOMAIN IntKeys
    BY DEF IntKeys
  <2> QED
    BY <2>1, <2>2 DEF Keys
<1>4. \A o \in GpioObjects :
         o \notin {"alive_led", "send_led"} =>
            (CHOOSE k \in DOMAIN ButtonObjects : ButtonObjects[k] = o) \in 1 .. 2
  <2> SUFFICES ASSUME NEW o \in GpioObjects, o \notin {"alive_led", "send_led"}
               PROVE  (CHOOSE k \in DOMAIN ButtonObjects : ButtonObjects[k] = o) \in 1 .. 2
    OBVIOUS
  <2>1. \E k \in DOMAIN ButtonObjects : ButtonObjects[k] = o
    BY DEF GpioObjects
  <2>2. DOMAIN ButtonObjects = 1 .. 2
    BY DEF ButtonObjects
  <2> QED
    BY <2>1, <2>2
<1>5. PinsOf(file[1]) \in [GpioObjects -> Int]
  <2> DEFINE Pin(o) ==
         IF o = "alive_led" THEN file[1].num["alive_led_gpio"].val
         ELSE IF o = "send_led" THEN file[1].num["send_led_gpio"].val
         ELSE LET i == CHOOSE k \in DOMAIN ButtonObjects : ButtonObjects[k] = o
              IN  IF i <= Len(file[1].buttons) THEN file[1].buttons[i].gpio ELSE 0
  <2>1. ASSUME NEW o \in GpioObjects
        PROVE  Pin(o) \in Int
    <3>1. CASE o \in {"alive_led", "send_led"}
      BY <3>1, <1>2, <1>3 DEF Float
    <3>2. CASE o \notin {"alive_led", "send_led"}
      <4> DEFINE i == CHOOSE k \in DOMAIN ButtonObjects : ButtonObjects[k] = o
      <4>1. i \in 1 .. 2
        BY <1>4, <3>2
      <4> HIDE DEF i
      <4>2. (IF i <= Len(file[1].buttons) THEN file[1].buttons[i].gpio ELSE 0) \in Int
        BY <4>1, <1>2
      <4> QED
        BY <3>2, <4>2 DEF i
    <3> QED
      BY <3>1, <3>2
  <2>2. PinsOf(file[1]) = [o \in GpioObjects |-> Pin(o)]
    BY Zenon DEF PinsOf
  <2> HIDE DEF Pin
  <2> QED
    BY <2>1, <2>2
<1>6. pins' = pins \/ pins' = PinsOf(file[1])
  BY DEF Load
<1>7. pins' \in [GpioObjects -> Int]
  BY <1>5, <1>6 DEF FileTypes
<1>8. /\ buttons' \in {buttons} \cup {SubSeq(ButtonObjects, 1, n) : n \in 0 .. 2}
      /\ Len(ButtonObjects) = 2
  <2>1. buttons' = buttons \/ buttons' = SubSeq(ButtonObjects, 1, Len(file[1].buttons))
    BY DEF Load
  <2> QED
    BY <2>1, <1>2, ButtonsAreObjects
<1>9. Len(file') <= 1 /\ mode' \in Modes
  BY DEF Load
<1> QED
  BY <1>7, <1>8, <1>9 DEF FileTypes

\* Nothing but Load takes anything from the file.
LEMMA FileIsTakenOnce ==
    ASSUME MainNext, ~Load
    PROVE  UNCHANGED fileVars
<1>1. CASE OwnStep
  BY <1>1 DEF OwnStep, LoadFails, BuildDispatcher, GpiozeroThere,
     GpiozeroMissing, QueueOpens, QueueFails, Construct, ConstructFails, Constructed,
     Release, ReleaseFails, CleanedUp, Finished, DispatchTest, LampOn, LampFails,
     LookForStop, LookForError, Join, ShutdownDone, BuildKeeps, ReleaseKeeps, RunKeeps
<1>2. CASE OtherStep
  BY <1>2, OtherStepKeeps DEF StackKeeps
<1> QED
  BY <1>1, <1>2, EveryStep

\* So its types stay.
LEMMA FileStaysTyped ==
    ASSUME FileTypes, ModesInPlace, MainNext
    PROVE  FileTypes'
<1>1. CASE Load
  BY <1>1, LoadTypes
<1>2. CASE ~Load
  BY <1>2, FileIsTakenOnce DEF FileTypes, fileVars
<1> QED
  BY <1>1, <1>2

\* The stack's bounds and its sections.
LEMMA StackGoesOn ==
    ASSUME StackInOrder, MainTypeOK, ThreadsInOrder, MainNext
    PROVE  StackInOrder' /\ StackTypes'
<1>1. StackTypes
  BY TypeParts
<1>2. CASE OwnStep
  <2>1. signals' \in 0 .. MaxSignals
    BY <1>1, <1>2, OwnStepOnTheStack DEF StackTypes
  <2>2. /\ StackInOrder' /\ Len(frames') = 1
        /\ \A i \in DOMAIN frames' : frames'[i].inside => frames'[i].todo # <<>>
    BY <1>2, OwnStepStack
  <2>3. Len(frames') \in 1 .. 1 + MaxSignals
    BY <2>2, MainAssumption
  <2> QED
    BY <2>1, <2>2, <2>3 DEF StackTypes
<1>3. CASE EnterSection
  BY <1>1, <1>3, EnterSectionStack DEF StackTypes, EnterSection
<1>4. CASE LeaveSection
  BY <1>1, <1>4, LeaveSectionStack DEF StackTypes, LeaveSection
<1>5. CASE Signal
  <2>1. signals' \in 0 .. MaxSignals
    BY <1>1, <1>5, MainAssumption DEF StackTypes, Signal
  <2>2. Len(frames') \in 1 .. 1 + signals'
    BY <1>5, SignalStack DEF StackInOrder
  <2> QED
    BY <2>1, <2>2, <1>5, SignalStack, MainAssumption DEF StackTypes
<1>6. CASE HandlerReturns
  <2>1. UNCHANGED signals
    BY <1>6 DEF HandlerReturns
  <2>2. Len(frames') \in 1 .. 1 + signals'
    BY <1>6, HandlerReturnsStack DEF StackInOrder
  <2> QED
    BY <1>1, <2>1, <2>2, <1>6, HandlerReturnsStack, MainAssumption DEF StackTypes
<1>7. CASE WorkerStep \/ PressStep
  BY <1>1, <1>7, ThreadStack, ThreadStepKeeps DEF StackTypes
<1> QED
  BY <1>2, <1>3, <1>4, <1>5, <1>6, <1>7, EveryStep DEF OtherStep

\* A list only grows where it is made.
LEMMA TodoIs ==
    ASSUME MainNext
    PROVE  \/ UNCHANGED todo
           \/ todo # <<>> /\ todo' = Tail(todo)
           \/ todo' \in {<<>>, <<"dispatcher">>, <<"dispatcher", "queue">>}
           \/ todo' = Parts
           \/ todo' = CleanUpOrder
           \/ Join /\ todo' = CloseOrder(outlived', detached')
<1> USE DEF LoadKeeps, BuildKeeps, ReleaseKeeps, RunKeeps, StackKeeps, Exit
<1>1. CASE LoadFails \/ Load
  BY <1>1 DEF LoadFails, Load
<1>2. CASE BuildDispatcher \/ GpiozeroThere \/ GpiozeroMissing \/ QueueOpens \/ QueueFails
  BY <1>2 DEF BuildDispatcher, GpiozeroThere, GpiozeroMissing, QueueOpens, QueueFails
<1>3. CASE Construct \/ ConstructFails \/ Constructed
  BY <1>3 DEF Construct, ConstructFails, Constructed
<1>4. CASE Release \/ ReleaseFails \/ CleanedUp \/ Finished \/ ShutdownDone
  BY <1>4 DEF Release, ReleaseFails, CleanedUp, Finished, ShutdownDone
<1>5. CASE DispatchTest \/ LampOn \/ LookForStop \/ LookForError
  BY <1>5 DEF DispatchTest, LampOn, LookForStop, LookForError
<1>6. CASE LampFails
  BY <1>6 DEF LampFails
<1>7. CASE Join
  BY <1>7 DEF Join
<1>8. CASE OtherStep
  BY <1>8, OtherStepKeeps
<1> QED
  BY <1>1, <1>2, <1>3, <1>4, <1>5, <1>6, <1>7, <1>8, EveryStep DEF OwnStep

\* Every list is one of things to make or to release.
LEMMA TodoStaysTyped ==
    ASSUME MainInv, MainNext, outlived' \in BOOLEAN, detached' \in BOOLEAN
    PROVE  todo' \in Seq(Objects \cup {"worker"}) /\ TodoTypes'
<1> DEFINE All == Objects \cup {"worker"}
<1>1. todo \in Seq(All) /\ buttons \in Seq(Range(ButtonObjects))
  BY InvParts DEF OpenIsListed
<1>2. /\ <<>> \in Seq(All) /\ <<"dispatcher">> \in Seq(All)
      /\ <<"dispatcher", "queue">> \in Seq(All)
  BY TheObjects, ListOfOne, ListOfTwo
<1>3. Parts \in Seq(All)
  BY <1>1, PartsAre
<1>4. CleanUpOrder \in Seq(All)
  BY InvParts, CleanUpIsComplete DEF OtherTypes
<1>5. CloseOrder(outlived', detached') \in Seq(All)
  BY <1>1, CloseOrderIs
<1>6. todo # <<>> => Tail(todo) \in Seq(All)
  BY <1>1, HeadTailProperties
<1>7. todo' \in Seq(All)
  BY <1>1, <1>2, <1>3, <1>4, <1>5, <1>6, TodoIs
<1> HIDE DEF All
<1>8. \A i \in DOMAIN todo' : todo'[i] \in All
  BY <1>7
<1> QED
  BY <1>7, <1>8 DEF All, TodoTypes

\* Alive is a truth value.
LEMMA AliveOrNot == StillAlive \in BOOLEAN
  BY SMT DEF StillAlive, WorkerAlive

\* What a handler, a section or the worker changes of the other variables.
LEMMA OtherTypesKept ==
    ASSUME OtherTypes,
           UNCHANGED <<pc, held, outlived, detached, code, answers, stuck, aborted>>,
           deadline' \in {"none", "signal", "shutdown"}, stop' \in BOOLEAN,
           worker' \in {"none", "running", "crashing", "dead"}, fatal' \in BOOLEAN,
           press' \in {"idle", "checked", "locked", "setting"}
    PROVE  OtherTypes'
  BY DEF OtherTypes

\* Sections, handlers and the worker keep the types of the rest.
LEMMA OtherStepTypes ==
    ASSUME OtherTypes, ThreadsInOrder, OtherStep
    PROVE  OtherTypes'
<1>1. UNCHANGED <<pc, held, outlived, detached, code, answers, stuck, aborted>>
  BY OtherStepKeeps DEF StackKeeps, endVars
<1>2. CASE EnterSection \/ HandlerReturns \/ Signal
  <2>1. UNCHANGED <<stop, deadline, worker, fatal, press>>
    BY <1>2 DEF EnterSection, HandlerReturns, Signal, threadVars, errorVars
  <2> QED
    BY <1>1, <2>1, OtherTypesKept DEF OtherTypes
<1>3. CASE LeaveSection
  <2>1. stop' \in BOOLEAN
    BY <1>3 DEF LeaveSection
  <2>2. deadline' \in {"none", "signal", "shutdown"}
    BY <1>3 DEF LeaveSection, NewDeadline, OtherTypes
  <2>3. UNCHANGED <<worker, fatal, press>>
    BY <1>3 DEF LeaveSection, threadVars, errorVars
  <2> QED
    BY <1>1, <2>1, <2>2, <2>3, OtherTypesKept DEF OtherTypes
<1>4. CASE WorkerStep \/ PressStep
  <2>1. ThreadsInOrder' /\ UNCHANGED deadline
    BY <1>4, WorkerStepThreads, PressStepThreads, ThreadStepKeeps
  <2> QED
    BY <1>1, <2>1, OtherTypesKept DEF OtherTypes, ThreadsInOrder
<1> QED
  BY <1>2, <1>3, <1>4 DEF OtherStep

\* What could not be released is an object, never the worker.
LEMMA StuckTypes ==
    ASSUME OtherTypes, OpenIsListed, ReleaseFails
    PROVE  stuck' \in SUBSET Objects
<1>1. todo \in Seq(Objects \cup {"worker"}) /\ todo # <<>> /\ "worker" \notin Range(todo)
  BY DEF OpenIsListed, ReleaseFails
<1>2. Head(todo) \in Objects
  BY <1>1, HeadOrTail
<1>3. ReleasedWith(Head(todo)) \subseteq Objects
  BY <1>2, ButtonsAreObjects DEF ReleasedWith
<1> QED
  BY <1>3 DEF ReleaseFails, OtherTypes

\* Of those, what the program's own frame does not share with handlers and other
\* threads.
OwnTypes ==
    /\ pc \in Places
    /\ held \in SUBSET Objects
    /\ worker \in {"none", "running", "crashing", "dead"}
    /\ outlived \in BOOLEAN
    /\ detached \in BOOLEAN
    /\ code \in {Undecided, 0, 1, 2}
    /\ pc = "exited" => code # Undecided
    /\ answers \in SUBSET Results
    /\ stuck \in SUBSET Objects
    /\ aborted \in BOOLEAN

\* The program's own frame keeps their types.
LEMMA OwnStepTypes ==
    ASSUME MainInv, OwnStep
    PROVE  OwnTypes'
<1> OwnTypes /\ OtherTypes /\ OpenIsListed
  BY InvParts DEF OwnTypes, OtherTypes
<1> USE Codes
    DEF OwnTypes, LoadKeeps, BuildKeeps, ReleaseKeeps, RunKeeps, Exit, At, threadVars,
        endVars, Places
<1>0. Objects = {"alive_led", "send_led", "button1", "button2", "dispatcher", "queue",
                 "send_led_controller"}
  BY ButtonsAreObjects
<1>1. CASE LoadFails
  BY <1>1 DEF LoadFails
<1>2. CASE Load
  BY <1>2 DEF Load
<1>3. CASE BuildDispatcher
  BY <1>0, <1>3 DEF BuildDispatcher
<1>4. CASE GpiozeroThere
  BY <1>0, <1>4 DEF GpiozeroThere
<1>5. CASE GpiozeroMissing
  BY <1>0, <1>5 DEF GpiozeroMissing
<1>6. CASE QueueOpens
  BY <1>0, <1>6 DEF QueueOpens
<1>7. CASE QueueFails
  BY <1>0, <1>7 DEF QueueFails
<1>8. CASE Construct
  <2>1. todo \in Seq(Objects \cup {"worker"})
    BY DEF OpenIsListed
  <2>2. Head(todo) \in Objects \cup {"worker"}
    BY <1>8, <2>1, HeadTailProperties DEF Construct
  <2> QED
    BY <1>8, <2>2 DEF Construct
<1>9. CASE ConstructFails
  BY <1>9 DEF ConstructFails
<1>10. CASE Constructed
  BY <1>10 DEF Constructed
<1>11. CASE Release
  BY <1>11 DEF Release
<1>12. CASE ReleaseFails
  <2>1. stuck' \in SUBSET Objects
    BY <1>12, StuckTypes
  <2> QED
    BY <1>12, <2>1 DEF ReleaseFails
<1>13. CASE CleanedUp
  BY <1>13 DEF CleanedUp
<1>14. CASE Finished
  BY <1>14 DEF Finished
<1>15. CASE ShutdownDone
  BY <1>15 DEF ShutdownDone
<1>16. CASE DispatchTest
  <2>1. answers' = answers \/ answers' \subseteq {"success", "retryable", "permanent"}
    BY <1>16 DEF DispatchTest
  <2>2. code' \in {0, 1, 2}
    BY <1>16 DEF DispatchTest, ExitCodeOf
  <2> QED
    BY <1>16, <2>1, <2>2 DEF DispatchTest, ShutDown, Results
<1>17. CASE LampOn
  BY <1>17 DEF LampOn, ShutDown
<1>18. CASE LookForStop
  BY <1>18 DEF LookForStop, ShutDown
<1>19. CASE LookForError
  BY <1>19 DEF LookForError, ShutDown
<1>20. CASE LampFails
  BY <1>20 DEF LampFails
<1>21. CASE Join
  <2>1. outlived' \in BOOLEAN
    <3>1. outlived' = StillAlive
      BY <1>21 DEF Join
    <3>2. StillAlive \in BOOLEAN
      BY AliveOrNot
    <3> QED
      BY <3>1, <3>2
  <2>2. detached' \in BOOLEAN
    BY <1>21 DEF Join
  <2> QED
    BY <1>21, <2>1, <2>2 DEF Join, JoinReturns
<1> QED
  BY <1>1, <1>2, <1>3, <1>4, <1>5, <1>6, <1>7, <1>8, <1>9, <1>10, <1>11, <1>12, <1>13,
     <1>14, <1>15, <1>16, <1>17, <1>18, <1>19, <1>20, <1>21
     DEF OwnStep

\* Every step keeps the types of the rest.
LEMMA OthersStayTyped ==
    ASSUME MainInv, MainNext
    PROVE  OtherTypes'
<1>1. CASE OwnStep
  <2>1. OwnTypes'
    BY <1>1, OwnStepTypes
  <2>2. stop' \in BOOLEAN /\ UNCHANGED <<deadline, fatal, press>>
    <3>1. (stop' = stop \/ ConstructFails) /\ UNCHANGED <<deadline, errorVars>>
      BY <1>1, OwnStepOnTheStack
    <3>2. stop \in BOOLEAN
      BY InvParts DEF OtherTypes
    <3>3. ConstructFails => stop' = TRUE
      BY DEF ConstructFails
    <3> QED
      BY <3>1, <3>2, <3>3 DEF errorVars
  <2>3. OtherTypes
    BY InvParts
  <2> QED
    BY <2>1, <2>2, <2>3 DEF OwnTypes, OtherTypes
<1>2. CASE OtherStep
  BY <1>2, InvParts, OtherStepTypes
<1> QED
  BY <1>1, <1>2, EveryStep

\* Every step keeps the types.
LEMMA TypesStay ==
    ASSUME MainInv, MainNext
    PROVE  MainTypeOK'
<1>1. OtherTypes'
  BY OthersStayTyped
<1>2. TodoTypes'
  BY <1>1, TodoStaysTyped DEF OtherTypes
<1>3. FileTypes' /\ StackTypes'
  BY InvParts, FileStaysTyped, StackGoesOn
<1> QED
  BY <1>1, <1>2, <1>3, TypePartsPrimed

-----------------------------------------------------------------------------
(* The modes, and what stops the service.                                  *)

\* Every step keeps to its mode, and --test to its exit code.
LEMMA ModesStay ==
    ASSUME MainInv, MainNext
    PROVE  ModesInPlace'
<1> USE InvParts, Codes DEF ModesInPlace, Validating, UsesGpio, LoadKeeps, BuildKeeps,
        ReleaseKeeps, RunKeeps, Exit, At, fileVars
<1>1. CASE LoadFails \/ Load
  BY <1>1 DEF LoadFails, Load, Modes
<1>2. CASE BuildDispatcher \/ GpiozeroThere \/ GpiozeroMissing \/ QueueOpens \/ QueueFails
  BY <1>2 DEF BuildDispatcher, GpiozeroThere, GpiozeroMissing, QueueOpens, QueueFails
<1>3. CASE Construct
  BY <1>3 DEF Construct
<1>4. CASE ConstructFails
  BY <1>4 DEF ConstructFails
<1>5. CASE Constructed
  BY <1>5 DEF Constructed
<1>6. CASE Release \/ ReleaseFails
  BY <1>6 DEF Release, ReleaseFails
<1>7. CASE CleanedUp \/ Finished
  BY <1>7 DEF CleanedUp, Finished
<1>8. CASE ShutdownDone
  BY <1>8 DEF ShutdownDone, OtherTypes, Undecided
<1>9. CASE DispatchTest
  <2>1. mode = "test" /\ pc' = "join" /\ UNCHANGED <<fileVars, aborted>>
    BY <1>9 DEF DispatchTest, ShutDown
  <2>2. code' = IF reach = {} THEN 2 ELSE IF answers' = {"success"} THEN 0 ELSE 1
    <3>1. CASE reach = {}
      BY <1>9, <3>1 DEF DispatchTest
    <3>2. CASE reach # {}
      <4>1. PICK result \in [reach -> {"success", "retryable", "permanent"}] :
               /\ answers' = {result[d] : d \in reach}
               /\ code' = ExitCodeOf(answers')
        BY <1>9, <3>2 DEF DispatchTest
      <4>2. answers' # {} /\ answers' \subseteq {"success", "retryable", "permanent"}
        BY <4>1, <3>2
      <4> QED
        BY <4>1, <4>2, <3>2 DEF ExitCodeOf
    <3> QED
      BY <3>1, <3>2
  <2> QED
    BY <2>1, <2>2
<1>10. CASE LampOn \/ LookForStop \/ LookForError
  BY <1>10 DEF LampOn, LookForStop, LookForError, ShutDown
<1>11. CASE LampFails
  BY <1>11 DEF LampFails
<1>12. CASE Join
  BY <1>12 DEF Join, JoinReturns
<1>13. CASE OtherStep
  BY <1>13, OtherStepKeeps DEF StackKeeps
<1> QED
  BY <1>1, <1>2, <1>3, <1>4, <1>5, <1>6, <1>7, <1>8, <1>9, <1>10, <1>11, <1>12, <1>13,
     EveryStep DEF OwnStep

\* Who has a section left: shutdown, or a handler of the service.
LEMMA WhoseSection ==
    ASSUME StackInOrder, MainTypeOK, Top.todo # <<>>
    PROVE  /\ Len(frames) = 1 => pc = "join"
           /\ Len(frames) # 1 => /\ mode = "serve" /\ signals > 0
                                 /\ pc \in {"look", "fatal?", "join", "close"}
                                 /\ Head(Top.todo) = "stop" => deadline # "none"
<1>1. CASE Len(frames) = 1
  BY <1>1 DEF StackInOrder, Top
<1>2. CASE Len(frames) # 1
  <2>1. Len(frames) \in 2 .. Len(frames) /\ Len(frames) > 1
    BY <1>2, TopOfTheStack
  <2>2. Top.todo \in HandlerSections
    BY <2>1 DEF StackInOrder, Top
  <2>3. Head(Top.todo) = "stop" => Top.todo # <<"deadline", "stop", "work">>
    BY <2>2, SectionsGoOn
  <2>4. Head(Top.todo) = "stop" => deadline # "none"
    BY <2>1, <2>3 DEF StackInOrder, Top
  <2>5. mode = "serve" /\ pc \in {"look", "fatal?", "join", "close"}
    BY <2>1 DEF StackInOrder
  <2>6. signals > 0
    BY <2>1, TopOfTheStack DEF StackInOrder
  <2> QED
    BY <1>2, <2>4, <2>5, <2>6
<1> QED
  BY <1>1, <1>2

\* The deadline is set before the stop event, by shutdown only after an error.
LEMMA LeaveSectionStop ==
    ASSUME MainInv, LeaveSection
    PROVE  StopHasACause'
<1>1. UNCHANGED <<pc, mode, worker, errorVars, signals, code, aborted>>
  BY DEF LeaveSection, StackKeeps, fileVars, threadVars
<1>2. Top.todo # <<>>
  BY InvParts, TopOfTheStack DEF LeaveSection, Top, StackTypes
<1>3. /\ Len(frames) = 1 => pc = "join"
      /\ Len(frames) # 1 => /\ mode = "serve" /\ signals > 0
                            /\ pc \in {"look", "fatal?", "join", "close"}
                            /\ Head(Top.todo) = "stop" => deadline # "none"
  BY <1>2, InvParts, WhoseSection
<1>4. /\ stop' => stop \/ Head(Top.todo) = "stop"
      /\ deadline' \in {deadline, "shutdown", "signal"}
      /\ deadline # "none" => deadline' = deadline
      /\ deadline' = "shutdown" => deadline = "shutdown" \/ Len(frames) = 1
      /\ deadline' = "signal" => deadline = "signal" \/ Len(frames) # 1
  BY DEF LeaveSection, NewDeadline
<1>5. deadline \in {"none", "signal", "shutdown"}
  BY InvParts DEF OtherTypes
<1>6. StopHasACause
  BY InvParts
<1>7. mode = "serve" /\ pc \in {"join", "close"} => fatal \/ deadline = "signal"
  BY <1>6 DEF StopHasACause
<1>8. mode = "serve" /\ deadline = "shutdown" => fatal
  BY <1>6 DEF StopHasACause
<1>9. mode = "serve" /\ deadline' = "shutdown" => fatal
  BY <1>3, <1>4, <1>5, <1>7, <1>8
<1>10. deadline' = "signal" => signals > 0
  BY <1>3, <1>4, <1>6
     DEF StopHasACause
<1>11. mode = "serve" /\ stop' /\ pc \notin {"clean up", "exited"}
          => fatal \/ deadline' = "signal"
  BY <1>3, <1>4, <1>5, <1>6, <1>7, <1>8 DEF StopHasACause
<1>12. pc \notin {"load", "exited"}
  BY <1>3
<1> QED
  BY <1>1, <1>4, <1>6, <1>9, <1>10, <1>11, <1>12 DEF StopHasACause, errorVars

\* A service whose construction has failed ends with an error.
LEMMA CleanedUpStop ==
    ASSUME StopHasACause, CleanedUp
    PROVE  StopHasACause'
<1>1. /\ pc = "clean up" /\ pc' \in {"finally", "exited"} /\ code' = 1
      /\ pc' = "finally" => mode # "serve"
  BY DEF CleanedUp, Validating, At, Exit
<1>2. UNCHANGED <<mode, stop, deadline, signals, errorVars, worker, aborted>>
  BY DEF CleanedUp, ReleaseKeeps, fileVars, stackVars, threadVars
<1>3. /\ crash'.todo = <<"stop", "work">> => fatal'
      /\ pressFrame'.todo = <<"stop", "work">> => fatal'
      /\ deadline' = "signal" => signals' > 0
      /\ mode' = "serve" /\ deadline' = "shutdown" => fatal'
  BY <1>2 DEF StopHasACause, errorVars
<1>4. pc' \notin {"load", "join", "close"}
  BY <1>1
<1>5. code' # 0
  <2>1. code' = 1
    BY <1>1
  <2>2. 1 # 0
    OBVIOUS
  <2> QED
    BY <2>1, <2>2, Zenon
<1>6. mode' = mode
  BY <1>2
<1>7. mode' = "serve" => pc' = "exited"
  BY <1>1, <1>6
<1> QED
  BY <1>3, <1>4, <1>5, <1>7 DEF StopHasACause

\* Steps of the program's own frame.
LEMMA OwnStepStop ==
    ASSUME MainInv, OwnStep
    PROVE  StopHasACause'
<1> USE InvParts, Codes
    DEF StopHasACause, LoadKeeps, BuildKeeps, ReleaseKeeps, RunKeeps, Exit, At, fileVars,
        stackVars, threadVars, errorVars
<1>1. CASE LoadFails
  BY <1>1 DEF LoadFails, ModesInPlace
<1>2. CASE Load
  BY <1>2 DEF Load
<1>3. CASE BuildDispatcher
  BY <1>3 DEF BuildDispatcher, Validating
<1>4. CASE GpiozeroThere
  BY <1>4 DEF GpiozeroThere, Validating
<1>5. CASE GpiozeroMissing
  BY <1>5 DEF GpiozeroMissing, Validating
<1>6. CASE QueueOpens
  BY <1>6 DEF QueueOpens, Validating
<1>7. CASE QueueFails
  BY <1>7 DEF QueueFails, Validating
<1>8. CASE Construct
  BY <1>8 DEF Construct
<1>9. CASE ConstructFails
  BY <1>9 DEF ConstructFails
<1>10. CASE Constructed
  BY <1>10 DEF Constructed, ModesInPlace, OtherTypes
<1>11. CASE Release
  BY <1>11 DEF Release
<1>12. CASE ReleaseFails
  BY <1>12 DEF ReleaseFails
<1>13. CASE CleanedUp
  BY <1>13, CleanedUpStop
<1>14. CASE Finished
  BY <1>14 DEF Finished, ModesInPlace, Validating
<1>15. CASE ShutdownDone
  BY <1>15 DEF ShutdownDone, ModesInPlace, Undecided
<1>16. CASE DispatchTest
  BY <1>16 DEF DispatchTest, ShutDown, ModesInPlace
<1>17. CASE LampOn
  BY <1>17 DEF LampOn
<1>18. CASE LampFails
  BY <1>18 DEF LampFails
<1>19. CASE LookForStop
  BY <1>19 DEF LookForStop, ShutDown
<1>20. CASE LookForError
  BY <1>20 DEF LookForError, ShutDown
<1>21. CASE Join
  BY <1>21
     DEF Join, JoinReturns
<1> QED
  BY <1>1, <1>2, <1>3, <1>4, <1>5, <1>6, <1>7, <1>8, <1>9, <1>10, <1>11, <1>12, <1>13,
     <1>14, <1>15, <1>16, <1>17, <1>18,
     <1>19, <1>20, <1>21 DEF OwnStep

\* Nobody stops the service but a signal or an error.
LEMMA StopStays ==
    ASSUME MainInv, MainNext
    PROVE  StopHasACause'
<1>1. CASE OwnStep
  BY <1>1, OwnStepStop
<1>2. CASE LeaveSection
  BY <1>2, LeaveSectionStop
<1>3. CASE EnterSection \/ HandlerReturns \/ Signal
  <2>1. /\ UNCHANGED <<pc, mode, worker, errorVars, code, aborted, stop, deadline>>
        /\ signals' = signals \/ signals' = signals + 1
    BY <1>3 DEF EnterSection, HandlerReturns, Signal, StackKeeps, fileVars, threadVars
  <2>2. signals \in Nat /\ StopHasACause
    BY InvParts, TopOfTheStack
  <2>3. signals > 0 => signals' > 0
    BY <2>1, <2>2
  <2> QED
    BY <2>1, <2>2, <2>3 DEF StopHasACause, errorVars
<1>4. CASE WorkerStep \/ PressStep
  <2>1. pc # "exited" /\ UNCHANGED <<pc, mode, code, aborted, signals, deadline>>
    BY <1>4, ThreadStepKeeps DEF StackKeeps, fileVars
  <2>2. /\ ThreadsInOrder' /\ (stop' => stop \/ fatal) /\ (fatal => fatal')
        /\ worker # "none" \/ press # "idle"
    BY <1>4, InvParts, WorkerStepThreads, PressStepThreads
  <2>3. StopHasACause
    BY InvParts
  <2>4. pc # "load"
    BY <2>2, <2>3 DEF StopHasACause
  <2>5. mode = "serve" /\ stop' /\ pc \notin {"clean up", "exited"}
            => fatal' \/ deadline = "signal"
    BY <2>2, <2>3 DEF StopHasACause
  <2>6. /\ mode = "serve" /\ deadline = "shutdown" => fatal'
        /\ mode = "serve" /\ pc \in {"join", "close"} => fatal' \/ deadline = "signal"
        /\ deadline = "signal" => signals > 0
    BY <2>2, <2>3 DEF StopHasACause
  <2>7. /\ crash'.todo = <<"stop", "work">> => fatal'
        /\ pressFrame'.todo = <<"stop", "work">> => fatal'
    BY <2>2 DEF ThreadsInOrder
  <2> QED
    BY <2>1, <2>4, <2>5, <2>6, <2>7 DEF StopHasACause
<1> QED
  BY <1>1, <1>2, <1>3, <1>4, EveryStep DEF OtherStep

-----------------------------------------------------------------------------
(* The worker and what it uses.                                            *)

\* Only the last part of the construction begins it.
LEMMA WorkerOfOwnStep ==
    ASSUME MainInv, OwnStep
    PROVE  \/ UNCHANGED worker
           \/ /\ Construct /\ todo # <<>> /\ Head(todo) = "worker"
              /\ worker' = "running" /\ mode = "serve" /\ todo' = <<>>
<1>1. CASE Construct /\ Head(todo) = "worker"
  <2>1. /\ todo # <<>> /\ todo \in Seq(Objects \cup {"worker"}) /\ pc = "construct"
        /\ worker' = "running" /\ todo' = Tail(todo)
    BY <1>1, InvParts DEF Construct, At, OpenIsListed
  <2>2. 1 \in DOMAIN todo /\ todo[1] = "worker"
    BY <1>1, <2>1, HeadOrTail
  <2>3. Len(todo) = 1 /\ mode = "serve"
    BY <2>1, <2>2, InvParts DEF WorkerIsLast
  <2>4. todo' = <<>>
    BY <2>1, <2>3
  <2> QED
    BY <1>1, <2>1, <2>3, <2>4
<1>2. CASE ~(Construct /\ Head(todo) = "worker")
  BY <1>2 DEF OwnStep, LoadFails, Load, BuildDispatcher, GpiozeroThere,
     GpiozeroMissing, QueueOpens, QueueFails, Construct, ConstructFails, Constructed,
     Release, ReleaseFails, CleanedUp, Finished, DispatchTest, LampOn, LampFails,
     LookForStop, LookForError, Join, ShutdownDone, LoadKeeps, BuildKeeps, ReleaseKeeps,
     RunKeeps, threadVars
<1> QED
  BY <1>1, <1>2

\* The list of the construction gets shorter.
LEMMA ConstructionGoesOn ==
    ASSUME MainInv, Construct
    PROVE  /\ todo \in Seq(Objects \cup {"worker"}) /\ todo # <<>>
           /\ Head(todo) \in Objects \cup {"worker"}
           /\ Range(todo) = {Head(todo)} \cup Range(Tail(todo))
           /\ \A i \in DOMAIN todo' : todo'[i] = "worker" => i = Len(todo') /\ mode = "serve"
<1>1. /\ todo \in Seq(Objects \cup {"worker"}) /\ todo # <<>> /\ todo' = Tail(todo)
      /\ pc = "construct"
  BY InvParts DEF OpenIsListed, Construct, At
<1>2. /\ Head(todo) \in Objects \cup {"worker"}
      /\ Range(todo) = {Head(todo)} \cup Range(Tail(todo))
      /\ Len(Tail(todo)) = Len(todo) - 1
      /\ Tail(todo) \in Seq(Objects \cup {"worker"})
      /\ \A i \in 1 .. Len(Tail(todo)) : Tail(todo)[i] = todo[i + 1]
  BY <1>1, HeadOrTail, HeadTailProperties
<1>3. ASSUME NEW i \in DOMAIN todo', todo'[i] = "worker"
      PROVE  i = Len(todo') /\ mode = "serve"
  <2>1. i \in 1 .. Len(Tail(todo)) /\ Len(todo) \in Nat
    BY <1>1, <1>2
  <2>2. i + 1 \in DOMAIN todo /\ todo[i + 1] = "worker"
    BY <2>1, <1>1, <1>2, <1>3
  <2>3. i + 1 = Len(todo) /\ mode = "serve"
    BY <2>2, <1>1, InvParts DEF WorkerIsLast
  <2> QED
    BY <2>1, <2>3, <1>1, <1>2
<1> QED
  BY <1>1, <1>2, <1>3

\* The wait for the worker tells whether it lives; what it uses is closed only
\* if it does not.
LEMMA WhatIsClosed ==
    ASSUME MainInv, Join
    PROVE  /\ pc = "join" /\ pc' = "close"
           /\ UNCHANGED <<mode, held, worker, buttons, stuck>>
           /\ outlived' <=> WorkerAlive
           /\ outlived' \in BOOLEAN /\ detached' \in BOOLEAN
           /\ outlived' \/ detached' => mode = "serve"
           /\ Range(todo') = Range(buttons) \cup {"send_led_controller"}
                  \cup (IF outlived' THEN {} ELSE {"alive_led", "dispatcher"})
                  \cup (IF outlived' \/ mode # "serve" \/ detached' THEN {} ELSE {"queue"})
                  \cup (IF Validating THEN {"queue"} ELSE {})
           /\ Range(buttons) \subseteq {"button1", "button2"}
           /\ outlived' => Range(todo') \cap {"send_led", "dispatcher", "queue"} = {}
           /\ "worker" \notin Range(todo')
<1>1. /\ pc = "join" /\ pc' = "close" /\ UNCHANGED <<mode, held, worker, buttons, stuck>>
      /\ outlived' = StillAlive
      /\ todo' = CloseOrder(outlived', detached')
  BY DEF Join, JoinReturns, At, fileVars, threadVars
<1>2. detached' \in BOOLEAN /\ (detached' => mode = "serve")
  BY DEF Join
<1>3. outlived' \in BOOLEAN
  BY <1>1, AliveOrNot
<1>4. outlived' <=> WorkerAlive
  BY <1>1 DEF StillAlive
<1>5. outlived' => mode = "serve"
  BY <1>4, InvParts DEF WorkerIsLast, WorkerAlive
<1>6. buttons \in Seq(Range(ButtonObjects))
  BY InvParts DEF OpenIsListed
<1>7. Range(buttons) \subseteq {"button1", "button2"}
  BY <1>6, TheObjects
<1>8. Range(todo') = Range(buttons) \cup {"send_led_controller"}
                  \cup (IF outlived' THEN {} ELSE {"alive_led", "dispatcher"})
                  \cup (IF outlived' \/ mode # "serve" \/ detached' THEN {} ELSE {"queue"})
                  \cup (IF Validating THEN {"queue"} ELSE {})
  BY <1>1, <1>2, <1>3, <1>6, CloseOrderIs
<1>9. outlived' => Range(todo') \cap {"send_led", "dispatcher", "queue"} = {}
  BY <1>5, <1>7, <1>8 DEF Validating
<1>10. "worker" \notin Range(todo')
  BY <1>7, <1>8
<1> QED
  BY <1>1, <1>2, <1>3, <1>4, <1>5, <1>7, <1>8, <1>9, <1>10

\* Steps of the program's own frame make the worker last and release what it uses
\* only when it is gone.
LEMMA OwnStepWorker ==
    ASSUME MainInv, OwnStep
    PROVE  WorkerIsLast'
<1> USE InvParts DEF WorkerIsLast, LoadKeeps, BuildKeeps, ReleaseKeeps, RunKeeps, Exit, At,
        fileVars, stackVars, threadVars, errorVars, endVars, WorkerAlive
<1>1. CASE LoadFails
  BY <1>1, RangeOfNone DEF LoadFails
<1>2. CASE Load
  BY <1>2, RangeOfNone DEF Load, StopHasACause
<1>3. CASE BuildDispatcher
  BY <1>3, PartsAre DEF BuildDispatcher, OpenIsListed
<1>4. CASE GpiozeroThere
  BY <1>4, PartsAre DEF GpiozeroThere, OpenIsListed, Validating
<1>5. CASE GpiozeroMissing
  BY <1>5 DEF GpiozeroMissing
<1>6. CASE QueueOpens
  BY <1>6, PartsAre DEF QueueOpens, OpenIsListed
<1>7. CASE QueueFails
  BY <1>7 DEF QueueFails
<1>8. CASE Construct
  BY <1>8, ConstructionGoesOn, WorkerOfOwnStep DEF Construct
<1>9. CASE ConstructFails
  BY <1>9 DEF ConstructFails
<1>10. CASE Constructed
  BY <1>10, RangeOfNone DEF Constructed
<1>11. CASE Release
  <2>1. /\ todo # <<>> /\ todo \in Seq(Objects \cup {"worker"})
        /\ Range(todo) = {Head(todo)} \cup Range(Tail(todo))
    BY <1>11, HeadOrTail DEF Release, OpenIsListed
  <2>2. outlived => ReleasedWith(Head(todo)) = {Head(todo)}
    BY DEF ReleasedWith
  <2> QED
    BY <1>11, <2>1, <2>2 DEF Release
<1>12. CASE ReleaseFails
  BY <1>12 DEF ReleaseFails
<1>13. CASE CleanedUp
  BY <1>13 DEF CleanedUp
<1>14. CASE Finished
  BY <1>14 DEF Finished
<1>15. CASE ShutdownDone
  BY <1>15 DEF ShutdownDone
<1>16. CASE DispatchTest
  BY <1>16 DEF DispatchTest, ShutDown, ModesInPlace
<1>17. CASE LampOn
  BY <1>17 DEF LampOn
<1>18. CASE LampFails
  BY <1>18 DEF LampFails
<1>19. CASE LookForStop
  BY <1>19 DEF LookForStop, ShutDown
<1>20. CASE LookForError
  BY <1>20 DEF LookForError, ShutDown
<1>21. CASE Join
  BY <1>21, WhatIsClosed
     DEF Join
<1> QED
  BY <1>1, <1>2, <1>3, <1>4, <1>5, <1>6, <1>7, <1>8, <1>9, <1>10, <1>11, <1>12, <1>13,
     <1>14,
     <1>15, <1>16, <1>17, <1>18, <1>19, <1>20, <1>21 DEF OwnStep

\* Every step keeps it so.
LEMMA WorkerStays ==
    ASSUME MainInv, MainNext
    PROVE  WorkerIsLast'
<1>1. CASE OwnStep
  BY <1>1, OwnStepWorker
<1>2. CASE OtherStep
  <2>1. UNCHANGED <<pc, mode, todo, held, outlived, detached, code, aborted>>
    BY <1>2, OtherStepKeeps
       DEF StackKeeps, fileVars, endVars
  <2>2. \/ UNCHANGED worker
        \/ worker # "none" /\ (worker' \in {"running", "crashing"} => WorkerAlive)
    <3>1. CASE EnterSection \/ LeaveSection \/ HandlerReturns \/ Signal
      BY <3>1 DEF EnterSection, LeaveSection, HandlerReturns, Signal, threadVars
    <3>2. CASE WorkerStep
      BY <3>2, InvParts, WorkerStepThreads DEF WorkerAlive
    <3>3. CASE PressStep
      BY <3>3, InvParts, PressStepThreads
    <3> QED
      BY <1>2, <3>1, <3>2, <3>3 DEF OtherStep
  <2> QED
    BY <2>1, <2>2, InvParts DEF WorkerIsLast, WorkerAlive
<1> QED
  BY <1>1, <1>2, EveryStep

-----------------------------------------------------------------------------
(* What is open.                                                           *)

\* Releasing shortens the list by what is released.
LEMMA ReleaseShortens ==
    ASSUME OpenIsListed, todo # <<>>, todo' = Tail(todo), UNCHANGED outlived
    PROVE  /\ todo' \in Seq(Objects \cup {"worker"})
           /\ Range(todo) = {Head(todo)} \cup Range(todo')
           /\ ToRelease = ReleasedWith(Head(todo)) \cup ToRelease'
           /\ Head(todo) \in ReleasedWith(Head(todo))
           /\ "worker" \notin Range(todo) => "worker" \notin Range(todo')
<1>1. /\ Range(todo) = {Head(todo)} \cup Range(todo')
      /\ todo' \in Seq(Objects \cup {"worker"})
  BY HeadOrTail DEF OpenIsListed
<1>2. ToRelease' = UNION {ReleasedWith(o) : o \in Range(todo')}
  BY DEF ToRelease, ReleasedWith
<1>3. ToRelease = ReleasedWith(Head(todo)) \cup UNION {ReleasedWith(o) : o \in Range(todo')}
  BY <1>1 DEF ToRelease
<1> QED
  BY <1>1, <1>2, <1>3 DEF ReleasedWith

\* Steps that build.
LEMMA BuildOpen ==
    ASSUME MainInv, todo' \in Seq(Objects \cup {"worker"}),
           buttons' \in Seq(Range(ButtonObjects)),
           \/ LoadFails \/ Load \/ BuildDispatcher \/ GpiozeroThere \/ GpiozeroMissing
           \/ QueueOpens \/ QueueFails \/ Construct \/ ConstructFails \/ Constructed
    PROVE  OpenIsListed'
<1> USE InvParts, RangeOfNone DEF OpenIsListed, LoadKeeps, BuildKeeps, Exit, At, Validating,
        fileVars, stackVars, threadVars, endVars
<1>0. "dispatcher" \notin Range(ButtonObjects) /\ "queue" \notin Range(ButtonObjects)
  BY ButtonsAreObjects
<1>1. CASE LoadFails
  BY <1>1 DEF LoadFails
<1>2. CASE Load
  BY <1>2 DEF Load, ModesInPlace
<1>3. CASE BuildDispatcher
  BY <1>0, <1>3, PartsAre DEF BuildDispatcher, ModesInPlace
<1>4. CASE GpiozeroThere
  BY <1>0, <1>4, PartsAre DEF GpiozeroThere, ModesInPlace, FileTypes, Modes
<1>5. CASE GpiozeroMissing
  BY <1>5, ListOfTwo DEF GpiozeroMissing
<1>6. CASE QueueOpens
  BY <1>0, <1>6, PartsAre DEF QueueOpens, ModesInPlace
<1>7. CASE QueueFails
  BY <1>7, ListOfOne DEF QueueFails
<1>8. CASE Construct
  <2>1. /\ Range(todo) = {Head(todo)} \cup Range(todo')
        /\ held' \subseteq held \cup ({Head(todo)} \ {"worker"})
        /\ pc = "construct" /\ UNCHANGED <<pc, mode, buttons>>
    BY <1>8, ConstructionGoesOn DEF Construct
  <2>2. Range(todo) \subseteq {"alive_led", "send_led", "send_led_controller", "worker"}
                                   \cup Range(buttons)
    BY <2>1
  <2>3. Range(buttons) \subseteq {"button1", "button2"}
    BY TheObjects
  <2>4. held' \cap Range(ButtonObjects) \subseteq Range(buttons')
    BY <2>1, <2>2, ButtonsAreObjects
  <2>5. mode = "test" => "queue" \notin held'
    BY <2>1, <2>2, <2>3
  <2> QED
    BY <2>1, <2>2, <2>4, <2>5
<1>9. CASE ConstructFails
  <2>1. /\ pc' = "clean up" /\ todo' = CleanUpOrder
        /\ UNCHANGED <<mode, buttons, held, stuck, outlived>>
        /\ mode \in {"validate_gpio", "serve"} /\ pc = "construct"
    BY <1>9 DEF ConstructFails, UsesGpio
  <2>2. ~outlived
    BY <2>1 DEF WorkerIsLast
  <2>3. /\ "worker" \notin Range(CleanUpOrder)
        /\ \A q \in held :
              \/ q \in UNION {ReleasedWith(o) : o \in Range(CleanUpOrder)}
              \/ q = "queue" /\ mode # "serve"
    BY <2>2, CleanUpIsComplete DEF OtherTypes
  <2>4. ToRelease' = UNION {ReleasedWith(o) : o \in Range(CleanUpOrder)}
    BY <2>1 DEF ToRelease, ReleasedWith
  <2> QED
    BY <2>1, <2>3, <2>4
<1>10. CASE Constructed
  BY <1>10 DEF Constructed
<1> QED
  BY <1>1, <1>2, <1>3, <1>4, <1>5, <1>6, <1>7, <1>8, <1>9, <1>10

\* The list of a validation's finally.
LEMMA PairHolds == Range(<<"dispatcher", "queue">>) = {"dispatcher", "queue"}
<1> DEFINE Pair == {"dispatcher", "queue"}
<1>1. "dispatcher" \in Pair /\ "queue" \in Pair
  OBVIOUS
<1> QED
  BY <1>1, ListOfTwo

\* Steps that release.
LEMMA ReleaseOpen ==
    ASSUME MainInv, todo' \in Seq(Objects \cup {"worker"}),
           Release \/ ReleaseFails \/ CleanedUp \/ Finished \/ ShutdownDone
    PROVE  OpenIsListed'
<1> USE InvParts, RangeOfNone DEF OpenIsListed, ReleaseKeeps, Exit, At, Validating,
        fileVars, endVars
<1>1. CASE Release
  BY <1>1, ReleaseShortens DEF Release, InUse
<1>2. CASE ReleaseFails
  BY <1>2, ReleaseShortens DEF ReleaseFails, InUse
<1>3. CASE CleanedUp
  <2>1. ToRelease = {}
    BY <1>3 DEF CleanedUp, ToRelease
  <2>2. Range(<<"dispatcher", "queue">>) = {"dispatcher", "queue"}
    BY PairHolds
  <2>3. /\ UNCHANGED <<mode, held, stuck, buttons, outlived>>
        /\ pc = "clean up"
        /\ \/ Validating /\ pc' = "finally" /\ todo' = <<"dispatcher", "queue">>
           \/ ~Validating /\ pc' = "exited" /\ todo' = <<>>
    BY <1>3 DEF CleanedUp
  <2> QED
    BY <2>1, <2>2, <2>3
<1>4. CASE Finished
  BY <1>4 DEF Finished
<1>5. CASE ShutdownDone
  BY <1>5 DEF ShutdownDone, InUse, ToRelease
<1> QED
  BY <1>1, <1>2, <1>3, <1>4, <1>5

\* The steps of run and shutdown that release nothing.
LEMMA RunOpen ==
    ASSUME MainInv, todo' \in Seq(Objects \cup {"worker"}),
           DispatchTest \/ LampOn \/ LampFails \/ LookForStop \/ LookForError \/ OtherStep
    PROVE  OpenIsListed'
<1> USE InvParts, RangeOfNone DEF OpenIsListed, RunKeeps, Exit, At, fileVars, endVars
<1>1. CASE DispatchTest
  BY <1>1 DEF DispatchTest, ShutDown
<1>2. CASE LampOn
  BY <1>2 DEF LampOn
<1>3. CASE LampFails
  BY <1>3 DEF LampFails
<1>4. CASE LookForStop
  BY <1>4 DEF LookForStop, ShutDown
<1>5. CASE LookForError
  BY <1>5 DEF LookForError, ShutDown
<1>6. CASE OtherStep
  <2>1. UNCHANGED <<pc, mode, buttons, todo, held, stuck, aborted, outlived, detached>>
    BY <1>6, OtherStepKeeps DEF StackKeeps
  <2>2. UNCHANGED <<InUse, ToRelease>>
    BY <2>1 DEF InUse, ToRelease, ReleasedWith
  <2> QED
    BY <2>1, <2>2 DEF Validating
<1> QED
  BY <1>1, <1>2, <1>3, <1>4, <1>5, <1>6

\* Shutdown lists what is open, but for what a worker or a request may still use.
LEMMA JoinOpen ==
    ASSUME MainInv, todo' \in Seq(Objects \cup {"worker"}), Join
    PROVE  OpenIsListed'
<1>1. /\ pc = "join" /\ pc' = "close" /\ UNCHANGED <<mode, held, buttons, stuck>>
      /\ outlived' \in BOOLEAN /\ detached' \in BOOLEAN
      /\ outlived' \/ detached' => mode = "serve"
      /\ "worker" \notin Range(todo')
  BY WhatIsClosed
<1>2. /\ Range(todo') = Range(buttons) \cup {"send_led_controller"}
                  \cup (IF outlived' THEN {} ELSE {"alive_led", "dispatcher"})
                  \cup (IF outlived' \/ mode # "serve" \/ detached' THEN {} ELSE {"queue"})
                  \cup (IF Validating THEN {"queue"} ELSE {})
      /\ Range(buttons) \subseteq {"button1", "button2"}
  BY WhatIsClosed
<1>3. mode \in {"validate", "validate_gpio", "test", "serve"}
  BY <1>1, InvParts DEF FileTypes, Modes, ModesInPlace
<1>4. ASSUME NEW o \in held
      PROVE  o \in stuck' \cup ToRelease' \cup InUse'
  <2>1. o \in Objects /\ (o \in {"button1", "button2"} => o \in Range(buttons))
    BY InvParts, ButtonsAreObjects DEF OtherTypes, OpenIsListed
  <2>2. o = "queue" => mode # "test"
    BY InvParts DEF OpenIsListed
  <2>3. Range(todo') \subseteq ToRelease'
    BY DEF ToRelease, ReleasedWith
  <2>4. ~outlived' => "send_led" \in ToRelease'
    BY <1>2 DEF ToRelease, ReleasedWith
  <2>5. InUse' = IF outlived' THEN {"alive_led", "send_led", "dispatcher", "queue"}
                 ELSE IF detached' THEN {"queue"} ELSE {}
    BY DEF InUse
  <2> QED
    BY <1>1, <1>2, <1>3, <2>1, <2>2, <2>3, <2>4, <2>5, ButtonsAreObjects DEF Validating
<1> QED
  BY <1>1, <1>4, InvParts DEF OpenIsListed

\* Every step keeps what is open on a list.
LEMMA OpenStays ==
    ASSUME MainInv, MainNext
    PROVE  OpenIsListed'
<1>1. todo' \in Seq(Objects \cup {"worker"})
  BY OthersStayTyped, TodoStaysTyped DEF OtherTypes
<1>2. CASE Load
  <2>1. buttons' \in Seq(Range(ButtonObjects))
    BY <1>2, InvParts, LoadTypes, ButtonsAreObjects DEF OpenIsListed
  <2> QED
    BY <1>1, <1>2, <2>1, BuildOpen
<1>3. CASE ~Load
  <2>1. CASE Join
    BY <1>1, <2>1, JoinOpen
  <2>2. CASE Release \/ ReleaseFails \/ CleanedUp \/ Finished \/ ShutdownDone
    BY <1>1, <2>2, ReleaseOpen
  <2>3. CASE DispatchTest \/ LampOn \/ LampFails \/ LookForStop \/ LookForError \/ OtherStep
    BY <1>1, <2>3, RunOpen
  <2>4. CASE \/ LoadFails \/ BuildDispatcher \/ GpiozeroThere \/ GpiozeroMissing
             \/ QueueOpens \/ QueueFails \/ Construct \/ ConstructFails \/ Constructed
    <3>1. UNCHANGED buttons
      BY <2>4 DEF LoadFails, BuildDispatcher, GpiozeroThere, GpiozeroMissing, QueueOpens,
         QueueFails, Construct, ConstructFails, Constructed, BuildKeeps, fileVars
    <3> QED
      BY <1>1, <2>4, <3>1, BuildOpen, InvParts DEF OpenIsListed
  <2> QED
    BY <1>3, <2>1, <2>2, <2>3, <2>4, EveryStep DEF OwnStep
<1> QED
  BY <1>2, <1>3

-----------------------------------------------------------------------------
(* The invariant and what follows from it.                                 *)

\* The invariant holds before the file is loaded.
LEMMA MainInvAtFirst == MainInit => MainInv
<1> SUFFICES ASSUME MainInit
             PROVE  MainInv
  OBVIOUS
<1> USE DEF MainInit
<1>1. FileTypes
  <2>1. Len(file) <= 1
    <3>1. PICK f \in Files : file = <<f>>
      OBVIOUS
    <3> QED
      BY <3>1
  <2>2. buttons = SubSeq(ButtonObjects, 1, 0) /\ 0 \in 0 .. Len(ButtonObjects)
    BY ButtonsAreObjects
  <2>3. buttons \in {SubSeq(ButtonObjects, 1, n) : n \in 0 .. Len(ButtonObjects)}
    BY <2>2
  <2> QED
    BY <2>1, <2>3 DEF FileTypes, Modes
<1>2. frames = <<Frame(<<>>)>> /\ Len(frames) = 1 /\ frames[1] = Frame(<<>>)
  OBVIOUS
<1>3. Frame(<<>>).todo = <<>> /\ Frame(<<>>).inside = FALSE
  BY DEF Frame
<1>4. StackTypes
  BY <1>2, <1>3, MainAssumption DEF StackTypes
<1>5. OtherTypes
  BY DEF OtherTypes, Places
<1>6. TodoTypes
  BY DEF TodoTypes
<1>7. StackInOrder
  <2>1. Frame(<<>>) \in [todo : ShutdownSections \cup HandlerSections, inside : BOOLEAN]
    BY SectionsGoOn DEF Frame
  <2>2. frames \in Seq([todo : ShutdownSections \cup HandlerSections, inside : BOOLEAN])
    BY <1>2, <2>1
  <2>3. /\ crash \in [todo : ThreadSections, inside : BOOLEAN]
        /\ pressFrame \in [todo : ThreadSections, inside : BOOLEAN]
    BY SectionsGoOn DEF Frame
  <2>4. frames[1].todo = <<>> /\ Len(frames) \in 1 .. 1 + signals
    BY <1>2, <1>3
  <2>5. 2 .. Len(frames) = {} /\ ~(Len(frames) > 1)
    BY <1>2
  <2> QED
    BY <2>2, <2>3, <2>4, <2>5, SectionsGoOn DEF StackInOrder
<1>8. ModesInPlace
  BY DEF ModesInPlace, Validating
<1>9. StopHasACause
  BY <1>3 DEF StopHasACause
<1>10. WorkerIsLast
  BY DEF WorkerIsLast, WorkerAlive
<1>11. OpenIsListed
  BY RangeOfNone DEF OpenIsListed
<1>12. MainTypeOK
  BY <1>1, <1>4, <1>5, <1>6, TypeParts
<1> QED
  BY <1>7, <1>8, <1>9, <1>10, <1>11, <1>12 DEF MainInv

\* Every step keeps the invariant.
LEMMA MainInvStays ==
    ASSUME MainInv, [MainNext]_mainVars
    PROVE  MainInv'
<1>1. CASE MainNext
  <2>1. MainTypeOK' /\ StackInOrder'
    BY <1>1, TypesStay, StackGoesOn, InvParts
  <2>2. ModesInPlace' /\ StopHasACause'
    BY <1>1, ModesStay, StopStays
  <2>3. WorkerIsLast' /\ OpenIsListed'
    BY <1>1, WorkerStays, OpenStays
  <2> QED
    BY <2>1, <2>2, <2>3 DEF MainInv
<1>2. CASE UNCHANGED mainVars
  <2>1. /\ UNCHANGED <<file, mode, buttons, pins, reach, pc, todo, held, frames, signals>>
        /\ UNCHANGED <<stop, deadline, worker, crash, press, pressFrame, fatal>>
        /\ UNCHANGED <<outlived, detached, code>>
        /\ UNCHANGED <<answers, stuck, aborted>>
    BY <1>2 DEF mainVars, fileVars, stackVars, threadVars, errorVars, endVars
  <2>2. FileTypes' /\ StackTypes' /\ TodoTypes'
    BY <2>1, InvParts DEF FileTypes, StackTypes, TodoTypes
  <2>3. OtherTypes'
    BY <2>1, InvParts DEF OtherTypes
  <2>4. StackInOrder'
    BY <2>1, InvParts DEF StackInOrder
  <2>5. ModesInPlace'
    BY <2>1, InvParts DEF ModesInPlace, Validating
  <2>6. StopHasACause'
    BY <2>1, InvParts DEF StopHasACause
  <2>7. WorkerIsLast'
    BY <2>1, InvParts DEF WorkerIsLast, WorkerAlive
  <2>8. UNCHANGED <<InUse, ToRelease>>
    BY <2>1 DEF InUse, ToRelease, ReleasedWith
  <2>9. OpenIsListed'
    BY <2>1, <2>8, InvParts DEF OpenIsListed, Validating
  <2> QED
    BY <2>2, <2>3, <2>4, <2>5, <2>6, <2>7, <2>9, TypePartsPrimed DEF MainInv
<1> QED
  BY <1>1, <1>2

\* The main thread, its stack, its worker and what is open go together as
\* MainInv says.
THEOREM MainInvariant == MainSpec => []MainInv
<1>1. MainInit => MainInv
  BY MainInvAtFirst
<1>2. MainInv /\ [MainNext]_mainVars => MainInv'
  BY MainInvStays
<1> QED
  BY <1>1, <1>2, PTL DEF MainSpec

\* Type correctness.
THEOREM MainTypes == MainSpec => []MainTypeOK
<1>1. MainInv => MainTypeOK
  BY DEF MainInv
<1> QED
  BY <1>1, MainInvariant, PTL

\* Neither a failed construction nor a shutdown takes from a worker that lives
\* the send LED, the dispatcher or the queue.
THEOREM WorkerKeepsWhatItUses == MainSpec => []WorkerKeepsItsObjects
<1>1. MainInv => WorkerKeepsItsObjects
  <2> SUFFICES ASSUME MainInv, WorkerAlive
               PROVE  {"send_led", "dispatcher", "queue"} \subseteq held
    BY DEF WorkerKeepsItsObjects
  <2>1. WorkerIsLast
    BY InvParts
  <2>2. CASE pc # "construct"
    BY <2>1, <2>2 DEF WorkerIsLast
  <2>3. CASE pc = "construct"
    BY <2>1, <2>3, RangeOfNone DEF WorkerIsLast, WorkerAlive
  <2> QED
    BY <2>2, <2>3
<1> QED
  BY <1>1, MainInvariant, PTL

\* The grace period counts from the first signal: a shutdown of the service
\* begins it only after a fatal error.
THEOREM GraceCountsFromTheSignal == MainSpec => []GraceFromTheSignal
<1>1. MainInv => GraceFromTheSignal
  BY DEF MainInv, StopHasACause, GraceFromTheSignal
<1> QED
  BY <1>1, MainInvariant, PTL

\* Wherever the construction failed and however the program ended, short of an
\* exception no clean-up stands behind, nothing is left open but what could not
\* be closed and what a worker or a request may still use.
THEOREM NothingIsLeftOpen == MainSpec => []ReleasedUnlessAborted
<1>1. MainInv => ReleasedUnlessAborted
  BY DEF MainInv, OpenIsListed, ReleasedUnlessAborted, InUse
<1> QED
  BY <1>1, MainInvariant, PTL

\* The exit code of the service and of --test tells what happened.
THEOREM ExitCodesAreHonest == MainSpec => []ExitCodeIsHonest
<1>1. MainInv => ExitCodeIsHonest
  <2> SUFFICES ASSUME MainInv, pc = "exited", ~aborted
               PROVE  /\ mode = "serve" /\ code = 0 =>
                            signals > 0 /\ ~fatal /\ (worker = "crashing" => outlived)
                      /\ mode = "test" =>
                            code = (IF reach = {} THEN 2
                                    ELSE IF answers = {"success"} THEN 0 ELSE 1)
    BY DEF ExitCodeIsHonest
  <2>1. StopHasACause /\ ModesInPlace /\ WorkerIsLast
    BY InvParts
  <2> QED
    BY <2>1 DEF StopHasACause, ModesInPlace, WorkerIsLast, WorkerAlive
<1> QED
  BY <1>1, MainInvariant, PTL

-----------------------------------------------------------------------------
(* The file.                                                               *)

\* What is held of a file is one of those that can be given.
FileInPlace == \A i \in DOMAIN file : file[i] \in Files

\* An accepted file keeps its promises to the rest of the program, wherever the
\* program looks at it.
THEOREM AcceptedIsAlwaysSound == MainSpec => []AcceptedIsSound
<1>1. MainInit => FileInPlace
  BY DEF MainInit, FileInPlace
<1>2. FileInPlace /\ [MainNext]_mainVars => FileInPlace'
  <2>1. CASE MainNext /\ Load
    BY <2>1 DEF Load, FileInPlace
  <2>2. CASE MainNext /\ ~Load
    BY <2>2, FileIsTakenOnce DEF fileVars, FileInPlace
  <2>3. CASE UNCHANGED mainVars
    BY <2>3 DEF mainVars, fileVars, FileInPlace
  <2> QED
    BY <2>1, <2>2, <2>3
<1>3. FileInPlace => AcceptedIsSound
  BY FilesAssumption, AcceptedFilesAreSound DEF FileInPlace, AcceptedIsSound
<1> QED
  BY <1>1, <1>2, <1>3, PTL DEF MainSpec

-----------------------------------------------------------------------------
(* One signal.                                                             *)

\* Unless there is a fatal error, the shutdown begins when a handler has returned,
\* and from then on fewer handlers are on the stack than there were signals.
HandlerReturned ==
    mode = "serve" /\ pc \in {"join", "close"} => fatal \/ Len(frames) <= signals

\* The shutdown of a service begins with a signal behind it.
LEMMA ShutdownAfterHandler ==
    ASSUME MainInv, OwnStep, HandlerReturned
    PROVE  HandlerReturned'
<1>1. Len(frames') = 1 /\ signals' = signals /\ signals \in Nat
  BY OwnStepStack, OwnStepOnTheStack, TopOfTheStack, InvParts DEF StackInOrder
<1>2. StopHasACause'
  BY OwnStepStop
<1>3. mode' = "serve" /\ pc' \in {"join", "close"} => fatal' \/ signals' > 0
  BY <1>2 DEF StopHasACause
<1> QED
  BY <1>1, <1>3 DEF HandlerReturned

\* A signal adds one of each; the other steps add to neither.
LEMMA HandlersAreSignals ==
    ASSUME MainInv, OtherStep, HandlerReturned
    PROVE  HandlerReturned'
<1>1. UNCHANGED <<pc, mode>> /\ (fatal => fatal')
  BY OtherStepKeeps, InvParts, WorkerStepThreads, PressStepThreads
     DEF StackKeeps, fileVars, OtherStep, EnterSection, LeaveSection, HandlerReturns,
         Signal, threadVars, errorVars
<1>2. /\ frames \in Seq([todo : ShutdownSections \cup HandlerSections, inside : BOOLEAN])
      /\ Len(frames) \in Nat /\ signals \in Nat
  BY InvParts, TopOfTheStack DEF StackInOrder
<1>3. \/ Len(frames') <= Len(frames) /\ signals' = signals
      \/ Len(frames') = Len(frames) + 1 /\ signals' = signals + 1
  <2>1. CASE Signal
    BY <2>1, <1>2 DEF Signal
  <2>2. CASE HandlerReturns
    <3>1. Len(frames) > 1 /\ frames' = SubSeq(frames, 1, Len(frames) - 1) /\ signals' = signals
      BY <2>2 DEF HandlerReturns
    <3>2. Len(frames') = Len(frames) - 1
      BY <3>1, <1>2
    <3> QED
      BY <3>1, <3>2, <1>2
  <2>3. CASE EnterSection \/ LeaveSection
    BY <2>3, <1>2 DEF EnterSection, LeaveSection
  <2>4. CASE WorkerStep \/ PressStep
    BY <2>4, <1>2, ThreadStepKeeps
  <2> QED
    BY <2>1, <2>2, <2>3, <2>4 DEF OtherStep
<1>4. Len(frames') \in Nat
  BY <1>2, <1>3
<1> QED
  BY <1>1, <1>2, <1>3, <1>4 DEF HandlerReturned

\* An ordinary stop, one signal to a service without a fatal error, neither a crash
\* of its worker nor a press it could not store, never waits for a lock that the
\* main thread itself holds.
THEOREM OneSignalIsSafe == MainSpec => []OneSignalNeverBlocks
<1>1. MainInit => HandlerReturned
  BY DEF MainInit, HandlerReturned
<1>2. MainInv /\ HandlerReturned /\ [MainNext]_mainVars => HandlerReturned'
  <2>1. CASE UNCHANGED mainVars
    BY <2>1 DEF HandlerReturned, mainVars, fileVars, stackVars, threadVars, errorVars
  <2> QED
    BY <2>1, ShutdownAfterHandler, HandlersAreSignals, EveryStep
<1>3. MainInv /\ HandlerReturned => OneSignalNeverBlocks
  <2> SUFFICES ASSUME MainInv, HandlerReturned, signals <= 1, ~fatal, BlockedOnItself
               PROVE  FALSE
    BY DEF OneSignalNeverBlocks
  <2>1. Len(frames) \in Nat /\ signals \in Nat /\ Len(frames) <= 1 + signals
    BY InvParts, TopOfTheStack DEF StackInOrder
  <2>2. Len(frames) = 2 /\ signals = 1
    <3> DEFINE n == Len(frames)
    <3>1. n > 1 /\ n \in Nat /\ signals \in Nat /\ n <= 1 + signals
      BY <2>1, Zenon DEF BlockedOnItself
    <3> HIDE DEF n
    <3>2. n = 2 /\ signals = 1
      BY <3>1
    <3> QED
      BY <3>2, Zenon DEF n
  <2>3. frames[1].inside
    BY <2>2 DEF BlockedOnItself, Inside
  <2>4. pc = "join" /\ mode = "serve"
    BY <2>2, <2>3, InvParts DEF StackInOrder, StackTypes
  <2> QED
    BY <2>2, <2>4 DEF HandlerReturned
<1> QED
  BY <1>1, <1>2, <1>3, MainInvariant, PTL DEF MainSpec

=============================================================================
