------------------------- MODULE HttpExchangeProofs -------------------------
(***************************************************************************)
(* Proofs about HttpExchange, for every number of destinations, every list *)
(* of delays, every time-out and every limit: the inductive invariant      *)
(* ExchangeInv, the properties it contains, and that the threads implement *)
(* the contract of the fan-out.                                            *)
(***************************************************************************)
EXTENDS HttpExchange, TLAPS

-----------------------------------------------------------------------------
(* The inductive invariant.                                                *)

\* What holds between the steps of a thread, and why the properties below do.
AttemptsLeft ==
    \A t \in Targets :
       /\ pc[t] = "idle" => attempt[t] = 0 /\ latest[t] = NoResult
       /\ pc[t] \in {"check", "pausing"} => attempt[t] < Len(Delays)
       /\ pc[t] = "pausing" => latest[t] = "retryable"
       /\ pc[t] \in {"check", "preflight"} \cup Sending =>
             latest[t] \in {"retryable", NoResult}

UnsentYet ==
    \A t \in Targets :
       /\ pc[t] \in {"preflight", "resolve", "opening", "registering", "ready"} => ~sent[t]
       /\ latest[t] = NoResult /\ pc[t] \in {"idle", "check"} => ~sent[t]

SessionsOwned ==
    \A t \in Targets :
       /\ session[t] = "made" => pc[t] = "registering"
       /\ session[t] \in {"closed", "stray"} => closed
       /\ closed /\ ~forced => pc[t] = "collected"

\* A pause is as long as the destination asked for, or ends with the deadline.
QuietKept ==
    \A t \in Targets :
       /\ pc[t] = "pausing" => quiet[t] <= timer[t] \/ (limited /\ left <= timer[t])
       /\ pc[t] \in {"idle", "check", "preflight", "resolve", "opening", "registering", "ready"}
             => quiet[t] = 0

\* Every wait that has ended was for a part of the headers or for a byte.
WaitsCounted ==
    \A t \in Targets :
       /\ pc[t] = "headers" => elapsed[t] + timer[t] <= timeout[t] * waits[t]
       /\ pc[t] = "body" =>
             elapsed[t] + timer[t] <= timeout[t] * (HeaderWaits + total[t] + got[t] + 1)
       /\ pc[t] \notin Waiting \cup {"decide"} => elapsed[t] = 0

\* Why a thread's reports are the ones the contract allows.
AnswersFollow ==
    /\ \/ \A t \in Targets : pc[t] = "idle"
       \/ \A t \in Targets : pc[t] # "idle"
    /\ (\A t \in Targets : pc[t] = "idle") => tried = {}
    /\ \A t \in Targets :
          /\ latest[t] = "skipped" => CutOff
          /\ latest[t] \in {"success", "permanent", "retryable"} => t \in tried
          /\ pc[t] \in Sending => t \in tried
          /\ latest[t] # "refused"
          /\ pc[t] = "returned" => latest[t] # NoResult

\* The inductive invariant of the proofs.
ExchangeInv ==
    /\ ExchangeTypeOK
    /\ AttemptsLeft
    /\ UnsentYet
    /\ SkippedSentNothing
    /\ SessionsOwned
    /\ SessionsAreReleased
    /\ QuietKept
    /\ WaitsCounted
    /\ RequestIsBounded


USE DEF Results, NoResult

-----------------------------------------------------------------------------
(* Lemmas about the operators.                                             *)

\* Every delay is a natural number.
LEMMA DelayType ==
    ASSUME NEW i \in 1 .. Len(Delays)
    PROVE  Delays[i] \in Nat
  BY ExchangeAssumption

\* NoHeader has the shape of a number.
LEMMA HeaderType ==
    ASSUME NEW header \in RetryAfters \cup {NoHeader}
    PROVE  header \in Float
<1>1. NoHeader \in Float
  BY DEF Float, NoHeader
<1> QED
  BY <1>1, ExchangeAssumption

\* Whatever the header is, the pause is a number within the maximum, and not
\* shorter than the destination asked for.
LEMMA PauseType ==
    ASSUME NEW t, NEW header \in Float,
           attempt[t] + 1 \in 1 .. Len(Delays)
    PROVE  /\ Pause(t, header) \in 0 .. MaxRetryAfter
           /\ AskedFor(header) \in 0 .. MaxRetryAfter
           /\ AskedFor(header) <= Pause(t, header)
<1> DEFINE wait == IF header = NoHeader THEN Number(Delays[attempt[t] + 1]) ELSE header
<1>1. wait \in Float
  BY DelayType DEF Float, Number
<1>2. MaxRetryAfter \in Nat
  BY ExchangeAssumption
<1>3. Pause(t, header) = PyMax(Number(0), PyMin(wait, Number(MaxRetryAfter))).val
  BY DEF Pause
<1>4. Pause(t, header) = IF wait.nan \/ wait.val <= 0 THEN 0
                         ELSE IF wait.val <= MaxRetryAfter THEN wait.val ELSE MaxRetryAfter
  <2> HIDE DEF wait
  <2> QED
    BY <1>1, <1>2, <1>3 DEF PyMax, PyMin, Below, Number, Float
<1>5. Pause(t, header) \in 0 .. MaxRetryAfter
  <2> HIDE DEF wait
  <2> QED
    BY <1>1, <1>2, <1>4 DEF Float
<1>6. AskedFor(header) \in 0 .. MaxRetryAfter
  BY <1>2 DEF AskedFor, Least, Float
<1>7. AskedFor(header) <= Pause(t, header)
  <2>1. CASE header = NoHeader
    BY <2>1, <1>2, <1>5 DEF AskedFor
  <2>2. CASE header # NoHeader
    BY <2>2, <1>2, <1>4 DEF AskedFor, Least, Float
  <2> QED
    BY <2>1, <2>2
<1> QED
  BY <1>5, <1>6, <1>7

\* A destination asks for a number of ticks within the maximum.
LEMMA AskedForType ==
    ASSUME NEW header \in Float
    PROVE  AskedFor(header) \in 0 .. MaxRetryAfter
<1>1. MaxRetryAfter \in Nat
  BY ExchangeAssumption
<1> QED
  BY <1>1 DEF AskedFor, Least, Float

\* The outcome of an answer is a result, and never "skipped".
LEMMA OutcomeType ==
    ASSUME NEW t, NEW code
    PROVE  Outcome(t, code) \in {"success", "permanent", "retryable"}
  BY DEF Outcome

\* More waits of the same length take no less time.
LEMMA ProductMonotone ==
    ASSUME NEW n \in Nat, NEW a \in Nat, NEW b \in Nat, a <= b
    PROVE  n * a <= n * b
<1>1. PICK d \in Nat : b = a + d
  <2>1. b - a \in Nat /\ b = a + (b - a)
    OBVIOUS
  <2> QED
    BY <2>1
<1>2. n * b = n * a + n * d
  BY <1>1
<1>3. n * d >= 0
  OBVIOUS
<1> QED
  BY <1>2, <1>3

\* What is within a bound is within a longer one.
LEMMA LongerBound ==
    ASSUME NEW n \in Nat, NEW a \in Nat, NEW b \in Nat, a <= b,
           NEW e \in Nat, e <= n * a
    PROVE  e <= n * b
<1>1. n * a \in Nat /\ n * b \in Nat /\ n * a <= n * b
  BY ProductMonotone
<1> QED
  BY <1>1

\* Waits for the headers, bytes of the body and bytes of a chunk.
LEMMA CountMonotone ==
    ASSUME NEW a \in Nat, NEW b \in Nat, NEW c \in Nat, NEW d \in Nat, NEW e \in Nat,
           b <= d, c + 1 <= e
    PROVE  /\ a + b + c + 1 \in Nat /\ a + d + e \in Nat
           /\ a + b + c + 1 <= a + d + e
  OBVIOUS

\* One byte more.
LEMMA CountNext ==
    ASSUME NEW a \in Nat, NEW b \in Nat, NEW c \in Nat
    PROVE  a + b + (c + 1) + 1 = (a + b + c + 1) + 1
  OBVIOUS

\* One wait more makes one time-out more.
LEMMA OneWaitMore ==
    ASSUME NEW n \in Nat, NEW a \in Nat, NEW e \in Nat, e <= n * a
    PROVE  e + n <= n * (a + 1)
<1>1. n * (a + 1) = n * a + n /\ n * a \in Nat
  OBVIOUS
<1> QED
  BY <1>1

-----------------------------------------------------------------------------
(* The inductive invariant.                                                *)

USE DEF EnvKeeps, envVars, callVars, requestVars, closeVars, Goto, Return,
        Waiting, Blocked, Sending

\* The constants the steps compute with.
LEMMA Constants ==
    /\ Len(Delays) \in Nat \ {0}
    /\ MaxRetryAfter \in Nat
    /\ RequestTimeout \in Nat /\ MinTimeout \in Nat
    /\ Greatest(MinTimeout, RequestTimeout) \in Nat
    /\ Delivery \in Nat
    /\ BodyLimit \in Nat
    /\ HeaderWaits \in Nat \ {0}
    /\ ChunkSize \in Nat \ {0}
<1>1. ChunkSize \in Nat \ {0} /\ Greatest(MinTimeout, RequestTimeout) \in Nat
  BY ExchangeAssumption DEF ChunkSize, Least, Greatest
<1> QED
  BY <1>1, ExchangeAssumption

\* A clock that counts down stays at zero.
LEMMA CountDown ==
    ASSUME NEW n \in Nat
    PROVE  /\ Greatest(0, n - 1) \in Nat
           /\ Greatest(0, n - 1) <= n
           /\ n > 0 => Greatest(0, n - 1) = n - 1
  BY DEF Greatest

\* The bound of a request is a number.
LEMMA BoundType ==
    ASSUME NEW n \in Nat
    PROVE  n * (HeaderWaits + BodyLimit + ChunkSize) \in Nat
  BY Constants

\* Whatever is left of the current wait, the request has taken no longer than
\* the waits before.
LEMMA WaitEnds ==
    ASSUME ExchangeInv, NEW t \in Targets
    PROVE  /\ pc[t] = "headers" => elapsed[t] <= timeout[t] * waits[t]
           /\ pc[t] = "body" =>
                elapsed[t] <= timeout[t] * (HeaderWaits + total[t] + got[t] + 1)
<1>1. /\ elapsed[t] \in Nat /\ timer[t] \in Nat /\ timeout[t] \in Nat
      /\ waits[t] \in Nat /\ HeaderWaits + total[t] + got[t] + 1 \in Nat
  BY Constants DEF ExchangeInv, ExchangeTypeOK, ValuesTypeOK
<1>2. /\ timeout[t] * waits[t] \in Nat
      /\ timeout[t] * (HeaderWaits + total[t] + got[t] + 1) \in Nat
  BY <1>1
<1> QED
  BY <1>1, <1>2 DEF ExchangeInv, WaitsCounted

\* The current wait ends within the bound, too.
LEMMA WaitBounded ==
    ASSUME ExchangeInv, NEW t \in Targets, pc[t] \in Waiting
    PROVE  elapsed[t] + timer[t] <= timeout[t] * (HeaderWaits + BodyLimit + ChunkSize)
<1>1. /\ timeout[t] \in Nat /\ waits[t] \in Nat /\ total[t] \in Nat /\ got[t] \in Nat
      /\ timer[t] \in Nat /\ elapsed[t] \in Nat
  BY DEF ExchangeInv, ExchangeTypeOK, ValuesTypeOK
<1>2. waits[t] <= HeaderWaits /\ total[t] <= BodyLimit /\ got[t] + 1 <= ChunkSize
  BY <1>1, Constants DEF ExchangeInv, ExchangeTypeOK, RangesOK
<1>3. elapsed[t] + timer[t] \in Nat /\ HeaderWaits + BodyLimit + ChunkSize \in Nat
  BY <1>1, Constants
<1>4. CASE pc[t] = "headers"
  <2>1. elapsed[t] + timer[t] <= timeout[t] * waits[t]
    BY <1>4 DEF ExchangeInv, WaitsCounted
  <2>2. waits[t] <= HeaderWaits + BodyLimit + ChunkSize
    BY <1>1, <1>2, Constants
  <2> QED
    BY <1>1, <1>3, <2>1, <2>2, LongerBound
<1>5. CASE pc[t] = "body"
  <2>1. elapsed[t] + timer[t] <= timeout[t] * (HeaderWaits + total[t] + got[t] + 1)
    BY <1>5 DEF ExchangeInv, WaitsCounted
  <2>2. /\ HeaderWaits + total[t] + got[t] + 1 \in Nat
        /\ HeaderWaits + total[t] + got[t] + 1 <= HeaderWaits + BodyLimit + ChunkSize
    BY <1>1, <1>2, Constants, CountMonotone
  <2> QED
    BY <1>1, <1>3, <2>1, <2>2, LongerBound
<1> QED
  BY <1>4, <1>5

\* The loop ends before an attempt: what it returns was seen before, or
\* nothing was sent.
LEMMA GiveUpInv ==
    ASSUME ExchangeInv, NEW t \in Targets, GiveUp(t)
    PROVE  ExchangeInv'
<1> USE DEF GiveUp, ExchangeInv, ExchangeTypeOK
<1>1. (ValuesTypeOK /\ RangesOK /\ TimersBounded)'
  BY Constants DEF ValuesTypeOK, States, RangesOK, TimersBounded
<1>2. (AttemptsLeft /\ UnsentYet /\ SkippedSentNothing)'
  BY DEF ValuesTypeOK, AttemptsLeft, UnsentYet, SkippedSentNothing
<1>3. (SessionsOwned /\ SessionsAreReleased /\ QuietKept /\ WaitsCounted /\ RequestIsBounded)'
  BY DEF ValuesTypeOK, SessionsOwned, SessionsAreReleased, QuietKept, TimersBounded,
      WaitsCounted, RequestIsBounded
<1> QED
  BY <1>1, <1>2, <1>3

\* A call of send begins; there are attempts left.
LEMMA CallSendInv ==
    ASSUME ExchangeInv, NEW t \in Targets, CallSend(t)
    PROVE  ExchangeInv'
<1> USE DEF CallSend, ExchangeInv, ExchangeTypeOK
<1>1. ValuesTypeOK'
  BY DEF ValuesTypeOK, States
<1>2. RangesOK'
  BY Constants DEF ValuesTypeOK, RangesOK, AttemptsLeft
<1>3. TimersBounded'
  BY DEF ValuesTypeOK, TimersBounded
<1>4. (AttemptsLeft /\ UnsentYet /\ SkippedSentNothing)'
  BY DEF ValuesTypeOK, AttemptsLeft, UnsentYet, SkippedSentNothing
<1>5. (SessionsOwned /\ SessionsAreReleased /\ QuietKept /\ WaitsCounted /\ RequestIsBounded)'
  BY DEF ValuesTypeOK, SessionsOwned, SessionsAreReleased, QuietKept, TimersBounded,
      WaitsCounted, RequestIsBounded
<1> QED
  BY <1>1, <1>2, <1>3, <1>4, <1>5

\* The preflight check stops the call: nothing was sent.
LEMMA PreflightStopsInv ==
    ASSUME ExchangeInv, NEW t \in Targets, PreflightStops(t)
    PROVE  ExchangeInv'
<1> USE DEF PreflightStops, ExchangeInv, ExchangeTypeOK
<1>1. (ValuesTypeOK /\ RangesOK /\ TimersBounded)'
  BY Constants DEF ValuesTypeOK, States, RangesOK, TimersBounded
<1>2. (AttemptsLeft /\ UnsentYet /\ SkippedSentNothing)'
  BY DEF ValuesTypeOK, AttemptsLeft, UnsentYet, SkippedSentNothing
<1>3. (SessionsOwned /\ SessionsAreReleased /\ QuietKept /\ WaitsCounted /\ RequestIsBounded)'
  BY DEF ValuesTypeOK, SessionsOwned, SessionsAreReleased, QuietKept, TimersBounded,
      WaitsCounted, RequestIsBounded
<1> QED
  BY <1>1, <1>2, <1>3

\* The preflight check lets the call pass.
LEMMA PreflightPassesInv ==
    ASSUME ExchangeInv, NEW t \in Targets, PreflightPasses(t)
    PROVE  ExchangeInv'
<1> USE DEF PreflightPasses, ExchangeInv, ExchangeTypeOK
<1>1. (ValuesTypeOK /\ RangesOK /\ TimersBounded)'
  BY Constants DEF ValuesTypeOK, States, RangesOK, TimersBounded
<1>2. (AttemptsLeft /\ UnsentYet /\ SkippedSentNothing)'
  BY DEF ValuesTypeOK, AttemptsLeft, UnsentYet, SkippedSentNothing
<1>3. (SessionsOwned /\ SessionsAreReleased /\ QuietKept /\ WaitsCounted /\ RequestIsBounded)'
  BY DEF ValuesTypeOK, SessionsOwned, SessionsAreReleased, QuietKept, TimersBounded,
      WaitsCounted, RequestIsBounded
<1> QED
  BY <1>1, <1>2, <1>3

\* The deadline is found to have passed: nothing was sent.
LEMMA DeadlineExceededInv ==
    ASSUME ExchangeInv, NEW t \in Targets, DeadlineExceeded(t)
    PROVE  ExchangeInv'
<1> USE DEF DeadlineExceeded, ExchangeInv, ExchangeTypeOK
<1>1. (ValuesTypeOK /\ RangesOK /\ TimersBounded)'
  BY Constants DEF ValuesTypeOK, States, RangesOK, TimersBounded
<1>2. (AttemptsLeft /\ UnsentYet /\ SkippedSentNothing)'
  BY DEF ValuesTypeOK, AttemptsLeft, UnsentYet, SkippedSentNothing
<1>3. (SessionsOwned /\ SessionsAreReleased /\ QuietKept /\ WaitsCounted /\ RequestIsBounded)'
  BY DEF ValuesTypeOK, SessionsOwned, SessionsAreReleased, QuietKept, TimersBounded,
      WaitsCounted, RequestIsBounded
<1> QED
  BY <1>1, <1>2, <1>3

\* The time-out is chosen; no wait is counted yet.
LEMMA ResolveTimeoutInv ==
    ASSUME ExchangeInv, NEW t \in Targets, ResolveTimeout(t)
    PROVE  ExchangeInv'
<1> USE DEF ResolveTimeout, ExchangeInv, ExchangeTypeOK
<1>1. ValuesTypeOK'
  <2>1. timeout' \in [Targets -> Nat]
    BY Constants DEF ValuesTypeOK, Least, Greatest
  <2> QED
    BY <2>1 DEF ValuesTypeOK, States
<1>2. RangesOK'
  <2>1. timeout'[t] <= Greatest(MinTimeout, RequestTimeout)
    BY Constants DEF ValuesTypeOK, Least, Greatest
  <2> QED
    BY <2>1, Constants DEF ValuesTypeOK, RangesOK
<1>3. TimersBounded'
  BY DEF ValuesTypeOK, TimersBounded
<1>4. (AttemptsLeft /\ UnsentYet /\ SkippedSentNothing)'
  BY DEF ValuesTypeOK, AttemptsLeft, UnsentYet, SkippedSentNothing
<1>5. SessionsOwned' /\ SessionsAreReleased'
  BY DEF ValuesTypeOK, SessionsOwned, SessionsAreReleased
<1>6. QuietKept'
  BY DEF ValuesTypeOK, QuietKept, TimersBounded
<1>7. WaitsCounted' /\ RequestIsBounded'
  <2>1. elapsed' = elapsed /\ elapsed[t] = 0
    BY DEF WaitsCounted
  <2>2. WaitsCounted'
    BY <2>1 DEF ValuesTypeOK, WaitsCounted
  <2>3. timeout'[t] \in Nat
    BY <1>1 DEF ValuesTypeOK
  <2>4. 0 <= timeout'[t] * (HeaderWaits + BodyLimit + ChunkSize)
    BY <2>3, BoundType
  <2>5. \A u \in Targets : u # t => timeout'[u] = timeout[u]
    BY DEF ValuesTypeOK
  <2> QED
    BY <2>1, <2>2, <2>4, <2>5 DEF RequestIsBounded
<1> QED
  BY <1>1, <1>2, <1>3, <1>4, <1>5, <1>6, <1>7

\* A session is made, by a thread that has not ended.
LEMMA OpenSessionInv ==
    ASSUME ExchangeInv, NEW t \in Targets, OpenSession(t)
    PROVE  ExchangeInv'
<1> USE DEF OpenSession, ExchangeInv, ExchangeTypeOK
<1>1. (ValuesTypeOK /\ RangesOK /\ TimersBounded)'
  BY Constants DEF ValuesTypeOK, States, RangesOK, TimersBounded
<1>2. (AttemptsLeft /\ UnsentYet /\ SkippedSentNothing)'
  BY DEF ValuesTypeOK, AttemptsLeft, UnsentYet, SkippedSentNothing
<1>3. (SessionsOwned /\ SessionsAreReleased /\ QuietKept /\ WaitsCounted /\ RequestIsBounded)'
  BY DEF ValuesTypeOK, SessionsOwned, SessionsAreReleased, QuietKept, TimersBounded,
      WaitsCounted, RequestIsBounded
<1> QED
  BY <1>1, <1>2, <1>3

\* A session is noted; it is lost only if close has gone before.
LEMMA RegisterSessionInv ==
    ASSUME ExchangeInv, NEW t \in Targets, RegisterSession(t)
    PROVE  ExchangeInv'
<1> USE DEF RegisterSession, ExchangeInv, ExchangeTypeOK
<1>1. (ValuesTypeOK /\ RangesOK /\ TimersBounded)'
  BY Constants DEF ValuesTypeOK, States, RangesOK, TimersBounded
<1>2. (AttemptsLeft /\ UnsentYet /\ SkippedSentNothing)'
  BY DEF ValuesTypeOK, AttemptsLeft, UnsentYet, SkippedSentNothing
<1>3. (SessionsOwned /\ SessionsAreReleased /\ QuietKept /\ WaitsCounted /\ RequestIsBounded)'
  BY DEF ValuesTypeOK, SessionsOwned, SessionsAreReleased, QuietKept, TimersBounded,
      WaitsCounted, RequestIsBounded
<1> QED
  BY <1>1, <1>2, <1>3

\* The first wait begins, and is counted.
LEMMA SendRequestInv ==
    ASSUME ExchangeInv, NEW t \in Targets, SendRequest(t)
    PROVE  ExchangeInv'
<1> USE DEF SendRequest, ExchangeInv, ExchangeTypeOK
<1>1. ValuesTypeOK'
  BY DEF ValuesTypeOK, States
<1>2. RangesOK'
  BY Constants DEF ValuesTypeOK, RangesOK
<1>3. TimersBounded'
  BY DEF ValuesTypeOK, TimersBounded
<1>4. (AttemptsLeft /\ UnsentYet /\ SkippedSentNothing)'
  BY DEF ValuesTypeOK, AttemptsLeft, UnsentYet, SkippedSentNothing
<1>5. (SessionsOwned /\ SessionsAreReleased /\ QuietKept /\ WaitsCounted /\ RequestIsBounded)'
  BY DEF ValuesTypeOK, SessionsOwned, SessionsAreReleased, QuietKept, TimersBounded,
      WaitsCounted, RequestIsBounded
<1> QED
  BY <1>1, <1>2, <1>3, <1>4, <1>5

\* One wait more for the headers.
LEMMA HeadersTrickleInv ==
    ASSUME ExchangeInv, NEW t \in Targets, HeadersTrickle(t)
    PROVE  ExchangeInv'
<1> USE DEF HeadersTrickle, ExchangeInv, ExchangeTypeOK
<1>1. ValuesTypeOK'
  BY DEF ValuesTypeOK, States
<1>2. RangesOK'
  BY Constants DEF ValuesTypeOK, RangesOK
<1>3. TimersBounded'
  BY DEF ValuesTypeOK, TimersBounded
<1>4. (AttemptsLeft /\ UnsentYet /\ SkippedSentNothing)'
  BY DEF ValuesTypeOK, AttemptsLeft, UnsentYet, SkippedSentNothing
<1>5. SessionsOwned' /\ SessionsAreReleased'
  BY DEF ValuesTypeOK, SessionsOwned, SessionsAreReleased
<1>6. QuietKept'
  BY DEF ValuesTypeOK, QuietKept, TimersBounded
<1>7. WaitsCounted' /\ RequestIsBounded'
  <2>1. /\ pc' = pc /\ elapsed' = elapsed /\ timeout' = timeout /\ RequestIsBounded'
        /\ total' = total /\ got' = got
        /\ \A u \in Targets : u # t => timer'[u] = timer[u] /\ waits'[u] = waits[u]
    BY DEF ValuesTypeOK, RequestIsBounded
  <2>2. /\ pc[t] = "headers" /\ timer'[t] = timeout[t] /\ waits'[t] = waits[t] + 1
        /\ timeout[t] \in Nat /\ waits[t] \in Nat /\ elapsed[t] \in Nat
    BY DEF ValuesTypeOK
  <2>3. elapsed[t] <= timeout[t] * waits[t]
    BY WaitEnds, <2>2
  <2>4. elapsed[t] + timeout[t] <= timeout[t] * (waits[t] + 1)
    BY <2>2, <2>3, OneWaitMore
  <2> QED
    BY <2>1, <2>2, <2>4 DEF WaitsCounted
<1> QED
  BY <1>1, <1>2, <1>3, <1>4, <1>5, <1>6, <1>7

\* The headers are complete: one wait more, for the body.
LEMMA AnswerInv ==
    ASSUME ExchangeInv, NEW t \in Targets, NEW code \in Statuses, Answer(t, code)
    PROVE  ExchangeInv'
<1> USE DEF Answer, ExchangeInv, ExchangeTypeOK
<1>1. ValuesTypeOK'
  BY DEF ValuesTypeOK, States
<1>2. RangesOK'
  BY Constants DEF ValuesTypeOK, RangesOK
<1>3. TimersBounded'
  BY DEF ValuesTypeOK, TimersBounded
<1>4. (AttemptsLeft /\ UnsentYet /\ SkippedSentNothing)'
  BY DEF ValuesTypeOK, AttemptsLeft, UnsentYet, SkippedSentNothing
<1>5. SessionsOwned' /\ SessionsAreReleased'
  BY DEF ValuesTypeOK, SessionsOwned, SessionsAreReleased
<1>6. QuietKept'
  BY DEF ValuesTypeOK, QuietKept, TimersBounded
<1>7. WaitsCounted' /\ RequestIsBounded'
  <2>1. /\ elapsed' = elapsed /\ timeout' = timeout /\ waits' = waits /\ RequestIsBounded'
        /\ \A u \in Targets : u # t => /\ pc'[u] = pc[u] /\ timer'[u] = timer[u]
                                      /\ total'[u] = total[u] /\ got'[u] = got[u]
    BY DEF ValuesTypeOK, RequestIsBounded
  <2>2. /\ pc'[t] = "body" /\ timer'[t] = timeout[t] /\ total'[t] = 0 /\ got'[t] = 0
        /\ pc[t] = "headers" /\ waits[t] <= HeaderWaits
        /\ timeout[t] \in Nat /\ waits[t] \in Nat /\ elapsed[t] \in Nat
    BY DEF ValuesTypeOK, RangesOK
  <2>3. elapsed[t] <= timeout[t] * waits[t]
    BY WaitEnds, <2>2
  <2>4. elapsed[t] <= timeout[t] * HeaderWaits
    BY <2>2, <2>3, Constants, LongerBound
  <2>5. elapsed[t] + timeout[t] <= timeout[t] * (HeaderWaits + 1)
    BY <2>2, <2>4, Constants, OneWaitMore
  <2>6. HeaderWaits + 0 + 0 + 1 = HeaderWaits + 1
    BY Constants
  <2> QED
    BY <2>1, <2>2, <2>5, <2>6 DEF WaitsCounted
<1> QED
  BY <1>1, <1>2, <1>3, <1>4, <1>5, <1>6, <1>7

\* One byte more of a chunk, one wait more.
LEMMA BytesTrickleInv ==
    ASSUME ExchangeInv, NEW t \in Targets, BytesTrickle(t)
    PROVE  ExchangeInv'
<1> USE DEF BytesTrickle, ExchangeInv, ExchangeTypeOK
<1>1. ValuesTypeOK'
  BY DEF ValuesTypeOK, States
<1>2. RangesOK'
  BY Constants DEF ValuesTypeOK, RangesOK
<1>3. TimersBounded'
  BY DEF ValuesTypeOK, TimersBounded
<1>4. (AttemptsLeft /\ UnsentYet /\ SkippedSentNothing)'
  BY DEF ValuesTypeOK, AttemptsLeft, UnsentYet, SkippedSentNothing
<1>5. SessionsOwned' /\ SessionsAreReleased'
  BY DEF ValuesTypeOK, SessionsOwned, SessionsAreReleased
<1>6. QuietKept'
  BY DEF ValuesTypeOK, QuietKept, TimersBounded
<1>7. WaitsCounted' /\ RequestIsBounded'
  <2>1. /\ pc' = pc /\ elapsed' = elapsed /\ timeout' = timeout /\ waits' = waits
        /\ total' = total /\ RequestIsBounded'
        /\ \A u \in Targets : u # t => timer'[u] = timer[u] /\ got'[u] = got[u]
    BY DEF ValuesTypeOK, RequestIsBounded
  <2>2. /\ pc[t] = "body" /\ timer'[t] = timeout[t] /\ got'[t] = got[t] + 1
        /\ timeout[t] \in Nat /\ total[t] \in Nat /\ got[t] \in Nat /\ elapsed[t] \in Nat
    BY DEF ValuesTypeOK
  <2>3. elapsed[t] <= timeout[t] * (HeaderWaits + total[t] + got[t] + 1)
    BY WaitEnds, <2>2
  <2>4. HeaderWaits + total[t] + got[t] + 1 \in Nat
    BY <2>2, Constants
  <2>5. elapsed[t] + timeout[t] <= timeout[t] * ((HeaderWaits + total[t] + got[t] + 1) + 1)
    BY <2>2, <2>3, <2>4, OneWaitMore
  <2>6. HeaderWaits + total[t] + (got[t] + 1) + 1 = (HeaderWaits + total[t] + got[t] + 1) + 1
    <3>1. HeaderWaits \in Nat
      BY Constants
    <3> HIDE DEF BytesTrickle, ExchangeInv
    <3> QED
      BY <2>2, <3>1, CountNext
  <2> QED
    BY <2>1, <2>2, <2>5, <2>6 DEF WaitsCounted
<1> QED
  BY <1>1, <1>2, <1>3, <1>4, <1>5, <1>6, <1>7

\* A chunk that fits is at least a byte longer than what was waited for
\* before.
LEMMA ChunkArrivesInv ==
    ASSUME ExchangeInv, NEW t \in Targets, NEW size \in 1 .. ChunkSize, ChunkArrives(t, size)
    PROVE  ExchangeInv'
<1> USE DEF ChunkArrives, ExchangeInv, ExchangeTypeOK
<1>1. ValuesTypeOK'
  <2>1. Kept(t, size) \in Nat
    BY Constants DEF ValuesTypeOK, Kept, Least
  <2>2. CASE ChunkFits(t, size)
    BY <2>1, <2>2 DEF ValuesTypeOK, States
  <2>3. CASE ~ChunkFits(t, size)
    BY <2>1, <2>3 DEF ValuesTypeOK, States
  <2> QED
    BY <2>2, <2>3
<1>2. RangesOK'
  <2>1. Kept(t, size) <= BodyLimit
    BY Constants DEF ValuesTypeOK, Kept, Least
  <2> QED
    BY <2>1, Constants DEF ValuesTypeOK, RangesOK
<1>3. TimersBounded'
  BY DEF ValuesTypeOK, TimersBounded
<1>4. (AttemptsLeft /\ UnsentYet /\ SkippedSentNothing)'
  <2>1. AttemptsLeft'
    BY DEF ValuesTypeOK, AttemptsLeft
  <2>2. UnsentYet'
    BY DEF ValuesTypeOK, UnsentYet
  <2>3. SkippedSentNothing'
    BY DEF ValuesTypeOK, SkippedSentNothing
  <2> QED
    BY <2>1, <2>2, <2>3
<1>5. SessionsOwned' /\ SessionsAreReleased'
  BY DEF ValuesTypeOK, SessionsOwned, SessionsAreReleased
<1>6. QuietKept'
  BY DEF ValuesTypeOK, QuietKept, TimersBounded
<1>7. WaitsCounted' /\ RequestIsBounded'
  <2>1. /\ elapsed' = elapsed /\ timeout' = timeout /\ waits' = waits /\ RequestIsBounded'
        /\ \A u \in Targets : u # t => /\ pc'[u] = pc[u] /\ timer'[u] = timer[u]
                                      /\ total'[u] = total[u] /\ got'[u] = got[u]
    BY DEF ValuesTypeOK, RequestIsBounded
  <2>2. CASE ~ChunkFits(t, size)
    <3>1. pc'[t] = "decide"
      BY <2>2 DEF ValuesTypeOK
    <3> QED
      BY <2>1, <3>1 DEF WaitsCounted
  <2>3. CASE ChunkFits(t, size)
    <3>1. /\ pc[t] = "body" /\ pc'[t] = "body" /\ timer'[t] = timeout[t] /\ got'[t] = 0
          /\ timeout[t] \in Nat /\ total[t] \in Nat /\ got[t] \in Nat /\ elapsed[t] \in Nat
      BY <2>3 DEF ValuesTypeOK
    <3>2. size \in Nat /\ got[t] + 1 <= size /\ total'[t] = total[t] + size
      BY <2>3, <3>1, Constants DEF ValuesTypeOK, ChunkFits, Kept, Least
    <3>3. elapsed[t] <= timeout[t] * (HeaderWaits + total[t] + got[t] + 1)
      BY WaitEnds, <3>1
    <3>4. /\ HeaderWaits + total[t] + got[t] + 1 \in Nat /\ HeaderWaits + total[t] + size \in Nat
          /\ HeaderWaits + total[t] + got[t] + 1 <= HeaderWaits + total[t] + size
      <4>1. total[t] <= total[t] /\ HeaderWaits \in Nat
        BY <3>1, Constants
      <4> QED
        BY <3>1, <3>2, <4>1, CountMonotone
    <3>5. elapsed[t] <= timeout[t] * (HeaderWaits + total[t] + size)
      BY <3>1, <3>3, <3>4, LongerBound
    <3>6. elapsed[t] + timeout[t] <= timeout[t] * ((HeaderWaits + total[t] + size) + 1)
      BY <3>1, <3>4, <3>5, OneWaitMore
    <3>7. HeaderWaits + (total[t] + size) + 0 + 1 = (HeaderWaits + total[t] + size) + 1
      BY <3>1, <3>2, Constants
    <3> QED
      BY <2>1, <3>1, <3>2, <3>6, <3>7 DEF WaitsCounted
  <2> QED
    BY <2>2, <2>3
<1> QED
  BY <1>1, <1>2, <1>3, <1>4, <1>5, <1>6, <1>7

\* The body ends: what is kept stays within the limit.
LEMMA BodyEndsInv ==
    ASSUME ExchangeInv, NEW t \in Targets, BodyEnds(t)
    PROVE  ExchangeInv'
<1> USE DEF BodyEnds, ExchangeInv, ExchangeTypeOK
<1>1. ValuesTypeOK'
  <2>1. Kept(t, got[t]) \in Nat
    BY Constants DEF ValuesTypeOK, Kept, Least
  <2> QED
    BY <2>1 DEF ValuesTypeOK, States
<1>2. RangesOK'
  <2>1. Kept(t, got[t]) <= BodyLimit
    BY Constants DEF ValuesTypeOK, Kept, Least
  <2> QED
    BY <2>1, Constants DEF ValuesTypeOK, RangesOK
<1>3. TimersBounded'
  BY DEF ValuesTypeOK, TimersBounded
<1>4. (AttemptsLeft /\ UnsentYet /\ SkippedSentNothing)'
  BY DEF ValuesTypeOK, AttemptsLeft, UnsentYet, SkippedSentNothing
<1>5. (SessionsOwned /\ SessionsAreReleased /\ QuietKept /\ WaitsCounted /\ RequestIsBounded)'
  BY DEF ValuesTypeOK, SessionsOwned, SessionsAreReleased, QuietKept, TimersBounded,
      WaitsCounted, RequestIsBounded
<1> QED
  BY <1>1, <1>2, <1>3, <1>4, <1>5

\* A pause ends: the destination was left alone for long enough, or there is
\* no next attempt.
LEMMA PauseOverInv ==
    ASSUME ExchangeInv, NEW t \in Targets, PauseOver(t)
    PROVE  ExchangeInv'
<1> USE DEF PauseOver, ExchangeInv, ExchangeTypeOK
<1>1. ValuesTypeOK'
  BY DEF ValuesTypeOK, States
<1>2. RangesOK'
  BY Constants DEF ValuesTypeOK, RangesOK
<1>3. TimersBounded'
  BY DEF ValuesTypeOK, TimersBounded
<1>4. AttemptsLeft'
  BY DEF ValuesTypeOK, AttemptsLeft
<1>5. UnsentYet' /\ SkippedSentNothing'
  <2>1. latest[t] = "retryable" /\ sent' = sent
    BY DEF AttemptsLeft
  <2>2. latest' = latest
    BY <2>1 DEF ValuesTypeOK
  <2>3. \A u \in Targets : u # t => pc'[u] = pc[u]
    BY DEF ValuesTypeOK
  <2>4. pc'[t] \in {"returned", "check"}
    BY DEF ValuesTypeOK
  <2> QED
    BY <2>1, <2>2, <2>3, <2>4 DEF UnsentYet, SkippedSentNothing
<1>6. SessionsOwned' /\ SessionsAreReleased'
  BY DEF ValuesTypeOK, SessionsOwned, SessionsAreReleased
<1>7. QuietKept'
  <2>1. CASE CutOff
    BY <2>1 DEF ValuesTypeOK, QuietKept
  <2>2. CASE ~CutOff
    <3>1. quiet[t] = 0
      BY <2>2 DEF ValuesTypeOK, CutOff, DeadlinePassed, QuietKept
    <3> QED
      BY <2>2, <3>1 DEF ValuesTypeOK, QuietKept
  <2> QED
    BY <2>1, <2>2
<1>8. WaitsCounted' /\ RequestIsBounded'
  BY DEF ValuesTypeOK, WaitsCounted, RequestIsBounded
<1> QED
  BY <1>1, <1>2, <1>3, <1>4, <1>5, <1>6, <1>7, <1>8

\* A result is taken over.
LEMMA CollectInv ==
    ASSUME ExchangeInv, NEW t \in Targets, Collect(t)
    PROVE  ExchangeInv'
<1> USE DEF Collect, ExchangeInv, ExchangeTypeOK
<1>1. (ValuesTypeOK /\ RangesOK /\ TimersBounded)'
  BY Constants DEF ValuesTypeOK, States, RangesOK, TimersBounded
<1>2. (AttemptsLeft /\ UnsentYet /\ SkippedSentNothing)'
  BY DEF ValuesTypeOK, AttemptsLeft, UnsentYet, SkippedSentNothing
<1>3. (SessionsOwned /\ SessionsAreReleased /\ QuietKept /\ WaitsCounted /\ RequestIsBounded)'
  BY DEF ValuesTypeOK, SessionsOwned, SessionsAreReleased, QuietKept, TimersBounded,
      WaitsCounted, RequestIsBounded
<1> QED
  BY <1>1, <1>2, <1>3

\* The dispatch begins.
LEMMA BeginInv ==
    ASSUME ExchangeInv, Begin
    PROVE  ExchangeInv'
<1> USE DEF Begin, ExchangeInv, ExchangeTypeOK
<1>1. (ValuesTypeOK /\ RangesOK /\ TimersBounded)'
  BY Constants DEF ValuesTypeOK, States, RangesOK, TimersBounded
<1>2. (AttemptsLeft /\ UnsentYet /\ SkippedSentNothing)'
  BY Constants DEF ValuesTypeOK, AttemptsLeft, UnsentYet, SkippedSentNothing
<1>3. (SessionsOwned /\ SessionsAreReleased /\ QuietKept /\ WaitsCounted /\ RequestIsBounded)'
  BY DEF ValuesTypeOK, SessionsOwned, SessionsAreReleased, QuietKept, TimersBounded,
      WaitsCounted, RequestIsBounded
<1> QED
  BY <1>1, <1>2, <1>3

\* The stop event is set.
LEMMA StopInv ==
    ASSUME ExchangeInv, Stop
    PROVE  ExchangeInv'
<1> USE DEF Stop, ExchangeInv, ExchangeTypeOK
<1>1. (ValuesTypeOK /\ RangesOK /\ TimersBounded)'
  BY Constants DEF ValuesTypeOK, States, RangesOK, TimersBounded
<1>2. (AttemptsLeft /\ UnsentYet /\ SkippedSentNothing)'
  BY DEF ValuesTypeOK, AttemptsLeft, UnsentYet, SkippedSentNothing
<1>3. (SessionsOwned /\ SessionsAreReleased /\ QuietKept /\ WaitsCounted /\ RequestIsBounded)'
  BY DEF ValuesTypeOK, SessionsOwned, SessionsAreReleased, QuietKept, TimersBounded,
      WaitsCounted, RequestIsBounded
<1> QED
  BY <1>1, <1>2, <1>3

\* The transport is closed: in order only when every thread has ended.
LEMMA CloseTransportInv ==
    ASSUME ExchangeInv, CloseTransport
    PROVE  ExchangeInv'
<1> USE DEF CloseTransport, ExchangeInv, ExchangeTypeOK
<1>1. (ValuesTypeOK /\ RangesOK /\ TimersBounded)'
  BY Constants DEF ValuesTypeOK, States, RangesOK, TimersBounded
<1>2. (AttemptsLeft /\ UnsentYet /\ SkippedSentNothing)'
  BY DEF ValuesTypeOK, AttemptsLeft, UnsentYet, SkippedSentNothing
<1>3. (SessionsOwned /\ SessionsAreReleased /\ QuietKept /\ WaitsCounted /\ RequestIsBounded)'
  BY DEF ValuesTypeOK, SessionsOwned, SessionsAreReleased, QuietKept, TimersBounded,
      WaitsCounted, RequestIsBounded
<1> QED
  BY <1>1, <1>2, <1>3

\* Time passes: what a wait loses, the request gains.
LEMMA TickInv ==
    ASSUME ExchangeInv, Tick
    PROVE  ExchangeInv'
<1> USE DEF Tick, ExchangeInv, ExchangeTypeOK
<1>a. \A u \in Targets : /\ timer'[u] \in Nat /\ timer'[u] <= timer[u]
                         /\ timer[u] > 0 => timer'[u] = timer[u] - 1
                         /\ quiet'[u] \in Nat /\ quiet'[u] <= quiet[u]
                         /\ quiet[u] > 0 => quiet'[u] = quiet[u] - 1
  BY CountDown DEF ValuesTypeOK
<1>b. /\ left' \in Nat /\ left' <= left
      /\ limited /\ left > 0 => left' = left - 1
  <2>1. left \in Nat /\ limited \in BOOLEAN
    BY DEF ValuesTypeOK
  <2>2. left' = IF limited THEN Greatest(0, left - 1) ELSE left
    OBVIOUS
  <2> QED
    BY <2>1, <2>2, CountDown
<1>c. /\ pc' = pc /\ limited' = limited /\ timeout' = timeout /\ waits' = waits
      /\ total' = total /\ got' = got /\ attempt' = attempt
  OBVIOUS
<1>1. ValuesTypeOK'
  <2>1. timer' \in [Targets -> Nat] /\ quiet' \in [Targets -> Nat]
    BY CountDown DEF ValuesTypeOK
  <2>2. elapsed' \in [Targets -> Nat]
    BY DEF ValuesTypeOK
  <2> QED
    BY <1>b, <2>1, <2>2 DEF ValuesTypeOK
<1>2. RangesOK'
  <2>1. left \in Nat /\ \A u \in Targets : quiet[u] \in Nat
    BY DEF ValuesTypeOK
  <2>2. left' <= Delivery
    BY <1>b, <2>1, Constants DEF RangesOK
  <2>3. \A u \in Targets : quiet'[u] <= MaxRetryAfter
    BY <1>a, <2>1, Constants DEF RangesOK
  <2> QED
    BY <1>c, <2>2, <2>3 DEF RangesOK
<1>3. TimersBounded'
  <2>1. \A u \in Targets : timer[u] \in Nat /\ timeout[u] \in Nat
    BY DEF ValuesTypeOK
  <2> QED
    BY <1>a, <1>c, <2>1, Constants DEF TimersBounded
<1>4. (AttemptsLeft /\ UnsentYet /\ SkippedSentNothing)'
  BY DEF ValuesTypeOK, AttemptsLeft, UnsentYet, SkippedSentNothing
<1>5. SessionsOwned' /\ SessionsAreReleased'
  BY DEF ValuesTypeOK, SessionsOwned, SessionsAreReleased
<1>6. QuietKept'
  <2>1. \A u \in Targets : quiet[u] \in Nat /\ timer[u] \in Nat /\ left \in Nat
    BY DEF ValuesTypeOK
  <2>2. \A u \in Targets : pc[u] = "pausing" => timer[u] > 0
    OBVIOUS
  <2> QED
    BY <1>a, <1>b, <1>c, <2>1, <2>2 DEF QuietKept
<1>7. WaitsCounted' /\ RequestIsBounded'
  <2>1. \A u \in Targets : pc[u] \notin Waiting => elapsed'[u] = elapsed[u]
    BY DEF ValuesTypeOK
  <2>2. \A u \in Targets : pc[u] \in Waiting =>
           /\ elapsed'[u] + timer'[u] = elapsed[u] + timer[u]
           /\ elapsed'[u] \in Nat /\ elapsed'[u] <= elapsed[u] + timer[u]
    <3>1. \A u \in Targets : elapsed[u] \in Nat /\ timer[u] \in Nat
      BY DEF ValuesTypeOK
    <3>2. \A u \in Targets : pc[u] \in Waiting => elapsed'[u] = elapsed[u] + 1 /\ timer[u] > 0
      OBVIOUS
    <3> QED
      BY <1>a, <3>1, <3>2
  <2>3. WaitsCounted'
    BY <1>c, <2>1, <2>2 DEF WaitsCounted
  <2>4. ASSUME NEW u \in Targets, pc[u] \in Waiting
        PROVE  elapsed'[u] <= timeout[u] * (HeaderWaits + BodyLimit + ChunkSize)
    <3>1. elapsed[u] + timer[u] <= timeout[u] * (HeaderWaits + BodyLimit + ChunkSize)
      BY <2>4, WaitBounded
    <3>2. /\ elapsed[u] \in Nat /\ timer[u] \in Nat /\ timeout[u] \in Nat
      BY DEF ValuesTypeOK
    <3>3. timeout[u] * (HeaderWaits + BodyLimit + ChunkSize) \in Nat
      BY <3>2, BoundType
    <3>4. elapsed'[u] \in Nat /\ elapsed'[u] <= elapsed[u] + timer[u]
      BY <2>2, <2>4
    <3> QED
      BY <3>1, <3>2, <3>3, <3>4
  <2> QED
    BY <1>c, <2>1, <2>3, <2>4 DEF RequestIsBounded
<1> QED
  BY <1>1, <1>2, <1>3, <1>4, <1>5, <1>6, <1>7

\* The step after an attempt: the result is returned, or a pause begins that is as
\* long as the destination asked for.
LEMMA AfterAttemptInv ==
    ASSUME ExchangeInv, NEW t \in Targets, pc[t] \in {"ready", "decide"} \cup Waiting,
           NEW res \in {"success", "permanent", "retryable"}, NEW header \in Float,
           AfterAttempt(t, res, header)
    PROVE  ExchangeInv'
<1> USE DEF ExchangeInv, ExchangeTypeOK
<1>1. AskedFor(header) \in Nat /\ AskedFor(header) <= MaxRetryAfter
  BY AskedForType, Constants
<1>2. /\ quiet' \in [Targets -> Nat] /\ quiet'[t] = AskedFor(header)
      /\ \A u \in Targets : u # t => quiet'[u] = quiet[u]
  BY <1>1 DEF AfterAttempt, ValuesTypeOK
<1>3. CASE res # "retryable" \/ attempt[t] = Len(Delays) \/ DeadlinePassed
  <2>a. /\ pc' = [pc EXCEPT ![t] = "returned"]
        /\ latest' = [latest EXCEPT ![t] = res]
        /\ timer' = [timer EXCEPT ![t] = 0]
        /\ elapsed' = [elapsed EXCEPT ![t] = 0]
        /\ UNCHANGED <<stop, limited, left, closed, forced, attempt, timeout, waits, status,
                       total, got, session, tried, sent>>
    BY <1>3 DEF AfterAttempt
  <2>1. ValuesTypeOK'
    BY <1>2, <2>a DEF ValuesTypeOK, States
  <2>2. RangesOK'
    BY <1>1, <1>2, <2>a DEF ValuesTypeOK, RangesOK
  <2>3. TimersBounded'
    BY <2>a DEF ValuesTypeOK, TimersBounded
  <2>4. AttemptsLeft'
    BY <2>a DEF ValuesTypeOK, AttemptsLeft
  <2>5. UnsentYet' /\ SkippedSentNothing'
    BY <2>a DEF ValuesTypeOK, UnsentYet, SkippedSentNothing
  <2>6. SessionsOwned' /\ SessionsAreReleased'
    BY <2>a DEF ValuesTypeOK, SessionsOwned, SessionsAreReleased
  <2>7. QuietKept'
    BY <1>2, <2>a DEF ValuesTypeOK, QuietKept
  <2>8. WaitsCounted' /\ RequestIsBounded'
    <3>1. elapsed'[t] = 0 /\ timeout[t] \in Nat
      BY <2>a DEF ValuesTypeOK
    <3>2. 0 <= timeout[t] * (HeaderWaits + BodyLimit + ChunkSize)
      BY <3>1, BoundType
    <3> QED
      BY <2>a, <3>1, <3>2 DEF ValuesTypeOK, WaitsCounted, RequestIsBounded
  <2> QED
    BY <2>1, <2>2, <2>3, <2>4, <2>5, <2>6, <2>7, <2>8
<1>4. CASE ~(res # "retryable" \/ attempt[t] = Len(Delays) \/ DeadlinePassed)
  <2> DEFINE pause == IF limited THEN Least(Pause(t, header), left) ELSE Pause(t, header)
  <2>a. /\ pc' = [pc EXCEPT ![t] = "pausing"]
        /\ latest' = [latest EXCEPT ![t] = "retryable"]
        /\ timer' = [timer EXCEPT ![t] = pause]
        /\ elapsed' = [elapsed EXCEPT ![t] = 0]
        /\ UNCHANGED <<stop, limited, left, closed, forced, attempt, timeout, waits, status,
                       total, got, session, tried, sent>>
    BY <1>4 DEF AfterAttempt
  <2>b. attempt[t] < Len(Delays) /\ attempt[t] \in Nat
    BY <1>4, Constants DEF ValuesTypeOK, RangesOK
  <2>c. Pause(t, header) \in 0 .. MaxRetryAfter /\ AskedFor(header) <= Pause(t, header)
    <3>1. attempt[t] + 1 \in 1 .. Len(Delays)
      BY <2>b, Constants
    <3> QED
      BY <3>1, PauseType
  <2>d. /\ pause \in Nat /\ pause <= MaxRetryAfter
        /\ AskedFor(header) <= pause \/ (limited /\ left <= pause)
    BY <1>1, <2>c, Constants DEF ValuesTypeOK, Least
  <2> HIDE DEF pause
  <2>1. ValuesTypeOK'
    BY <1>2, <2>a, <2>d DEF ValuesTypeOK, States
  <2>2. RangesOK'
    BY <1>1, <1>2, <2>a DEF ValuesTypeOK, RangesOK
  <2>3. TimersBounded'
    BY <2>a, <2>d DEF ValuesTypeOK, TimersBounded
  <2>4. AttemptsLeft'
    BY <2>a, <2>b DEF ValuesTypeOK, AttemptsLeft
  <2>5. UnsentYet' /\ SkippedSentNothing'
    BY <2>a DEF ValuesTypeOK, UnsentYet, SkippedSentNothing
  <2>6. SessionsOwned' /\ SessionsAreReleased'
    BY <2>a DEF ValuesTypeOK, SessionsOwned, SessionsAreReleased
  <2>7. QuietKept'
    BY <1>2, <2>a, <2>d DEF ValuesTypeOK, QuietKept
  <2>8. WaitsCounted' /\ RequestIsBounded'
    <3>1. elapsed'[t] = 0 /\ timeout[t] \in Nat
      BY <2>a DEF ValuesTypeOK
    <3>2. 0 <= timeout[t] * (HeaderWaits + BodyLimit + ChunkSize)
      BY <3>1, BoundType
    <3> QED
      BY <2>a, <3>1, <3>2 DEF ValuesTypeOK, WaitsCounted, RequestIsBounded
  <2> QED
    BY <2>1, <2>2, <2>3, <2>4, <2>5, <2>6, <2>7, <2>8
<1> QED
  BY <1>3, <1>4

\* The answers, the exceptions and the time-out of an attempt.
LEMMA AttemptEndsInv ==
    ASSUME ExchangeInv, NEW t \in Targets,
           \/ \E header \in RetryAfters : Decide(t, header)
           \/ DecodeFails(t) \/ TimesOut(t) \/ NetworkFails(t) \/ RequestRaises(t)
    PROVE  ExchangeInv'
<1>1. NoHeader \in Float
  BY HeaderType
<1>2. ASSUME NEW header \in RetryAfters, Decide(t, header)
      PROVE  ExchangeInv'
  <2>1. Outcome(t, status[t]) \in {"success", "permanent", "retryable"}
    BY OutcomeType
  <2>2. header \in Float
    BY HeaderType
  <2> QED
    BY <1>1, <1>2, <2>1, <2>2, AfterAttemptInv DEF Decide
<1>3. CASE DecodeFails(t)
  BY <1>1, <1>3, AfterAttemptInv DEF DecodeFails
<1>4. CASE TimesOut(t)
  BY <1>1, <1>4, AfterAttemptInv DEF TimesOut
<1>5. CASE NetworkFails(t)
  BY <1>1, <1>5, AfterAttemptInv DEF NetworkFails
<1>6. CASE RequestRaises(t)
  BY <1>1, <1>6, AfterAttemptInv DEF RequestRaises
<1> QED
  BY <1>2, <1>3, <1>4, <1>5, <1>6

\* A step of nobody.
LEMMA StutterInv ==
    ASSUME ExchangeInv, UNCHANGED exchangeVars
    PROVE  ExchangeInv'
<1> USE DEF exchangeVars, ExchangeInv, ExchangeTypeOK
<1>1. (ValuesTypeOK /\ RangesOK /\ TimersBounded)'
  BY DEF ValuesTypeOK, RangesOK, TimersBounded
<1>2. (AttemptsLeft /\ UnsentYet /\ SkippedSentNothing)'
  BY DEF AttemptsLeft, UnsentYet, SkippedSentNothing
<1>3. (SessionsOwned /\ SessionsAreReleased /\ QuietKept)'
  BY DEF SessionsOwned, SessionsAreReleased, QuietKept
<1>4. (WaitsCounted /\ RequestIsBounded)'
  BY DEF WaitsCounted, RequestIsBounded
<1> QED
  BY <1>1, <1>2, <1>3, <1>4

\* The initial states satisfy the invariant.
LEMMA InitInv == ExchangeInit => ExchangeInv
<1> SUFFICES ASSUME ExchangeInit PROVE ExchangeInv
  OBVIOUS
<1> USE DEF ExchangeInit
<1>1. ValuesTypeOK /\ TimersBounded
  BY Constants DEF ValuesTypeOK, TimersBounded, States
<1>2. RangesOK
  BY Constants DEF RangesOK
<1>3. AttemptsLeft /\ UnsentYet /\ SkippedSentNothing
  BY DEF AttemptsLeft, UnsentYet, SkippedSentNothing
<1>4. SessionsOwned /\ SessionsAreReleased /\ QuietKept
  BY DEF SessionsOwned, SessionsAreReleased, QuietKept
<1>5. WaitsCounted
  BY DEF WaitsCounted
<1>6. RequestIsBounded
  <2>1. 0 <= 0 * (HeaderWaits + BodyLimit + ChunkSize)
    BY BoundType
  <2> QED
    BY <2>1 DEF RequestIsBounded
<1> QED
  BY <1>1, <1>2, <1>3, <1>4, <1>5, <1>6 DEF ExchangeInv, ExchangeTypeOK

\* Every step keeps the invariant.
LEMMA NextInv == ExchangeInv /\ [ExchangeNext]_exchangeVars => ExchangeInv'
<1> SUFFICES ASSUME ExchangeInv, [ExchangeNext]_exchangeVars PROVE ExchangeInv'
  OBVIOUS
<1>1. ASSUME NEW t \in Targets, ThreadStep(t) PROVE ExchangeInv'
  BY <1>1, GiveUpInv, CallSendInv, PreflightStopsInv, PreflightPassesInv,
     DeadlineExceededInv, ResolveTimeoutInv, OpenSessionInv, RegisterSessionInv,
     SendRequestInv, PauseOverInv, CollectInv, AttemptEndsInv DEF ThreadStep
<1>2. ASSUME NEW t \in Targets, ServerStep(t) PROVE ExchangeInv'
  BY <1>2, HeadersTrickleInv, AnswerInv, BytesTrickleInv, ChunkArrivesInv, BodyEndsInv,
     AttemptEndsInv DEF ServerStep
<1>3. CASE Begin \/ Tick \/ Stop \/ CloseTransport
  BY <1>3, BeginInv, TickInv, StopInv, CloseTransportInv
<1>4. CASE UNCHANGED exchangeVars
  BY <1>4, StutterInv
<1> QED
  BY <1>1, <1>2, <1>3, <1>4 DEF ExchangeNext

\* The invariant holds in every state.
LEMMA InvAlways == ExchangeSpec => []ExchangeInv
  BY InitInv, NextInv, PTL DEF ExchangeSpec

-----------------------------------------------------------------------------
(* The theorems.                                                           *)

\* Type correctness; every pause is a number between 0 and the maximum whatever
\* the Retry-After header says (dispatcher.py, _dispatch_single_destination).
THEOREM ExchangeTypes == ExchangeSpec => []ExchangeTypeOK
<1>1. ExchangeInv => ExchangeTypeOK
  BY DEF ExchangeInv
<1> QED
  BY <1>1, InvAlways, PTL

\* No request takes longer than a number of time-outs that the limits of the
\* body and of a chunk give, however slowly the server answers (transport.py,
\* request and _read_limited_text).
THEOREM RequestsAreBounded == ExchangeSpec => []RequestIsBounded
<1>1. ExchangeInv => RequestIsBounded
  BY DEF ExchangeInv
<1> QED
  BY <1>1, InvAlways, PTL

\* "Not attempted" is reported only when the call of send has sent nothing
\* (dispatcher.py, _dispatch_single_destination; the adapters' send).
THEOREM SkippedMeansUnsent == ExchangeSpec => []SkippedSentNothing
<1>1. ExchangeInv => SkippedSentNothing
  BY DEF ExchangeInv
<1> QED
  BY <1>1, InvAlways, PTL

\* An orderly close finds every session that any thread has opened
\* (transport.py, _get_session and close).
THEOREM SessionsReleased == ExchangeSpec => []SessionsAreReleased
<1>1. ExchangeInv => SessionsAreReleased
  BY DEF ExchangeInv
<1> QED
  BY <1>1, InvAlways, PTL

\* No retry is sent before the time the destination asked for, up to the
\* configured maximum (dispatcher.py, _dispatch_single_destination).
THEOREM RetriesWait == ExchangeSpec => RetryAfterHonoured
<1>1. ASSUME ExchangeInv, [ExchangeNext]_exchangeVars
      PROVE  [\A t \in Targets : pc[t] = "ready" /\ pc'[t] = "headers" => quiet[t] = 0]_exchangeVars
  BY <1>1 DEF ExchangeInv, QuietKept
<1> QED
  BY <1>1, InvAlways, PTL DEF ExchangeSpec, RetryAfterHonoured

-----------------------------------------------------------------------------
(* A thread implements the contract of the fan-out.                        *)

Reporting == {t \in Targets : pc[t] \notin {"idle", "collected"}}
Asked == {t \in Targets : pc[t] \in Sending}
Phase == IF \A t \in Targets : pc[t] = "idle" THEN "idle" ELSE "running"

\* Nothing the contract knows changes but what thread t has come to.
Only(t) ==
    /\ UNCHANGED <<stop, limited, left, tried>>
    /\ \A u \in Targets : u # t => pc'[u] = pc[u] /\ latest'[u] = latest[u]

\* A step within a call of send, or between two.
Stays(t) ==
    /\ pc[t] \notin {"idle", "collected"} /\ pc'[t] \notin {"idle", "collected"}
    /\ pc'[t] \in Sending <=> pc[t] \in Sending
    /\ latest'[t] = latest[t] \/ (latest'[t] = "skipped" /\ CutOff)
    /\ pc'[t] = "returned" => latest'[t] # NoResult

\* The end of a call of send.
Ends(t) ==
    /\ pc[t] \in Sending /\ pc'[t] \in {"returned", "pausing"}
    /\ \/ latest'[t] \in {"success", "permanent", "retryable"}
       \/ latest'[t] = "skipped" /\ CutOff

\* The former is no step of the contract.
LEMMA StaysFan ==
    ASSUME AnswersFollow, NEW t \in Targets, Only(t), Stays(t)
    PROVE  AnswersFollow' /\ UNCHANGED Fan!fanOutVars
<1>1. CutOff' = CutOff /\ tried' = tried
  BY DEF Only, CutOff, DeadlinePassed
<1> USE DEF Only, Stays
<1>2. AnswersFollow'
  BY <1>1 DEF AnswersFollow
<1>3. Reporting' = Reporting /\ Asked' = Asked
  BY DEF Reporting, Asked
<1>4. Phase' = Phase
  BY DEF Phase
<1> QED
  BY <1>1, <1>2, <1>3, <1>4 DEF Fan!fanOutVars, Phase, Reporting, Asked

\* A call of send that passes its check is a request of the contract.
LEMMA PreflightPassesFan ==
    ASSUME ExchangeInv, AnswersFollow, NEW t \in Targets, PreflightPasses(t)
    PROVE  AnswersFollow' /\ Fan!SendRequest(t)
<1> USE DEF PreflightPasses
<1>1. pc \in [Targets -> States]
  BY DEF ExchangeInv, ExchangeTypeOK, ValuesTypeOK
<1>2. /\ ~CutOff /\ CutOff' = CutOff /\ latest' = latest /\ tried' = tried \cup {t}
      /\ pc[t] = "preflight" /\ pc'[t] = "resolve"
      /\ \A u \in Targets : u # t => pc'[u] = pc[u]
  BY <1>1 DEF CutOff, DeadlinePassed
<1>3. AnswersFollow'
  BY <1>2 DEF AnswersFollow
<1>4. Phase = "running" /\ Phase' = "running"
  BY <1>2 DEF Phase
<1>5. t \in Reporting \ Asked /\ Reporting' = Reporting /\ Asked' = Asked \cup {t}
  BY <1>2 DEF Reporting, Asked
<1> QED
  BY <1>2, <1>3, <1>4, <1>5 DEF Fan!SendRequest, Phase, Reporting, Asked

\* The latter is the end of the request.
LEMMA EndsFan ==
    ASSUME AnswersFollow, NEW t \in Targets, Only(t), Ends(t)
    PROVE  AnswersFollow' /\ Fan!EndRequest(t)
<1>1. CutOff' = CutOff /\ tried' = tried
  BY DEF Only, CutOff, DeadlinePassed
<1> USE DEF Only, Ends
<1>2. AnswersFollow'
  BY <1>1 DEF AnswersFollow
<1>3. Phase' = Phase
  BY DEF Phase
<1>4. t \in Asked /\ Reporting' = Reporting /\ Asked' = Asked \ {t}
  BY DEF Reporting, Asked
<1> QED
  BY <1>1, <1>2, <1>3, <1>4 DEF Fan!EndRequest, Phase, Reporting, Asked

\* What the dispatching thread takes over is a report.
LEMMA CollectFan ==
    ASSUME ExchangeInv, AnswersFollow, NEW t \in Targets, Collect(t)
    PROVE  AnswersFollow' /\ \E res \in Results : Fan!ReportResult(t, res)
<1> USE DEF Collect
<1>1. pc \in [Targets -> States] /\ latest \in [Targets -> Results \cup {NoResult}]
  BY DEF ExchangeInv, ExchangeTypeOK, ValuesTypeOK
<1>2. CutOff' = CutOff /\ latest' = latest /\ tried' = tried
  BY DEF CutOff, DeadlinePassed
<1>3. /\ pc[t] = "returned" /\ pc'[t] = "collected"
      /\ \A u \in Targets : u # t => pc'[u] = pc[u]
  BY <1>1
<1>4. AnswersFollow'
  BY <1>2, <1>3 DEF AnswersFollow
<1>5. Phase = "running" /\ Phase' = "running"
  BY <1>3 DEF Phase
<1>6. t \in Reporting \ Asked /\ Reporting' = Reporting \ {t} /\ Asked' = Asked
  BY <1>3 DEF Reporting, Asked
<1>7. PICK res \in Results : res = latest[t]
  BY <1>1, <1>3 DEF AnswersFollow
<1>8. res # "refused" /\ IF res = "skipped" THEN CutOff ELSE t \in tried
  BY <1>1, <1>3, <1>7 DEF AnswersFollow
<1>9. Fan!ReportResult(t, res)
  BY <1>2, <1>5, <1>6, <1>8 DEF Fan!ReportResult, Phase, Reporting, Asked
<1> QED
  BY <1>4, <1>9

\* The threads are started at once.
LEMMA BeginFan ==
    ASSUME ExchangeInv, AnswersFollow, Begin
    PROVE  AnswersFollow' /\ [Fan!StartDispatch(Targets)]_(Fan!fanOutVars)
<1> USE DEF Begin
<1>1. CutOff' = CutOff /\ latest' = latest /\ tried' = tried /\ CutOff \in BOOLEAN
  BY DEF CutOff, DeadlinePassed, ExchangeInv, ExchangeTypeOK, ValuesTypeOK
<1>2. \A u \in Targets : pc[u] = "idle" /\ pc'[u] = "check"
  OBVIOUS
<1>3. AnswersFollow'
  BY <1>1, <1>2 DEF AnswersFollow
<1>4. Asked = {} /\ Asked' = {} /\ tried = {} /\ Reporting' = Targets /\ Phase = "idle"
  BY <1>2 DEF Asked, Reporting, Phase, AnswersFollow
<1>5. CASE Targets = {}
  <2>1. Phase' = "idle" /\ Reporting = {}
    BY <1>5 DEF Phase, Reporting
  <2> QED
    BY <1>1, <1>3, <1>4, <1>5, <2>1 DEF Fan!fanOutVars, Phase, Reporting, Asked
<1>6. CASE Targets # {}
  <2>1. Phase' = "running"
    BY <1>2, <1>6 DEF Phase
  <2> QED
    BY <1>1, <1>3, <1>4, <2>1 DEF Fan!StartDispatch, Phase, Reporting, Asked
<1> QED
  BY <1>5, <1>6

\* The stop event or the deadline cuts the dispatch off, and nothing mends it.
LEMMA CutFan ==
    ASSUME ExchangeInv, AnswersFollow, Stop \/ Tick \/ CloseTransport
    PROVE  AnswersFollow' /\ [Fan!CutDispatch]_(Fan!fanOutVars)
<1>1. pc' = pc /\ latest' = latest /\ tried' = tried
  BY DEF Stop, Tick, CloseTransport
<1>2. stop \in BOOLEAN /\ limited \in BOOLEAN /\ left \in Nat
  BY DEF ExchangeInv, ExchangeTypeOK, ValuesTypeOK
<1>3. limited' = limited /\ (left = 0 => left' = 0) /\ stop' \in {stop, TRUE}
  <2>1. CASE Stop
    BY <2>1 DEF Stop
  <2>2. CASE Tick
    BY <1>2, <2>2 DEF Tick, Greatest
  <2>3. CASE CloseTransport
    BY <2>3 DEF CloseTransport
  <2> QED
    BY <2>1, <2>2, <2>3
<1>4. CutOff => CutOff'
  BY <1>2, <1>3 DEF CutOff, DeadlinePassed
<1>5. AnswersFollow'
  BY <1>1, <1>4 DEF AnswersFollow
<1>6. Phase' = Phase /\ Reporting' = Reporting /\ Asked' = Asked
  BY <1>1 DEF Phase, Reporting, Asked
<1>7. CutOff \in BOOLEAN /\ CutOff' \in BOOLEAN
  BY DEF CutOff
<1>8. CASE CutOff
  BY <1>1, <1>4, <1>5, <1>6, <1>7, <1>8 DEF Fan!fanOutVars, Phase, Reporting, Asked
<1>9. CASE ~CutOff /\ CutOff'
  BY <1>1, <1>5, <1>6, <1>7, <1>9 DEF Fan!CutDispatch, Phase, Reporting, Asked
<1>10. CASE ~CutOff /\ ~CutOff'
  BY <1>1, <1>5, <1>6, <1>7, <1>10 DEF Fan!fanOutVars, Phase, Reporting, Asked
<1> QED
  BY <1>8, <1>9, <1>10

\* The steps of a thread: a request, its end, a report, or no step of the contract.
LEMMA ThreadFan ==
    ASSUME ExchangeInv, AnswersFollow, NEW t \in Targets, ThreadStep(t) \/ ServerStep(t)
    PROVE  /\ AnswersFollow'
           /\ \/ Fan!SendRequest(t)
              \/ Fan!EndRequest(t)
              \/ \E res \in Results : Fan!ReportResult(t, res)
              \/ UNCHANGED Fan!fanOutVars
<1>1. latest \in [Targets -> Results \cup {NoResult}] /\ pc \in [Targets -> States]
  BY DEF ExchangeInv, ExchangeTypeOK, ValuesTypeOK
<1>2. CASE \/ \E header \in RetryAfters : Decide(t, header)
           \/ DecodeFails(t) \/ TimesOut(t) \/ NetworkFails(t) \/ RequestRaises(t)
  <2>1. pc[t] \in Sending
    BY <1>2 DEF Decide, DecodeFails, TimesOut, NetworkFails, RequestRaises
  <2>2. PICK res \in {"success", "permanent", "retryable"} :
           \E header : AfterAttempt(t, res, header)
    BY <1>2, OutcomeType DEF Decide, DecodeFails, TimesOut, NetworkFails, RequestRaises
  <2>3. Only(t) /\ Ends(t)
    BY <1>1, <2>1, <2>2 DEF AfterAttempt, Only, Ends
  <2> QED
    BY <2>3, EndsFan
<1>3. CASE DeadlineExceeded(t)
  <2>1. Only(t) /\ Ends(t)
    BY <1>1, <1>3 DEF DeadlineExceeded, CutOff, Only, Ends
  <2> QED
    BY <2>1, EndsFan
<1>4. CASE PreflightPasses(t)
  BY <1>4, PreflightPassesFan
<1>5. CASE Collect(t)
  BY <1>5, CollectFan
<1>6. CASE GiveUp(t) \/ PreflightStops(t) \/ PauseOver(t)
  <2>1. Only(t) /\ Stays(t)
    BY <1>1, <1>6 DEF GiveUp, PreflightStops, PauseOver, Only, Stays, ExchangeInv, AttemptsLeft
  <2> QED
    BY <2>1, StaysFan
<1>7. CASE CallSend(t) \/ ResolveTimeout(t) \/ OpenSession(t) \/ RegisterSession(t)
  <2>1. Only(t) /\ Stays(t)
    BY <1>1, <1>7 DEF CallSend, ResolveTimeout, OpenSession, RegisterSession, Only, Stays
  <2> QED
    BY <2>1, StaysFan
<1>8. CASE SendRequest(t) \/ HeadersTrickle(t) \/ BytesTrickle(t) \/ BodyEnds(t)
  <2>1. Only(t) /\ Stays(t)
    BY <1>1, <1>8 DEF SendRequest, HeadersTrickle, BytesTrickle, BodyEnds, Only, Stays
  <2> QED
    BY <2>1, StaysFan
<1>9. CASE \E code \in Statuses : Answer(t, code)
  <2>1. Only(t) /\ Stays(t)
    BY <1>1, <1>9 DEF Answer, Only, Stays
  <2> QED
    BY <2>1, StaysFan
<1>10. CASE \E size \in 1 .. ChunkSize : ChunkArrives(t, size)
  <2>1. Only(t) /\ Stays(t)
    BY <1>1, <1>10 DEF ChunkArrives, Only, Stays
  <2> QED
    BY <2>1, StaysFan
<1> QED
  BY <1>2, <1>3, <1>4, <1>5, <1>6, <1>7, <1>8, <1>9, <1>10 DEF ThreadStep, ServerStep

\* Every step keeps the contract and the invariant it rests on.
LEMMA NextFan ==
    ASSUME ExchangeInv, AnswersFollow, [ExchangeNext]_exchangeVars
    PROVE  AnswersFollow' /\ [Fan!FanOutNext]_(Fan!fanOutVars)
<1>1. ASSUME NEW t \in Targets, ThreadStep(t) \/ ServerStep(t)
      PROVE  AnswersFollow' /\ [Fan!FanOutNext]_(Fan!fanOutVars)
  <2>1. /\ AnswersFollow'
        /\ \/ Fan!SendRequest(t)
           \/ Fan!EndRequest(t)
           \/ \E res \in Results : Fan!ReportResult(t, res)
           \/ UNCHANGED Fan!fanOutVars
    BY <1>1, ThreadFan
  <2> QED
    BY <2>1 DEF Fan!FanOutNext, Fan!Results
<1>2. CASE Begin
  <2>1. Targets \in SUBSET Targets
    OBVIOUS
  <2> QED
    BY <1>2, <2>1, BeginFan DEF Fan!FanOutNext
<1>3. CASE Stop \/ Tick \/ CloseTransport
  BY <1>3, CutFan DEF Fan!FanOutNext
<1>4. CASE UNCHANGED exchangeVars
  <2>1. pc' = pc /\ latest' = latest /\ tried' = tried /\ CutOff' = CutOff
    BY <1>4 DEF exchangeVars, CutOff, DeadlinePassed
  <2> QED
    BY <2>1 DEF AnswersFollow, Fan!fanOutVars
<1> QED
  BY <1>1, <1>2, <1>3, <1>4 DEF ExchangeNext

\* The initial states are initial states of the contract.
LEMMA InitFan ==
    ASSUME ExchangeInit
    PROVE  AnswersFollow /\ Fan!FanOutInit
<1>1. \A t \in Targets : pc[t] = "idle" /\ latest[t] = NoResult
  BY DEF ExchangeInit
<1>2. tried = {}
  BY DEF ExchangeInit
<1>3. AnswersFollow
  BY <1>1, <1>2 DEF AnswersFollow
<1>4. Phase = "idle" /\ Reporting = {} /\ Asked = {} /\ CutOff \in BOOLEAN
  BY <1>1 DEF Phase, Reporting, Asked, CutOff
<1> QED
  BY <1>2, <1>3, <1>4 DEF Fan!FanOutInit, Phase, Reporting, Asked

\* One destination's thread, with its retries, its adapter and its requests, keeps
\* the contract Dispatcher promises (dispatcher.py, _dispatch_single_destination).
THEOREM ThreadsImplementFanOut == ExchangeSpec => ImplementsFanOut
<1>1. ExchangeInit => AnswersFollow /\ Fan!FanOutInit
  BY InitFan
<1>2. ExchangeInv /\ AnswersFollow /\ [ExchangeNext]_exchangeVars
         => AnswersFollow' /\ [Fan!FanOutNext]_(Fan!fanOutVars)
  BY NextFan
<1> QED
  BY <1>1, <1>2, InvAlways, PTL DEF ExchangeSpec, ImplementsFanOut, Fan!FanOutSpec

=============================================================================
