---------------------------- MODULE HttpExchange ----------------------------
(***************************************************************************)
(* One dispatch at the level of HTTP: for every destination a thread that  *)
(* goes through _dispatch_single_destination, the adapter's send and       *)
(* HttpTransport.request, with what the network and the server may do.     *)
(*                                                                         *)
(* Time is counted in ticks.  A blocking call (a read of the socket, the   *)
(* pause between two attempts) ends by itself when its timer is down, and  *)
(* no tick passes it by; between two blocking calls a thread may be held   *)
(* up for any time.  The time-out of a request limits every single wait,   *)
(* not the request.                                                        *)
(*                                                                         *)
(* Dispatcher takes a request as one step with an arbitrary answer; this   *)
(* module is what that step stands for, and is checked to implement the    *)
(* same contract, FanOut.                                                  *)
(***************************************************************************)
EXTENDS DispatchResults, Floats, Sequences

CONSTANTS
    Delays,          \* retry_delays_seconds; its length is the attempts
    MaxRetryAfter,   \* max_retry_after_seconds
    RequestTimeout,  \* request_timeout_seconds
    MinTimeout,      \* the least time-out of a request, 0.05 s
    Delivery,        \* ticks from the start to the deadline
    BodyLimit,       \* response_body_limit_bytes
    MinChunk,        \* 256 and
    MaxChunk,        \* 4096 bytes, the limits of a chunk
    HeaderWaits,     \* bound: waits until the library has all headers
    Statuses,        \* the HTTP statuses a server may answer
    SuccessCodes,    \* destination -> the statuses its adapter takes for success
    RetryAfters      \* values of the Retry-After header, NoHeader among them

NoHeader == [nan |-> FALSE, val |-> -1000]

ASSUME ExchangeAssumption ==
    /\ Delays \in Seq(Nat) /\ Len(Delays) > 0
    /\ MaxRetryAfter \in Nat
    /\ RequestTimeout \in Nat \ {0} /\ MinTimeout \in Nat \ {0}
    /\ Delivery \in Nat \ {0}
    /\ BodyLimit \in Nat \ {0}
    /\ MinChunk \in Nat \ {0} /\ MaxChunk \in Nat \ {0}
    /\ HeaderWaits \in Nat \ {0}
    /\ Statuses \subseteq Nat \ {0}
    /\ SuccessCodes \in [Targets -> SUBSET Statuses]
    /\ RetryAfters \subseteq Float

VARIABLES
    stop,      \* the stop event is set
    limited,   \* there is a deadline (a test message has none)
    left,      \* ticks to the deadline
    pc,        \* destination -> where its thread is
    attempt,   \* destination -> calls of send so far
    latest,    \* destination -> latest_result
    timeout,   \* destination -> time-out resolved for its request
    timer,     \* destination -> ticks until its blocking call ends by itself
    waits,     \* destination -> waits for headers so far
    status,    \* destination -> the status that was answered, 0 before
    total,     \* destination -> bytes of the body kept so far
    got,       \* destination -> bytes of the next chunk the library has
    session,   \* destination -> state of its thread's session
    closed,    \* the transport was closed
    forced,    \* ... while threads were still running
    tried,     \* history: destinations whose send got past its preflight check
    sent,      \* history: destination -> the current call of send sent something
    elapsed,   \* history: destination -> ticks its request has taken
    quiet      \* history: destination -> ticks it asked to be left alone for

envVars == <<stop, limited, left>>
callVars == <<attempt, latest>>
requestVars == <<timeout, waits, status, total, got>>
closeVars == <<closed, forced>>
exchangeVars == <<envVars, pc, callVars, requestVars, timer, session, closeVars,
                  tried, sent, elapsed, quiet>>

Waiting == {"headers", "body"}
Blocked == Waiting \cup {"pausing"}
\* A call of send that got past its preflight check.
Sending == {"resolve", "opening", "registering", "ready", "decide"} \cup Waiting
States == {"idle", "check", "preflight", "pausing", "returned", "collected"} \cup Sending

Least(a, b) == IF a < b THEN a ELSE b
Greatest(a, b) == IF a < b THEN b ELSE a

\* chunk_size of _read_limited_text
ChunkSize == Least(MaxChunk, Greatest(MinChunk, BodyLimit))

DeadlinePassed == limited /\ left = 0
CutOff == stop \/ DeadlinePassed

-----------------------------------------------------------------------------
(* What an answer means.                                                   *)

\* failure_result_from_response
RetryableStatus(code) == code = 429 \/ code \in 500 .. 599

\* The status codes of the six adapters, and then the common classification.
Outcome(t, code) ==
    IF code \in SuccessCodes[t] THEN "success"
    ELSE IF RetryableStatus(code) THEN "retryable" ELSE "permanent"

\* Mutant: the header is cut at the maximum the wrong way round.
PauseUncapped(t, header) ==
    PyMax(Number(0), IF header = NoHeader THEN Number(Delays[attempt[t] + 1])
                     ELSE PyMax(Number(MaxRetryAfter), header)).val

\* Mutant: the configured delay also where the server names one.
PauseAsConfigured(t, header) == Least(Delays[attempt[t] + 1], MaxRetryAfter)

\* wait_seconds before the next attempt, the deadline apart.
Pause(t, header) ==
    PyMax(Number(0),
          PyMin(IF header = NoHeader THEN Number(Delays[attempt[t] + 1]) ELSE header,
                Number(MaxRetryAfter))).val

\* How long a server asks to be left alone, as far as that is limited.
AskedFor(header) ==
    IF header = NoHeader \/ header.nan \/ header.val < 0 THEN 0
    ELSE Least(header.val, MaxRetryAfter)

-----------------------------------------------------------------------------
(* One attempt.                                                            *)

EnvKeeps == UNCHANGED <<envVars, closeVars>>

Goto(t, place) == pc' = [pc EXCEPT ![t] = place]

\* The future gets its result.
Return(t, res) ==
    /\ Goto(t, "returned")
    /\ latest' = [latest EXCEPT ![t] = res]
    /\ timer' = [timer EXCEPT ![t] = 0]
    /\ elapsed' = [elapsed EXCEPT ![t] = 0]
    /\ UNCHANGED <<attempt, requestVars, session, tried, sent>>

\* Cut off at the head of the loop: the result of the last attempt, if any.
GiveUp(t) ==
    /\ pc[t] = "check"
    /\ CutOff
    /\ Return(t, IF latest[t] = NoResult THEN "skipped" ELSE latest[t])
    /\ UNCHANGED quiet
    /\ EnvKeeps

\* destination.send is called.
CallSend(t) ==
    /\ pc[t] = "check"
    /\ ~CutOff
    /\ Goto(t, "preflight")
    /\ attempt' = [attempt EXCEPT ![t] = @ + 1]
    /\ sent' = [sent EXCEPT ![t] = FALSE]
    /\ status' = [status EXCEPT ![t] = 0]
    /\ UNCHANGED <<latest, timeout, waits, total, got, timer, session, tried, elapsed, quiet>>
    /\ EnvKeeps

PreflightStops(t) ==
    /\ pc[t] = "preflight"
    /\ CutOff
    /\ Return(t, "skipped")
    /\ UNCHANGED quiet
    /\ EnvKeeps

\* Mutant: the adapter does not look.
PreflightPassesAnyway(t) ==
    /\ pc[t] = "preflight"
    /\ Goto(t, "resolve")
    /\ tried' = tried \cup {t}
    /\ UNCHANGED <<callVars, requestVars, timer, session, sent, elapsed, quiet>>
    /\ EnvKeeps

PreflightPasses(t) ==
    /\ pc[t] = "preflight"
    /\ ~CutOff
    /\ Goto(t, "resolve")
    /\ tried' = tried \cup {t}
    /\ UNCHANGED <<callVars, requestVars, timer, session, sent, elapsed, quiet>>
    /\ EnvKeeps

\* DeadlineExceededError
DeadlineExceeded(t) ==
    /\ pc[t] = "resolve"
    /\ DeadlinePassed
    /\ Return(t, "skipped")
    /\ UNCHANGED quiet
    /\ EnvKeeps

\* _resolve_timeout
ResolveTimeout(t) ==
    /\ pc[t] = "resolve"
    /\ ~DeadlinePassed
    /\ timeout' = [timeout EXCEPT ![t] =
           IF limited THEN Greatest(MinTimeout, Least(RequestTimeout, left))
           ELSE RequestTimeout]
    /\ Goto(t, IF session[t] = "none" THEN "opening" ELSE "ready")
    /\ UNCHANGED <<callVars, waits, status, total, got, timer, session, tried, sent, elapsed, quiet>>
    /\ EnvKeeps

-----------------------------------------------------------------------------
(* The session of a thread: made, then noted in _owned_sessions.           *)

OpenSession(t) ==
    /\ pc[t] = "opening"
    /\ session' = [session EXCEPT ![t] = "made"]
    /\ Goto(t, "registering")
    /\ UNCHANGED <<callVars, requestVars, timer, tried, sent, elapsed, quiet>>
    /\ EnvKeeps

\* Mutant: a session is known to its thread only.
RegisterNowhere(t) ==
    /\ pc[t] = "registering"
    /\ session' = [session EXCEPT ![t] = "made"]
    /\ Goto(t, "ready")
    /\ UNCHANGED <<callVars, requestVars, timer, tried, sent, elapsed, quiet>>
    /\ EnvKeeps

\* A session that is noted after close went through the list is never closed.
RegisterSession(t) ==
    /\ pc[t] = "registering"
    /\ session' = [session EXCEPT ![t] = IF closed THEN "stray" ELSE "kept"]
    /\ Goto(t, "ready")
    /\ UNCHANGED <<callVars, requestVars, timer, tried, sent, elapsed, quiet>>
    /\ EnvKeeps

\* close: by the dispatcher when all threads have ended, or by its monitor,
\* which gives up waiting for them after a stop.
CloseTransport ==
    /\ ~closed
    /\ \A t \in Targets : pc[t] # "idle"
    /\ stop \/ \A t \in Targets : pc[t] = "collected"
    /\ closed' = TRUE
    /\ forced' = \E t \in Targets : pc[t] # "collected"
    /\ session' = [t \in Targets |-> IF session[t] = "kept" THEN "closed" ELSE session[t]]
    /\ UNCHANGED <<envVars, pc, callVars, requestVars, timer, tried, sent, elapsed, quiet>>

-----------------------------------------------------------------------------
(* The request and its answer.                                             *)

\* A closed session opens connections again that nobody closes.
SendRequest(t) ==
    /\ pc[t] = "ready"
    /\ Goto(t, "headers")
    /\ timer' = [timer EXCEPT ![t] = timeout[t]]
    /\ waits' = [waits EXCEPT ![t] = 1]
    /\ sent' = [sent EXCEPT ![t] = TRUE]
    /\ session' = [session EXCEPT ![t] = IF @ = "closed" THEN "stray" ELSE @]
    /\ UNCHANGED <<callVars, timeout, status, total, got, tried, elapsed, quiet>>
    /\ EnvKeeps

\* A part of the headers arrives: the library waits again, as long as before.
HeadersTrickle(t) ==
    /\ pc[t] = "headers"
    /\ waits[t] < HeaderWaits                     \* bound HeaderWaits
    /\ waits' = [waits EXCEPT ![t] = @ + 1]
    /\ timer' = [timer EXCEPT ![t] = timeout[t]]
    /\ UNCHANGED <<pc, callVars, timeout, status, total, got, session, tried, sent, elapsed,
                   quiet>>
    /\ EnvKeeps

Answer(t, code) ==
    /\ pc[t] = "headers"
    /\ Goto(t, "body")
    /\ status' = [status EXCEPT ![t] = code]
    /\ total' = [total EXCEPT ![t] = 0]
    /\ got' = [got EXCEPT ![t] = 0]
    /\ timer' = [timer EXCEPT ![t] = timeout[t]]
    /\ UNCHANGED <<callVars, timeout, waits, session, tried, sent, elapsed, quiet>>
    /\ EnvKeeps

\* The library waits until it has a whole chunk, for every part as long as before.
BytesTrickle(t) ==
    /\ pc[t] = "body"
    /\ got[t] + 1 < ChunkSize
    /\ got' = [got EXCEPT ![t] = @ + 1]
    /\ timer' = [timer EXCEPT ![t] = timeout[t]]
    /\ UNCHANGED <<pc, callVars, timeout, waits, status, total, session, tried, sent, elapsed,
                   quiet>>
    /\ EnvKeeps

\* Mutant: what is beyond the limit is dropped and the reading goes on.
ChunkFitsAlways(t, size) == TRUE

\* len(chunk) <= limit - total
ChunkFits(t, size) == total[t] + size <= BodyLimit

Kept(t, size) == Least(BodyLimit, total[t] + size)

\* _read_limited_text: a chunk that fits is kept and the next one waited for,
\* also when the limit is reached; more than fits ends the reading.  A server
\* that sends chunks of its own makes them as short as it likes.
ChunkArrives(t, size) ==
    /\ pc[t] = "body"
    /\ size \in got[t] + 1 .. ChunkSize
    /\ total' = [total EXCEPT ![t] = Kept(t, size)]
    /\ got' = [got EXCEPT ![t] = 0]
    /\ IF ChunkFits(t, size)
       THEN UNCHANGED pc /\ timer' = [timer EXCEPT ![t] = timeout[t]]
       ELSE Goto(t, "decide") /\ timer' = [timer EXCEPT ![t] = 0]
    /\ UNCHANGED <<callVars, timeout, waits, status, session, tried, sent, elapsed, quiet>>
    /\ EnvKeeps

\* The end of the body; what the library has of a chunk is the last one.
BodyEnds(t) ==
    /\ pc[t] = "body"
    /\ Goto(t, "decide")
    /\ total' = [total EXCEPT ![t] = Kept(t, got[t])]
    /\ timer' = [timer EXCEPT ![t] = 0]
    /\ UNCHANGED <<callVars, timeout, waits, status, got, session, tried, sent, elapsed, quiet>>
    /\ EnvKeeps

-----------------------------------------------------------------------------
(* After an attempt.                                                       *)

\* A retryable failure is tried again after a pause, while there are attempts
\* and time left; the pause ends with the deadline.
AfterAttempt(t, res, header) ==
    /\ quiet' = [quiet EXCEPT ![t] = AskedFor(header)]
    /\ IF res # "retryable" \/ attempt[t] = Len(Delays) \/ DeadlinePassed
       THEN Return(t, res)
       ELSE /\ Goto(t, "pausing")
            /\ latest' = [latest EXCEPT ![t] = res]
            /\ timer' = [timer EXCEPT ![t] =
                   IF limited THEN Least(Pause(t, header), left) ELSE Pause(t, header)]
            /\ elapsed' = [elapsed EXCEPT ![t] = 0]
            /\ UNCHANGED <<attempt, requestVars, session, tried, sent>>
    /\ EnvKeeps

\* A response with a body that could be decoded.
Decide(t, header) ==
    /\ pc[t] = "decide"
    /\ LET res == Outcome(t, status[t])
       IN  AfterAttempt(t, res, IF res = "success" THEN NoHeader ELSE header)

\* The charset of the response is unknown to Python: LookupError, unless there
\* is nothing to decode.
DecodeFails(t) ==
    /\ pc[t] = "decide"
    /\ total[t] > 0
    /\ AfterAttempt(t, "permanent", NoHeader)

\* Mutant: a time-out counts as not attempted.
TimesOutSkipped(t) ==
    /\ pc[t] \in Waiting
    /\ timer[t] = 0
    /\ AfterAttempt(t, "skipped", NoHeader)

\* Mutant: a request without a deadline has no time-out either.
TimesOutWithDeadline(t) ==
    /\ pc[t] \in Waiting
    /\ timer[t] = 0
    /\ limited
    /\ AfterAttempt(t, "retryable", NoHeader)

\* requests.Timeout
TimesOut(t) ==
    /\ pc[t] \in Waiting
    /\ timer[t] = 0
    /\ AfterAttempt(t, "retryable", NoHeader)

\* Any other RequestException, before or within the answer.
NetworkFails(t) ==
    /\ pc[t] \in Waiting
    /\ AfterAttempt(t, "retryable", NoHeader)

\* Another exception before anything is sent: a header that cannot be encoded.
RequestRaises(t) ==
    /\ pc[t] = "ready"
    /\ AfterAttempt(t, "permanent", NoHeader)

\* The pause is over, or the stop event ends it.
PauseOver(t) ==
    /\ pc[t] = "pausing"
    /\ timer[t] = 0 \/ stop
    /\ IF CutOff
       THEN Return(t, latest[t])
       ELSE /\ Goto(t, "check")
            /\ timer' = [timer EXCEPT ![t] = 0]
            /\ UNCHANGED <<callVars, requestVars, session, tried, sent, elapsed>>
    /\ UNCHANGED quiet
    /\ EnvKeeps

\* The dispatching thread takes the result over.
Collect(t) ==
    /\ pc[t] = "returned"
    /\ Goto(t, "collected")
    /\ UNCHANGED <<callVars, requestVars, timer, session, tried, sent, elapsed, quiet>>
    /\ EnvKeeps

-----------------------------------------------------------------------------
(* Time, and the specification.                                            *)

Begin ==
    /\ \A t \in Targets : pc[t] = "idle"
    /\ pc' = [t \in Targets |-> "check"]
    /\ UNCHANGED <<envVars, callVars, requestVars, timer, session, closeVars,
                   tried, sent, elapsed, quiet>>

\* A thread whose timer is down goes on first.
Tick ==
    /\ \E t \in Targets : pc[t] \notin {"idle", "collected"}
    /\ \A t \in Targets : pc[t] \in Blocked => timer[t] > 0
    /\ left' = IF limited THEN Greatest(0, left - 1) ELSE left
    /\ timer' = [t \in Targets |-> Greatest(0, timer[t] - 1)]
    /\ elapsed' = [t \in Targets |-> IF pc[t] \in Waiting THEN elapsed[t] + 1 ELSE elapsed[t]]
    /\ quiet' = [t \in Targets |-> Greatest(0, quiet[t] - 1)]
    /\ UNCHANGED <<stop, limited, pc, callVars, requestVars, session, closeVars,
                   tried, sent>>

Stop ==
    /\ ~stop
    /\ stop' = TRUE
    /\ UNCHANGED <<limited, left, pc, callVars, requestVars, timer, session, closeVars,
                   tried, sent, elapsed, quiet>>

ExchangeInit ==
    /\ stop = FALSE
    /\ limited \in BOOLEAN
    /\ left = Delivery
    /\ pc = [t \in Targets |-> "idle"]
    /\ attempt = [t \in Targets |-> 0]
    /\ latest = [t \in Targets |-> NoResult]
    /\ timeout = [t \in Targets |-> 0]
    /\ timer = [t \in Targets |-> 0]
    /\ waits = [t \in Targets |-> 0]
    /\ status = [t \in Targets |-> 0]
    /\ total = [t \in Targets |-> 0]
    /\ got = [t \in Targets |-> 0]
    /\ session = [t \in Targets |-> "none"]
    /\ closed = FALSE
    /\ forced = FALSE
    /\ tried = {}
    /\ sent = [t \in Targets |-> FALSE]
    /\ elapsed = [t \in Targets |-> 0]
    /\ quiet = [t \in Targets |-> 0]

\* What the program does by itself.
ThreadStep(t) ==
    \/ GiveUp(t) \/ CallSend(t) \/ PreflightStops(t) \/ PreflightPasses(t)
    \/ DeadlineExceeded(t) \/ ResolveTimeout(t) \/ OpenSession(t) \/ RegisterSession(t)
    \/ SendRequest(t) \/ \E header \in RetryAfters : Decide(t, header)
    \/ TimesOut(t) \/ PauseOver(t) \/ Collect(t)

\* What the server and the network do, or not.
ServerStep(t) ==
    \/ HeadersTrickle(t)
    \/ \E code \in Statuses : Answer(t, code)
    \/ BytesTrickle(t)
    \/ \E size \in 1 .. ChunkSize : ChunkArrives(t, size)
    \/ BodyEnds(t) \/ DecodeFails(t) \/ NetworkFails(t) \/ RequestRaises(t)

ExchangeNext ==
    \/ Begin \/ Tick \/ Stop \/ CloseTransport
    \/ \E t \in Targets : ThreadStep(t) \/ ServerStep(t)

ExchangeSpec == ExchangeInit /\ [][ExchangeNext]_exchangeVars

\* The threads run and time passes; a server need not do anything.
ExchangeFairness ==
    /\ WF_exchangeVars(Tick)
    /\ \A t \in Targets : WF_exchangeVars(ThreadStep(t))

FairExchangeSpec == ExchangeSpec /\ ExchangeFairness

-----------------------------------------------------------------------------
(* Properties.                                                             *)

ValuesTypeOK ==
    /\ stop \in BOOLEAN
    /\ limited \in BOOLEAN
    /\ left \in Nat
    /\ pc \in [Targets -> States]
    /\ attempt \in [Targets -> Nat]
    /\ latest \in [Targets -> Results \cup {NoResult}]
    /\ timeout \in [Targets -> Nat]
    /\ timer \in [Targets -> Nat]
    /\ waits \in [Targets -> Nat]
    /\ status \in [Targets -> Statuses \cup {0}]
    /\ total \in [Targets -> Nat]
    /\ got \in [Targets -> Nat]
    /\ session \in [Targets -> {"none", "made", "kept", "closed", "stray"}]
    /\ closed \in BOOLEAN
    /\ forced \in BOOLEAN
    /\ tried \in SUBSET Targets
    /\ sent \in [Targets -> BOOLEAN]
    /\ elapsed \in [Targets -> Nat]
    /\ quiet \in [Targets -> Nat]

RangesOK ==
    /\ left <= Delivery
    /\ \A t \in Targets :
          /\ attempt[t] <= Len(Delays)
          /\ timeout[t] <= Greatest(MinTimeout, RequestTimeout)
          /\ waits[t] <= HeaderWaits
          /\ total[t] <= BodyLimit
          /\ got[t] < ChunkSize
          /\ quiet[t] <= MaxRetryAfter

\* Only a blocked thread has a timer, and no pause or wait is too long.
TimersBounded ==
    \A t \in Targets :
       /\ pc[t] \notin Blocked => timer[t] = 0
       /\ pc[t] = "pausing" => timer[t] <= MaxRetryAfter
       /\ pc[t] \in Waiting => timer[t] <= timeout[t]

\* Type correctness; in particular every pause is a number between 0 and the
\* maximum, whatever the Retry-After header says (a date that has passed, a
\* negative number, "nan", "inf").
ExchangeTypeOK == ValuesTypeOK /\ RangesOK /\ TimersBounded

\* A request is bounded, although its time-out only limits single waits and a
\* slow server can make it wait again for every byte: the limit of the body and
\* the size of a chunk bound how often.  The bound is that number of time-outs
\* and knows no deadline.
RequestIsBounded ==
    \A t \in Targets : elapsed[t] <= timeout[t] * (HeaderWaits + BodyLimit + ChunkSize)

\* "Not attempted" is the truth about the call of send that says so: a deadline
\* that passes between the preflight check and the request, a time-out or an
\* exception never hides a request that was sent.
SkippedSentNothing ==
    \A t \in Targets : latest[t] = "skipped" => ~sent[t]

\* close finds every session, whichever thread opened it and whenever, unless it
\* was forced while requests were still running.
SessionsAreReleased ==
    closed /\ ~forced => \A t \in Targets : session[t] \in {"none", "closed"}

\* root README, What It Does: "honors Retry-After when available": no request is
\* sent to a destination that asked to be left alone for longer, up to the
\* configured maximum, by a retry of the same dispatch.
RetryAfterHonoured ==
    [][\A t \in Targets : pc[t] = "ready" /\ pc'[t] = "headers" => quiet[t] = 0]_exchangeVars

\* A thread keeps the contract Dispatcher promises to its caller: asked at most
\* while it waits for a report, no attempt begins after the cutoff, a skipped
\* one was cut off, and every other outcome belongs to a destination that was
\* tried.
Fan == INSTANCE FanOut WITH
    phase <- IF \A t \in Targets : pc[t] = "idle" THEN "idle" ELSE "running",
    waiting <- {t \in Targets : pc[t] \notin {"idle", "collected"}},
    asked <- {t \in Targets : pc[t] \in Sending},
    late <- {},
    cut <- CutOff,
    cleaned <- FALSE

ImplementsFanOut == Fan!FanOutSpec

\* Every call of send ends and its destination's loop with it, although the
\* server may trickle or never answer: a dispatch in the caller's own thread,
\* which no cutoff loop watches, does not hold the worker for ever.
EverySendEnds == \A t \in Targets : pc[t] = "check" ~> pc[t] = "collected"

=============================================================================
