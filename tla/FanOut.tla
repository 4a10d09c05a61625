------------------------------- MODULE FanOut -------------------------------
(***************************************************************************)
(* What Dispatcher.dispatch promises its caller, one dispatch at a time,   *)
(* without a pool, futures, a retry loop or a grace period:                *)
(*                                                                         *)
(* A request to a destination is a call of its send from the moment it is  *)
(* past its preflight check; the call may still fail on the way to the     *)
(* network, and ends with its answer, its error or its time-out.           *)
(*                                                                         *)
(*   - every destination is reported to result_handler at most once, never *)
(*     while a request to it is under way, and no request to it is started *)
(*     after its report; an outcome other than "skipped" is reported only  *)
(*     of a destination that was asked;                                    *)
(*   - a destination is skipped or detached, and a dispatch returns with   *)
(*     somebody unreported, only once the dispatch was cut off (stop event *)
(*     or deadline), and no request is started from then on;               *)
(*   - a dispatch that returns leaves no request under way, and one that   *)
(*     was abandoned reports nobody it has not detached;                   *)
(*   - after the clean-up nothing is reported, and the clean-up waits for  *)
(*     the requests and the detached reports unless it is forced.          *)
(*                                                                         *)
(* AlertService is checked on top of this module, and Dispatcher is        *)
(* checked to implement it.                                                *)
(***************************************************************************)
EXTENDS DispatchResults

VARIABLES
    phase,     \* of the dispatch: idle, running, abandoned (raised with
               \* requests detached) or failed (result_handler raised)
    waiting,   \* destinations of this dispatch not reported yet
    asked,     \* destinations with a request under way
    tried,     \* destinations of this dispatch whose send got past its preflight
    late,      \* detached destinations: a report may come after the raise
    cut,       \* the stop event is set or the deadline has passed
    cleaned    \* the detached clean-up has been finalized

fanOutVars == <<phase, waiting, asked, tried, late, cut, cleaned>>

FanOutInit ==
    /\ phase = "idle"
    /\ waiting = {}
    /\ asked = {}
    /\ tried = {}
    /\ late = {}
    /\ cut \in BOOLEAN
    /\ cleaned = FALSE

FanOutTypeOK ==
    /\ phase \in {"idle", "running", "abandoned", "failed"}
    /\ waiting \in SUBSET Targets
    /\ asked \in SUBSET Targets
    /\ tried \in SUBSET Targets
    /\ late \in SUBSET Targets
    /\ cut \in BOOLEAN
    /\ cleaned \in BOOLEAN

\* A new dispatch has a new deadline; the stop event may be set already.
StartDispatch(ts) ==
    /\ phase = "idle"
    /\ ~cleaned
    /\ phase' = "running"
    /\ waiting' = ts
    /\ tried' = {}
    /\ cut' \in BOOLEAN
    /\ UNCHANGED <<asked, late, cleaned>>

CutDispatch ==
    /\ ~cut
    /\ cut' = TRUE
    /\ UNCHANGED <<phase, waiting, asked, tried, late, cleaned>>

\* send gets past its preflight check; whether it then puts anything on the
\* network is not said here.
SendRequest(d) ==
    /\ phase \in {"running", "failed"}
    /\ ~cut
    /\ d \in waiting \ asked
    /\ asked' = asked \cup {d}
    /\ tried' = tried \cup {d}
    /\ UNCHANGED <<phase, waiting, late, cut, cleaned>>

\* The request ends: an answer, an error or a time-out.
EndRequest(d) ==
    /\ d \in asked
    /\ asked' = asked \ {d}
    /\ UNCHANGED <<phase, waiting, tried, late, cut, cleaned>>

ReportResult(d, res) ==
    /\ \/ phase = "running"
       \/ phase = "abandoned" /\ d \in late
    /\ ~cleaned
    /\ d \in waiting \ asked
    /\ res # "refused"
    /\ IF res = "skipped" THEN cut ELSE d \in tried
    /\ waiting' = waiting \ {d}
    /\ UNCHANGED <<phase, asked, tried, late, cut, cleaned>>

\* The request outlives the grace period.
DetachRequest(d) ==
    /\ phase = "running"
    /\ cut
    /\ late' = late \cup {d}
    /\ UNCHANGED <<phase, waiting, asked, tried, cut, cleaned>>

\* A detached request is over and its report done, failed or discarded.
LeaveDetached(d) ==
    /\ d \in late \ asked
    /\ late' = late \ {d}
    /\ UNCHANGED <<phase, waiting, asked, tried, cut, cleaned>>

\* Somebody unreported is let go only when the dispatch was cut off.
ReturnDispatch ==
    /\ phase = "running"
    /\ asked = {}
    /\ late = {}
    /\ waiting = {} \/ cut
    /\ phase' = "idle"
    /\ waiting' = {}
    /\ UNCHANGED <<asked, tried, late, cut, cleaned>>

AbandonDispatch ==
    /\ phase = "running"
    /\ cut
    /\ asked \subseteq late
    /\ phase' = "abandoned"
    /\ UNCHANGED <<waiting, asked, tried, late, cut, cleaned>>

\* result_handler raised, before anybody was detached; the requests under way
\* are left alone.
FailDispatch ==
    /\ phase = "running"
    /\ late = {}
    /\ phase' = "failed"
    /\ UNCHANGED <<waiting, asked, tried, late, cut, cleaned>>

CleanUp(forced) ==
    /\ phase # "running"
    /\ ~cleaned
    /\ forced \/ (asked = {} /\ late = {})
    /\ cleaned' = TRUE
    /\ UNCHANGED <<phase, waiting, asked, tried, late, cut>>

FanOutNext ==
    \/ \E ts \in SUBSET Targets : StartDispatch(ts)
    \/ CutDispatch
    \/ \E d \in Targets :
          \/ SendRequest(d)
          \/ EndRequest(d)
          \/ \E res \in Results : ReportResult(d, res)
          \/ DetachRequest(d)
          \/ LeaveDetached(d)
    \/ ReturnDispatch
    \/ AbandonDispatch
    \/ FailDispatch
    \/ CleanUp(phase = "abandoned")

FanOutSpec == FanOutInit /\ [][FanOutNext]_fanOutVars

=============================================================================
