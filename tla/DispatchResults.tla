--------------------------- MODULE DispatchResults ---------------------------
(***************************************************************************)
(* The outcome of one destination of one dispatch, as models.py defines    *)
(* it.  The free text and the HTTP status are left out; what the program   *)
(* branches on is kept:                                                    *)
(*                                                                         *)
(*   success    outcome "success"                                          *)
(*   permanent  outcome "failed", retryable = False                        *)
(*   retryable  outcome "failed", retryable = True                         *)
(*   skipped    outcome "not_attempted" because of the stop event or of    *)
(*              the deadline (the two texts the service recognises)        *)
(*   refused    outcome "not_attempted" because the destination is unknown *)
(*              or disabled                                                *)
(***************************************************************************)
CONSTANT Targets    \* the destination names alerts are addressed to

Results == {"success", "permanent", "retryable", "skipped", "refused"}

\* No result: the target has not been answered in this dispatch.
NoResult == "none"

\* Mutant: only an answer that asks for it is kept.
KeepRetryableOnly(res) == res = "retryable"

\* AlertService._should_requeue_result: does the target stay in the row?
KeepForRetry(res) == res \in {"retryable", "skipped"}

=============================================================================
