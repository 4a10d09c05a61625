--------------------------- MODULE MCHttpExchange ---------------------------
(* Small instances of HttpExchange for TLC.                                *)
EXTENDS HttpExchange, TLC

CONSTANT hook

OneTarget == {hook}

\* [delivery] retry_delays_seconds = [0, 1, 4]
ThreeAttempts == <<0, 1, 4>>

SomeStatuses == {200, 404, 429, 503}

\* What slack_webhook and line_bot take for success.
Codes == [t \in Targets |-> {200}]

\* Absent, in the past, longer than the maximum, and not a number.
Headers == {NoHeader, Number(-1), Number(2), Infinity, NotANumber}

=============================================================================
