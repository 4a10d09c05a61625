---------------------------- MODULE MCMainThread ----------------------------
(* Small instances of MainThread for TLC.                                  *)
EXTENDS MainThread, TLC

Names2 == {"slack", "line"}

UpTo(set, n) == UNION {[1 .. k -> set] : k \in 0 .. n}

Usual ==
    [num |-> [key \in Keys |->
                 IF key = "alive_led_gpio" THEN Number(5)
                 ELSE IF key = "send_led_gpio" THEN Number(27)
                 ELSE Number(1)],
     delays |-> <<Number(0), Number(1)>>,
     destinations |-> <<[name |-> "slack", enabled |-> TRUE]>>,
     buttons |-> <<[name |-> "staff", gpio |-> 17, all |-> TRUE, destinations |-> <<>>]>>]

Odd == {Number(-1), Number(0), Number(2), Infinity, NotANumber}

LedPins == {"alive_led_gpio", "send_led_gpio"}

\* One number that is not the usual one, or the two that are compared with each
\* other; the alive LED on no pin, on the send LED's or on the button's.
OddNumbers ==
    {[Usual EXCEPT !.num[key] = odd] : key \in Keys \ LedPins, odd \in Odd}
    \cup {[Usual EXCEPT !.num["persistent_retry_base_seconds"] = b,
                        !.num["persistent_retry_max_seconds"] = m] : b \in Odd, m \in Odd}
    \cup {[Usual EXCEPT !.num["alive_led_gpio"] = odd] :
              odd \in {NotANumber, Number(27), Number(17)}}

OddDelays == {[Usual EXCEPT !.delays = d] : d \in UpTo(Odd, 2)}

SomeDestinations == UpTo([name : Names2, enabled : BOOLEAN], 2)

ButtonNames == {"staff", "boss"}

\* Pin 5 is the alive LED's.
Pins == {5, 17}

SomeButtons ==
    UpTo([name : ButtonNames, gpio : Pins, all : {FALSE},
          destinations : {<<>>, <<"slack">>, <<"slack", "line">>, <<"line", "line">>}], 1)
    \cup UpTo([name : ButtonNames, gpio : Pins, all : {TRUE}, destinations : {<<>>}], 2)

OddLists ==
    {[Usual EXCEPT !.destinations = d, !.buttons = b] :
        d \in SomeDestinations, b \in SomeButtons}

OneFile == {Usual}

\* Two buttons, each on a pin of its own.
TwoButtons ==
    {[Usual EXCEPT !.buttons = <<@[1], [@[1] EXCEPT !.name = "boss", !.gpio = 22]>>]}

SomeFiles == OddNumbers \cup OddDelays \cup OddLists \cup TwoButtons

=============================================================================
