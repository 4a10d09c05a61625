--------------------------- MODULE Configuration ---------------------------
(***************************************************************************)
(* What parse_config and _validate_app_config accept, and what the rest of *)
(* the program takes from an accepted file.                                *)
(*                                                                         *)
(* A file is a record: num, the numbers of its tables by key; delays, the  *)
(* list retry_delays_seconds; destinations, a list of names that are       *)
(* enabled or not; buttons, a list of names with a pin and a list of       *)
(* destinations, or none of them (all |-> TRUE).  Strings, the settings of *)
(* one kind of destination and the shape of the tables are left out.       *)
(***************************************************************************)
EXTENDS Floats, Sequences, FiniteSets

\* The keys that go through _int, in the order in which they are read.
IntKeys == <<"response_body_limit_bytes", "alive_led_gpio", "send_led_gpio",
             "queue_capacity", "max_parallel_destinations">>

PositiveKeys == {"request_timeout_seconds", "led_brightness", "max_event_delivery_seconds"}

NonNegativeKeys == {"bounce_seconds", "cooldown_seconds", "success_hold_seconds",
                    "failure_blink_seconds", "shutdown_grace_seconds",
                    "max_retry_after_seconds", "running_cutoff_grace_seconds",
                    "persistent_retry_base_seconds", "persistent_retry_max_seconds"}

AtLeastOneKeys == {"response_body_limit_bytes", "queue_capacity", "max_parallel_destinations"}

Keys == {IntKeys[i] : i \in DOMAIN IntKeys} \cup PositiveKeys \cup NonNegativeKeys

\* What a file can say, whether it is accepted or not.
Destination == [name : STRING, enabled : BOOLEAN]
Button == [name : STRING, gpio : Int, all : BOOLEAN, destinations : Seq(STRING)]
File == [num : [Keys -> Float], delays : Seq(Float),
         destinations : Seq(Destination), buttons : Seq(Button)]

\* _validate_positive and _validate_non_negative raise on value <= 0 and on
\* value < 0: what is not a number passes.
Positive(x) == ~(Below(x, Number(0)) \/ x = Number(0))
NonNegative(x) == ~Below(x, Number(0))

\* _validate_unique
Unique(seq) == \A i, j \in DOMAIN seq : seq[i] = seq[j] => i = j

Project(seq, Get(_)) == [i \in DOMAIN seq |-> Get(seq[i])]

Names(file) == {file.destinations[i].name : i \in DOMAIN file.destinations}

EnabledNames(file) ==
    {file.destinations[i].name :
        i \in {k \in DOMAIN file.destinations : file.destinations[k].enabled}}

\* What parse_config itself asks of the lists.
Parsed(file) ==
    /\ file.destinations # <<>>
    /\ file.buttons # <<>>
    /\ \A i \in DOMAIN file.buttons :
          file.buttons[i].all \/ file.buttons[i].destinations # <<>>

NumbersValid(file) ==
    /\ \A key \in AtLeastOneKeys : file.num[key].val >= 1
    /\ \A key \in PositiveKeys : Positive(file.num[key])
    /\ ~Below(Number(1), file.num["led_brightness"])
    /\ \A key \in NonNegativeKeys : NonNegative(file.num[key])
    /\ ~Below(file.num["persistent_retry_max_seconds"],
              file.num["persistent_retry_base_seconds"])
    /\ file.delays # <<>>
    /\ \A i \in DOMAIN file.delays : NonNegative(file.delays[i])

\* Mutant: a destination that is disabled may be named.
ButtonValidUnknownOnly(file, button) ==
    ~button.all =>
        /\ Unique(button.destinations)
        /\ \A i \in DOMAIN button.destinations : button.destinations[i] \in Names(file)

\* The destinations a button names are distinct, known and enabled.
ButtonValid(file, button) ==
    ~button.all =>
        /\ Unique(button.destinations)
        /\ \A i \in DOMAIN button.destinations :
              /\ button.destinations[i] \in Names(file)
              /\ button.destinations[i] \in EnabledNames(file)

\* _validate_app_config
Valid(file) ==
    /\ NumbersValid(file)
    /\ Unique(Project(file.destinations, LAMBDA d : d.name))
    /\ Unique(Project(file.buttons, LAMBDA b : b.name))
    /\ Unique(Project(file.buttons, LAMBDA b : b.gpio))
    /\ EnabledNames(file) # {}
    /\ \A i \in DOMAIN file.buttons : ButtonValid(file, file.buttons[i])

\* load_config.  int() of "not a number" is a ValueError and refused, int() of
\* infinity is an OverflowError, which _int lets pass.
Verdict(file) ==
    LET odd == SelectSeq(IntKeys, LAMBDA key : file.num[key].nan \/ file.num[key] = Infinity)
    IN  IF odd # <<>> THEN IF file.num[odd[1]].nan THEN "refused" ELSE "crashed"
        ELSE IF Parsed(file) /\ Valid(file) THEN "accepted" ELSE "refused"

-----------------------------------------------------------------------------
(* What the program takes from an accepted file.                           *)

\* A list without the items that are not at the positions kept: the n-th of what
\* remains is the one with n positions kept up to its own.
Rank(kept, i) == Cardinality({k \in kept : k <= i})

ItemsAt(seq, kept) ==
    [n \in 1 .. Cardinality(kept) |-> seq[CHOOSE i \in kept : Rank(kept, i) = n]]

\* _destinations_by_name: the last of several counts.
DestinationNamed(file, name) ==
    file.destinations[CHOOSE i \in DOMAIN file.destinations :
        /\ file.destinations[i].name = name
        /\ \A k \in DOMAIN file.destinations :
              file.destinations[k].name = name => k <= i]

\* Dispatcher.resolve_target_names of a button's destinations: without those
\* that are unknown or disabled.
Resolve(file, button) ==
    LET enabled == {i \in DOMAIN file.destinations : file.destinations[i].enabled}
        asked == IF button.all
                 THEN Project(ItemsAt(file.destinations, enabled), LAMBDA d : d.name)
                 ELSE button.destinations
    IN  ItemsAt(asked, {i \in DOMAIN asked :
                           /\ asked[i] \in Names(file)
                           /\ DestinationNamed(file, asked[i]).enabled})

\* button_by_name
ButtonByName(file, name) ==
    file.buttons[CHOOSE i \in DOMAIN file.buttons :
        /\ file.buttons[i].name = name
        /\ \A k \in 1 .. i - 1 : file.buttons[k].name # name]

\* 2 ** min(max(attempt_count - 1, 0), 16)
Doublings == {2 ^ k : k \in 0 .. 16}

\* compute_retry_delay_seconds as requeue uses it, for a doubling so far.
BackOff(file, factor) ==
    LET base == file.num["persistent_retry_base_seconds"]
        most == file.num["persistent_retry_max_seconds"]
        delay == [base EXCEPT !.val = @ * factor]
    IN  IF ~Positive(most) \/ ~Positive(base) THEN Number(0)
        ELSE PyMax(Number(0), PyMin(delay, most))

\* wait_seconds of _dispatch_single_destination before an attempt.
WaitBefore(file, i) ==
    PyMax(Number(0), PyMin(file.delays[i], file.num["max_retry_after_seconds"]))

-----------------------------------------------------------------------------
(* Properties.                                                             *)

\* What an accepted file says of routing: a press reaches, each once, exactly the
\* destinations its button names, or all that are enabled if it names none, and
\* these are at least one; --test finds every button.
RoutingIsSound(f) ==
    \A b \in DOMAIN f.buttons :
        LET names == Resolve(f, f.buttons[b])
        IN  /\ names # <<>> /\ Unique(names)
            /\ IF f.buttons[b].all THEN {names[i] : i \in DOMAIN names} = EnabledNames(f)
               ELSE names = f.buttons[b].destinations
            /\ ButtonByName(f, f.buttons[b].name) = f.buttons[b]

\* What it says of numbers: there is room for an alert, a thread, a byte and an
\* attempt, and every delay computed from the file is a number that is not
\* negative, also when the file says "nan", which the validation lets pass.
NumbersAreSound(f) ==
    /\ f.num["queue_capacity"].val > 0
    /\ f.num["max_parallel_destinations"].val > 0
    /\ f.num["response_body_limit_bytes"].val > 0
    /\ f.delays # <<>>
    /\ \A k \in DOMAIN f.delays : ~WaitBefore(f, k).nan /\ WaitBefore(f, k).val >= 0
    /\ \A factor \in Doublings : ~BackOff(f, factor).nan /\ BackOff(f, factor).val >= 0

=============================================================================
