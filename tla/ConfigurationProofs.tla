------------------------ MODULE ConfigurationProofs ------------------------
(***************************************************************************)
(* Proofs about Configuration: what an accepted file promises, for every   *)
(* file, with lists of any length.                                         *)
(***************************************************************************)
EXTENDS Configuration, FiniteSetTheorems, SequenceTheorems, TLAPS

-----------------------------------------------------------------------------
(* ItemsAt.                                                                *)

\* There are m numbers from 1 to m.
LEMMA IntervalSize ==
    ASSUME NEW m \in Nat
    PROVE  IsFiniteSet(1 .. m) /\ Cardinality(1 .. m) = m
  BY FS_Interval

Upto(kept, i) == {k \in kept : k <= i}

\* The positions kept are counted from 1 on, each by one number.
LEMMA RankIsBijection ==
    ASSUME NEW m \in Nat, NEW kept \in SUBSET (1 .. m)
    PROVE  /\ Cardinality(kept) \in Nat
           /\ [i \in kept |-> Rank(kept, i)] \in Bijection(kept, 1 .. Cardinality(kept))
<1> DEFINE c == Cardinality(kept)
           rank == [i \in kept |-> Rank(kept, i)]
<1>1. IsFiniteSet(kept) /\ c \in Nat
  <2>1. IsFiniteSet(1 .. m)
    BY FS_Interval
  <2>2. IsFiniteSet(kept)
    BY <2>1, FS_Subset
  <2> QED
    BY <2>2, FS_CardinalityType
<1>2. \A i \in kept : IsFiniteSet(Upto(kept, i)) /\ Rank(kept, i) \in 1 .. c
  <2> TAKE i \in kept
  <2>1. Upto(kept, i) \in SUBSET kept /\ i \in Upto(kept, i)
    BY DEF Upto
  <2>2. IsFiniteSet(Upto(kept, i)) /\ Cardinality(Upto(kept, i)) <= c
    BY <1>1, <2>1, FS_Subset
  <2>3. Cardinality(Upto(kept, i)) \in Nat
    BY <2>2, FS_CardinalityType
  <2>4. Cardinality(Upto(kept, i)) # 0
    BY <2>1, <2>2, FS_EmptySet
  <2>5. Rank(kept, i) = Cardinality(Upto(kept, i))
    BY DEF Rank, Upto
  <2> QED
    BY <1>1, <2>2, <2>3, <2>4, <2>5
<1>3. ASSUME NEW i \in kept, NEW j \in kept, i < j
      PROVE  Rank(kept, i) # Rank(kept, j)
  <2>0. i \in Int /\ j \in Int /\ \A k \in kept : k \in Int
    OBVIOUS
  <2>1. Upto(kept, i) \in SUBSET Upto(kept, j)
    <3>1. \A k \in kept : k <= i => k <= j
      BY <1>3, <2>0
    <3> QED
      BY <3>1 DEF Upto
  <2>2. j \in Upto(kept, j) /\ j \notin Upto(kept, i)
    BY <1>3, <2>0 DEF Upto
  <2>3. Rank(kept, i) = Cardinality(Upto(kept, i)) /\ Rank(kept, j) = Cardinality(Upto(kept, j))
    BY DEF Rank, Upto
  <2> QED
    BY <1>2, <2>1, <2>2, <2>3, FS_Subset
<1>4. rank \in Injection(kept, 1 .. c)
  <2>1. rank \in [kept -> 1 .. c]
    BY <1>2
  <2>2. ASSUME NEW i \in kept, NEW j \in kept, rank[i] = rank[j]
        PROVE  i = j
    <3>1. i \in Int /\ j \in Int
      OBVIOUS
    <3> QED
      BY <1>3, <2>2, <3>1
  <2> QED
    BY <2>1, <2>2 DEF Injection, IsInjective
<1>5. IsFiniteSet(1 .. c) /\ Cardinality(1 .. c) = c
  BY <1>1, FS_Interval
<1>6. rank \in Surjection(kept, 1 .. c)
  BY <1>4, <1>5, FS_Injection
<1> QED
  BY <1>1, <1>4, <1>6 DEF Bijection

Picked(seq, at, c) == [n \in 1 .. c |-> seq[at[n]]]

\* So the n-th item is that of one position kept, and of a different one for
\* each n; every position kept has its item.
LEMMA ItemsOfPositions ==
    ASSUME NEW m \in Nat, NEW kept \in SUBSET (1 .. m), NEW seq
    PROVE  /\ Cardinality(kept) \in Nat
           /\ \E at \in Bijection(1 .. Cardinality(kept), kept) :
                 ItemsAt(seq, kept) = Picked(seq, at, Cardinality(kept))
<1> DEFINE c == Cardinality(kept)
           rank == [i \in kept |-> Rank(kept, i)]
           at == [n \in 1 .. c |-> CHOOSE i \in kept : Rank(kept, i) = n]
<1>1. c \in Nat /\ rank \in Bijection(kept, 1 .. c)
  BY RankIsBijection
<1>2. /\ rank \in [kept -> 1 .. c]
      /\ \A i, j \in kept : rank[i] = rank[j] => i = j
      /\ \A n \in 1 .. c : \E i \in kept : rank[i] = n
  BY <1>1 DEF Bijection, Injection, Surjection, IsInjective
<1>0. \A i \in kept : rank[i] = Rank(kept, i)
  OBVIOUS
<1> HIDE DEF rank
<1>3. \A n \in 1 .. c : at[n] \in kept /\ rank[at[n]] = n
  BY <1>0, <1>2
<1>4. at \in Bijection(1 .. c, kept)
  <2>1. at \in [1 .. c -> kept]
    BY <1>3
  <2>2. \A n, k \in 1 .. c : at[n] = at[k] => n = k
    BY <1>3
  <2>3. \A i \in kept : rank[i] \in 1 .. c /\ at[rank[i]] = i
    <3>1. \A i \in kept : rank[i] \in 1 .. c
      BY <1>2
    <3>2. \A i \in kept : at[rank[i]] \in kept /\ rank[at[rank[i]]] = rank[i]
      BY <3>1, <1>3
    <3> QED
      BY <3>1, <3>2, <1>2
  <2> HIDE DEF at
  <2> QED
    BY <2>1, <2>2, <2>3 DEF Bijection, Injection, Surjection, IsInjective
<1>5. ItemsAt(seq, kept) = Picked(seq, at, c)
  BY DEF ItemsAt, Picked
<1> QED
  BY <1>1, <1>4, <1>5

\* Nothing is left out of a list when every position is kept.
LEMMA AllItems ==
    ASSUME NEW S, NEW seq \in Seq(S)
    PROVE  ItemsAt(seq, DOMAIN seq) = seq
<1> DEFINE m == Len(seq)
<1>1. m \in Nat /\ DOMAIN seq = 1 .. m /\ seq = [n \in 1 .. m |-> seq[n]]
  OBVIOUS
<1> HIDE DEF m
<1>2. Cardinality(1 .. m) = m
  BY <1>1, IntervalSize
<1>3. ASSUME NEW i \in 1 .. m
      PROVE  Rank(1 .. m, i) = i
  <2>1. i \in Nat
    BY <1>1
  <2>2. {k \in 1 .. m : k <= i} = 1 .. i
    BY <1>1, <2>1
  <2>3. Cardinality(1 .. i) = i
    BY <2>1, IntervalSize
  <2> QED
    BY <2>2, <2>3 DEF Rank
<1>4. \A n \in 1 .. m : (CHOOSE i \in 1 .. m : Rank(1 .. m, i) = n) = n
  BY <1>3
<1> QED
  BY <1>1, <1>2, <1>4 DEF ItemsAt

-----------------------------------------------------------------------------
(* Routing.                                                                *)

\* The names a button without names of its own stands for.
AllAsked(f) ==
    Project(ItemsAt(f.destinations, {i \in DOMAIN f.destinations : f.destinations[i].enabled}),
            LAMBDA d : d.name)

\* Names are given once, so each finds the one destination that has it.
LEMMA EnabledIsFound ==
    ASSUME NEW f \in File, Valid(f), NEW name \in EnabledNames(f)
    PROVE  name \in Names(f) /\ DestinationNamed(f, name).enabled
<1>1. PICK i \in DOMAIN f.destinations :
         f.destinations[i].enabled /\ f.destinations[i].name = name
  BY DEF EnabledNames
<1>2. \A j, k \in DOMAIN f.destinations :
         f.destinations[j].name = f.destinations[k].name => j = k
  BY DEF Valid, Unique, Project
<1>3. DOMAIN f.destinations \subseteq Int
  BY DEF File
<1> DEFINE Last(j) == /\ f.destinations[j].name = name
                      /\ \A k \in DOMAIN f.destinations :
                            f.destinations[k].name = name => k <= j
<1>4. Last(i) /\ \A j \in DOMAIN f.destinations : Last(j) => j = i
  BY <1>1, <1>2, <1>3
<1>5. (CHOOSE j \in DOMAIN f.destinations : Last(j)) = i
  BY <1>4
<1> QED
  BY <1>1, <1>5 DEF Names, DestinationNamed

\* resolve_target_names leaves nothing out of a list of enabled names.
LEMMA EnabledStay ==
    ASSUME NEW f \in File, Valid(f), NEW asked \in Seq(STRING),
           \A i \in DOMAIN asked : asked[i] \in EnabledNames(f)
    PROVE  ItemsAt(asked, {i \in DOMAIN asked :
                              /\ asked[i] \in Names(f)
                              /\ DestinationNamed(f, asked[i]).enabled}) = asked
<1>1. {i \in DOMAIN asked : /\ asked[i] \in Names(f)
                            /\ DestinationNamed(f, asked[i]).enabled} = DOMAIN asked
  BY EnabledIsFound
<1> QED
  BY <1>1, AllItems

\* The enabled destinations of a file are taken once each.
LEMMA AllAreAsked ==
    ASSUME NEW f \in File, Valid(f)
    PROVE  /\ AllAsked(f) \in Seq(STRING) /\ AllAsked(f) # <<>> /\ Unique(AllAsked(f))
           /\ {AllAsked(f)[n] : n \in DOMAIN AllAsked(f)} = EnabledNames(f)
<1> DEFINE m == Len(f.destinations)
           kept == {i \in DOMAIN f.destinations : f.destinations[i].enabled}
           c == Cardinality(kept)
<1>1. m \in Nat /\ DOMAIN f.destinations = 1 .. m /\ f.destinations \in [1 .. m -> Destination]
  BY DEF File
<1>2. kept \in SUBSET (1 .. m)
  BY <1>1
<1> HIDE DEF m
<1> HIDE DEF kept
<1>4. /\ c \in Nat
      /\ \E at \in Bijection(1 .. c, kept) :
            ItemsAt(f.destinations, kept) = Picked(f.destinations, at, c)
  BY <1>1, <1>2, ItemsOfPositions
<1>3. PICK at \in Bijection(1 .. c, kept) :
         ItemsAt(f.destinations, kept) = [n \in 1 .. c |-> f.destinations[at[n]]]
  BY <1>4 DEF Picked
<1>5. /\ at \in [1 .. c -> kept]
      /\ \A n, k \in 1 .. c : at[n] = at[k] => n = k
      /\ \A i \in kept : \E n \in 1 .. c : at[n] = i
  BY <1>3 DEF Bijection, Injection, Surjection, IsInjective
<1>6. AllAsked(f) = [n \in 1 .. c |-> f.destinations[at[n]].name]
  <2>1. AllAsked(f) = Project(ItemsAt(f.destinations, kept), LAMBDA d : d.name)
    BY DEF AllAsked, kept
  <2> QED
    BY <1>3, <2>1 DEF Project
<1>7. \A n \in 1 .. c : f.destinations[at[n]].name \in STRING
  BY <1>1, <1>2, <1>5 DEF Destination
<1>8. AllAsked(f) \in Seq(STRING)
  BY <1>4, <1>6, <1>7, IsASeq
<1>9. {AllAsked(f)[n] : n \in DOMAIN AllAsked(f)} = EnabledNames(f)
  <2>1. EnabledNames(f) = {f.destinations[i].name : i \in kept}
    BY DEF EnabledNames, kept
  <2>2. \A n \in 1 .. c : at[n] \in kept
    BY <1>5
  <2> QED
    BY <1>5, <1>6, <2>1, <2>2
<1>10. Unique(AllAsked(f))
  <2>1. \A i, j \in DOMAIN f.destinations :
           f.destinations[i].name = f.destinations[j].name => i = j
    BY DEF Valid, Unique, Project
  <2>2. \A n \in 1 .. c : at[n] \in DOMAIN f.destinations
    BY <1>5 DEF kept
  <2> QED
    BY <1>5, <1>6, <2>1, <2>2 DEF Unique
<1>11. AllAsked(f) # <<>>
  <2>1. EnabledNames(f) # {}
    BY DEF Valid
  <2> QED
    BY <1>9, <2>1
<1> QED
  BY <1>8, <1>9, <1>10, <1>11

\* A press reaches those it is meant to reach.
LEMMA ResolvedAsMeant ==
    ASSUME NEW f \in File, Parsed(f), Valid(f), NEW b \in DOMAIN f.buttons
    PROVE  LET names == Resolve(f, f.buttons[b])
           IN  /\ names # <<>> /\ Unique(names)
               /\ IF f.buttons[b].all THEN {names[i] : i \in DOMAIN names} = EnabledNames(f)
                  ELSE names = f.buttons[b].destinations
<1> DEFINE own == f.buttons[b].destinations
<1>1. own \in Seq(STRING)
  <2>1. f.buttons \in Seq(Button)
    BY DEF File
  <2>2. f.buttons[b] \in Button
    BY <2>1, ElementOfSeq
  <2> QED
    BY <2>2 DEF Button
<1>2. CASE ~f.buttons[b].all
  <2>1. own # <<>> /\ Unique(own) /\ \A i \in DOMAIN own : own[i] \in EnabledNames(f)
    BY <1>2 DEF Parsed, Valid, ButtonValid
  <2>2. Resolve(f, f.buttons[b]) = own
    BY <1>1, <1>2, <2>1, EnabledStay DEF Resolve
  <2> QED
    BY <1>2, <2>1, <2>2
<1>3. CASE f.buttons[b].all
  <2>1. \A i \in DOMAIN AllAsked(f) : AllAsked(f)[i] \in EnabledNames(f)
    BY AllAreAsked
  <2>2. Resolve(f, f.buttons[b]) = AllAsked(f)
    BY <1>3, <2>1, AllAreAsked, EnabledStay DEF Resolve, AllAsked
  <2> QED
    BY <1>3, <2>2, AllAreAsked
<1> QED
  BY <1>2, <1>3

\* Names of buttons are given once too.
LEMMA EveryButtonIsFound ==
    ASSUME NEW f \in File, Valid(f), NEW b \in DOMAIN f.buttons
    PROVE  ButtonByName(f, f.buttons[b].name) = f.buttons[b]
<1>1. \A i, j \in DOMAIN f.buttons : f.buttons[i].name = f.buttons[j].name => i = j
  BY DEF Valid, Unique, Project
<1>2. DOMAIN f.buttons = 1 .. Len(f.buttons) /\ Len(f.buttons) \in Nat
  BY DEF File
<1> DEFINE First(i) == /\ f.buttons[i].name = f.buttons[b].name
                       /\ \A k \in 1 .. i - 1 : f.buttons[k].name # f.buttons[b].name
<1>3. \A i \in DOMAIN f.buttons : First(i) <=> i = b
  BY <1>1, <1>2
<1>4. (CHOOSE i \in DOMAIN f.buttons : First(i)) = b
  BY <1>3
<1> QED
  BY <1>4 DEF ButtonByName

-----------------------------------------------------------------------------
(* Numbers.                                                                *)

\* max(0, x) is a number that is not negative, also of "not a number".
LEMMA NotNegative ==
    ASSUME NEW x \in Float
    PROVE  ~PyMax(Number(0), x).nan /\ PyMax(Number(0), x).val >= 0
  BY DEF Float, PyMax, Below, Number

\* A delay is doubled a whole number of times.
LEMMA DoublingsAreWhole == Doublings \subseteq Int
  BY DEF Doublings

\* Whatever the numbers of an accepted file are.
LEMMA NumbersAreUsable ==
    ASSUME NEW f \in File, NumbersValid(f)
    PROVE  NumbersAreSound(f)
<1>1. f.num \in [Keys -> Float] /\ f.delays \in Seq(Float)
  BY DEF File
<1>2. \A key \in Keys : f.num[key] \in Float /\ f.num[key].val \in Int
  BY <1>1 DEF Float
<1>3. {"response_body_limit_bytes", "queue_capacity", "max_parallel_destinations",
       "max_retry_after_seconds", "persistent_retry_base_seconds",
       "persistent_retry_max_seconds"} \subseteq Keys
  <2>1. /\ IntKeys[1] = "response_body_limit_bytes" /\ IntKeys[4] = "queue_capacity"
        /\ IntKeys[5] = "max_parallel_destinations" /\ DOMAIN IntKeys = 1 .. 5
    BY DEF IntKeys
  <2> QED
    BY <2>1 DEF Keys, NonNegativeKeys
<1>4. /\ f.num["queue_capacity"].val > 0
      /\ f.num["max_parallel_destinations"].val > 0
      /\ f.num["response_body_limit_bytes"].val > 0
  <2>1. /\ f.num["queue_capacity"].val >= 1
        /\ f.num["max_parallel_destinations"].val >= 1
        /\ f.num["response_body_limit_bytes"].val >= 1
    BY DEF NumbersValid, AtLeastOneKeys
  <2> QED
    BY <2>1, <1>2, <1>3
<1>5. f.delays # <<>>
  BY DEF NumbersValid
<1>6. ASSUME NEW k \in DOMAIN f.delays
      PROVE  ~WaitBefore(f, k).nan /\ WaitBefore(f, k).val >= 0
  <2>1. PyMin(f.delays[k], f.num["max_retry_after_seconds"]) \in Float
    BY <1>1, <1>2, <1>3 DEF PyMin
  <2> QED
    BY <2>1, NotNegative DEF WaitBefore
<1>7. ASSUME NEW factor \in Doublings
      PROVE  ~BackOff(f, factor).nan /\ BackOff(f, factor).val >= 0
  <2> DEFINE base == f.num["persistent_retry_base_seconds"]
             most == f.num["persistent_retry_max_seconds"]
             delay == [base EXCEPT !.val = @ * factor]
  <2>1. base \in Float /\ most \in Float
    BY <1>2, <1>3
  <2>2. delay \in Float
    BY <2>1, DoublingsAreWhole DEF Float
  <2>3. PyMin(delay, most) \in Float
    BY <2>1, <2>2 DEF PyMin
  <2>4. BackOff(f, factor) \in {Number(0), PyMax(Number(0), PyMin(delay, most))}
    BY DEF BackOff
  <2>5. ~Number(0).nan /\ Number(0).val >= 0
    BY DEF Number
  <2> QED
    BY <2>3, <2>4, <2>5, NotNegative
<1> QED
  BY <1>4, <1>5, <1>6, <1>7 DEF NumbersAreSound

-----------------------------------------------------------------------------
(* The result.                                                             *)

\* A file that load_config accepts keeps its promises, of routing and of numbers,
\* however many destinations and buttons it lists.
THEOREM AcceptedFilesAreSound ==
    \A f \in File : Verdict(f) = "accepted" => RoutingIsSound(f) /\ NumbersAreSound(f)
<1> SUFFICES ASSUME NEW f \in File, Verdict(f) = "accepted"
             PROVE  RoutingIsSound(f) /\ NumbersAreSound(f)
  OBVIOUS
<1>1. Parsed(f) /\ Valid(f)
  BY DEF Verdict
<1>2. NumbersAreSound(f)
  BY <1>1, NumbersAreUsable DEF Valid
<1>3. RoutingIsSound(f)
  BY <1>1, ResolvedAsMeant, EveryButtonIsFound DEF RoutingIsSound
<1> QED
  BY <1>2, <1>3

=============================================================================
