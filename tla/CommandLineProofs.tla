------------------------- MODULE CommandLineProofs --------------------------
(***************************************************************************)
(* Proofs about CommandLine, for every argument vector of any length and   *)
(* every set of interfaces.                                                *)
(***************************************************************************)
EXTENDS CommandLine, TLAPS, WellFoundedInduction

(***************************************************************************)
(* OptionAt is a recursive function. That it exists is shown by the least  *)
(* number for which it would not.                                          *)
(***************************************************************************)

(* A set of numbers that is not empty has a least element.                 *)
LEMMA LeastNumber ==
  ASSUME NEW T, T \subseteq Nat, T # {}
  PROVE  \E x \in T : \A y \in T : x <= y
<1>1. IsWellFoundedOn(OpToRel(<, Nat), Nat)
  BY NatLessThanWellFounded, Zenon
<1>2. PICK x \in T : \A y \in T : ~ (<<y, x>> \in OpToRel(<, Nat))
  BY <1>1, WFMin, Zenon
<1>3. \A y \in T : <<y, x>> \in OpToRel(<, Nat) <=> y < x
  BY <1>2 DEF OpToRel
<1>4. \A y \in T : ~ (y < x)
  BY <1>2, <1>3, Zenon
<1>5. x \in Nat /\ \A y \in T : y \in Nat
  OBVIOUS
<1> QED
  BY <1>4, <1>5

(* Whether position k is read as an option, from whether the two positions *)
(* before it are.                                                          *)
Step(s, g, k) == \/ k = 1
                 \/ k > 1 /\ g[k - 1] /\ s[k - 1] \in Flags
                 \/ k > 2 /\ g[k - 2] /\ s[k - 2] \in Valued

(* Every argument vector has the positions that its loop reads as options. *)
LEMMA PositionsExist ==
  ASSUME NEW s, NEW n \in Nat
  PROVE  \E g \in [1 .. n -> BOOLEAN] : \A k \in 1 .. n : g[k] = Step(s, g, k)
<1> DEFINE Ok(m) == \E g \in [1 .. m -> BOOLEAN] : \A k \in 1 .. m : g[k] = Step(s, g, k)
           T == {m \in Nat : ~Ok(m)}
<1>1. Ok(0)
  <2>1. [k \in 1 .. 0 |-> TRUE] \in [1 .. 0 -> BOOLEAN]
    OBVIOUS
  <2>2. \A k \in 1 .. 0 : FALSE
    OBVIOUS
  <2> QED
    BY <2>1, <2>2
<1>2. ASSUME NEW m \in Nat, Ok(m)
      PROVE  Ok(m + 1)
  <2>1. PICK g \in [1 .. m -> BOOLEAN] : \A k \in 1 .. m : g[k] = Step(s, g, k)
    BY <1>2
  <2> DEFINE h == [k \in 1 .. m + 1 |-> IF k <= m THEN g[k] ELSE Step(s, g, k)]
  <2>2. \A k \in 1 .. m : h[k] = g[k]
    OBVIOUS
  <2>3. ASSUME NEW k \in 1 .. m + 1
        PROVE  Step(s, h, k) = Step(s, g, k)
    <3>1. k > 1 => h[k - 1] = g[k - 1]
      BY <2>2
    <3>2. k > 2 => h[k - 2] = g[k - 2]
      BY <2>2
    <3> HIDE DEF h
    <3> QED
      BY <3>1, <3>2 DEF Step
  <2>4. \A k \in 1 .. m + 1 : h[k] = Step(s, g, k)
    BY <2>1
  <2>5. \A k \in 1 .. m + 1 : Step(s, g, k) \in BOOLEAN
    BY DEF Step
  <2>6. h \in [1 .. m + 1 -> BOOLEAN]
    BY <2>4, <2>5
  <2> HIDE DEF h
  <2>7. \A k \in 1 .. m + 1 : h[k] = Step(s, h, k)
    BY <2>3, <2>4
  <2> QED
    BY <2>6, <2>7
<1> HIDE DEF Ok
<1>3. T = {}
  <2> SUFFICES ASSUME T # {} PROVE FALSE
    OBVIOUS
  <2>1. PICK x \in T : \A y \in T : x <= y
    BY LeastNumber
  <2>2. x \in Nat /\ x # 0
    BY <1>1
  <2>3. x - 1 \in Nat /\ x - 1 \notin T
    BY <2>1, <2>2
  <2>4. Ok(x - 1)
    BY <2>3
  <2>5. Ok((x - 1) + 1)
    BY <1>2, <2>3, <2>4
  <2>6. (x - 1) + 1 = x
    BY <2>2
  <2> QED
    BY <2>1, <2>5, <2>6
<1>4. Ok(n)
  BY <1>3
<1> QED
  BY <1>4 DEF Ok

(* So OptionAt is what its definition says.                                *)
LEMMA OptionAtUnfolds ==
  ASSUME argv \in Seq(STRING)
  PROVE  \A k \in 1 .. Len(argv) : OptionAt[k] = Step(argv, OptionAt, k)
<1> DEFINE Is(g) == g = [k \in 1 .. Len(argv) |-> Step(argv, g, k)]
<1>1. Len(argv) \in Nat
  OBVIOUS
<1>2. PICK g \in [1 .. Len(argv) -> BOOLEAN] :
        \A k \in 1 .. Len(argv) : g[k] = Step(argv, g, k)
  BY <1>1, PositionsExist
<1>3. Is(g)
  BY <1>2
<1>4. OptionAt = CHOOSE f : Is(f)
  BY DEF OptionAt, Step
<1>5. Is(OptionAt)
  BY <1>3, <1>4
<1> QED
  BY <1>5

(***************************************************************************)
(* The loop.                                                               *)
(***************************************************************************)

(* Where the options are after the one that is being read: a flag has the  *)
(* next one behind it, a value is not an option.                           *)
LEMMA NextPosition ==
  ASSUME TypeOK, Position, Reading
  PROVE  /\ i \in 1 .. Len(argv) /\ OptionAt[i]
         /\ Arg \in Flags  => Arg \notin Valued /\ (i + 1 <= Len(argv) => OptionAt[i + 1])
         /\ Arg \in Valued => /\ i + 1 <= Len(argv) => ~OptionAt[i + 1]
                              /\ i + 2 <= Len(argv) => OptionAt[i + 2]
<1>1. i \in 1 .. Len(argv) /\ Len(argv) \in Nat /\ OptionAt[i] = TRUE
  <2>1. Len(argv) \in Nat /\ i \in 1 .. Len(argv) /\ OptionAt[i]
    BY DEF TypeOK, Reading, Position
  <2>2. OptionAt[i] = Step(argv, OptionAt, i) /\ Step(argv, OptionAt, i) \in BOOLEAN
    BY <2>1, OptionAtUnfolds DEF TypeOK, Step
  <2> QED
    BY <2>1, <2>2
<1>2. Arg \in Flags => Arg \notin Valued
  BY DEF Flags, Valued
<1>3. ASSUME i + 1 <= Len(argv)
      PROVE  /\ OptionAt[i + 1] = Step(argv, OptionAt, i + 1)
             /\ Step(argv, OptionAt, i + 1) <=> Arg \in Flags
  <2>1. OptionAt[i + 1] = Step(argv, OptionAt, i + 1)
    BY <1>1, <1>3, OptionAtUnfolds DEF TypeOK
  <2>2. i > 1 => ~(OptionAt[i - 1] /\ argv[i - 1] \in Valued)
    BY DEF Position
  <2>3. (i + 1) - 1 = i /\ (i + 1) - 2 = i - 1 /\ i + 1 > 1 /\ i + 1 # 1 /\ (i + 1 > 2 <=> i > 1)
    BY <1>1
  <2>4. Step(argv, OptionAt, i + 1) <=>
          \/ i + 1 = 1
          \/ i + 1 > 1 /\ OptionAt[(i + 1) - 1] /\ argv[(i + 1) - 1] \in Flags
          \/ i + 1 > 2 /\ OptionAt[(i + 1) - 2] /\ argv[(i + 1) - 2] \in Valued
    BY DEF Step
  <2>5. Step(argv, OptionAt, i + 1) <=> Arg \in Flags
    BY <1>1, <2>2, <2>3, <2>4 DEF Arg
  <2> QED
    BY <2>1, <2>5
<1>4. ASSUME i + 2 <= Len(argv), Arg \in Valued
      PROVE  OptionAt[i + 2]
  <2>1. OptionAt[i + 2] = Step(argv, OptionAt, i + 2)
    BY <1>1, <1>4, OptionAtUnfolds DEF TypeOK
  <2>2. (i + 2) - 2 = i /\ i + 2 > 2
    BY <1>1
  <2>3. i + 2 > 2 /\ OptionAt[(i + 2) - 2] /\ argv[(i + 2) - 2] \in Valued
    BY <1>1, <1>4, <2>2 DEF Arg
  <2>4. Step(argv, OptionAt, i + 2)
    BY <2>3 DEF Step
  <2> QED
    BY <2>1, <2>4
<1> QED
  BY <1>1, <1>2, <1>3, <1>4 DEF Flags, Valued

(* The initial state satisfies the invariant.                              *)
LEMMA InitIInv == Init => IInv
<1> SUFFICES ASSUME Init PROVE IInv
  OBVIOUS
<1>1. argv \in Seq(STRING) /\ i = 1 /\ Len(argv) \in Nat
  BY ArgvsAssumption DEF Init
<1>2. Default \in [Valued -> Words]
  BY DEF Default, Words
<1>3. TypeOK
  <2>1. i \in 1 .. Len(argv) + 1
    BY <1>1
  <2> QED
    BY <1>1, <1>2, <2>1 DEF Init, TypeOK
<1>4. Position
  <2>1. ASSUME 1 <= Len(argv)
        PROVE  OptionAt[1]
    <3>1. OptionAt[1] = Step(argv, OptionAt, 1)
      BY <1>1, <2>1, OptionAtUnfolds
    <3> QED
      BY <3>1 DEF Step
  <2> QED
    BY <1>1, <2>1 DEF Position
<1>5. \A o : Passed(o) = {}
  BY <1>1 DEF Passed, Given
<1>6. ValuesSoFar /\ PublishSoFar
  BY <1>5 DEF ValuesSoFar, PublishSoFar, Init
<1> QED
  BY <1>3, <1>4, <1>6 DEF IInv, Init, Validated, Told

(* The positions depend on argv only.                                      *)
LEMMA SameArgv ==
  ASSUME argv' = argv
  PROVE  OptionAt' = OptionAt /\ Words' = Words /\ \A o : Given(o)' = Given(o)
<1>1. OptionAt' = OptionAt
  BY DEF OptionAt
<1>2. Words' = Words
  BY DEF Words
<1> QED
  BY <1>1, <1>2 DEF Given

(* A value that was read, and the occurrences that were passed with it.    *)
LEMMA InvReadValue == ASSUME IInv, ReadValue PROVE IInv'
<1>1. /\ UNCHANGED <<program, argv, start, publish_zmq, ui, main>> /\ Reading
      /\ Arg \in Valued /\ i' = i + 2 /\ i + 1 <= Len(argv)
      /\ opts' = [opts EXCEPT ![Arg] = argv[i + 1]]
  BY DEF ReadValue
<1>2. TypeOK /\ Position
  BY DEF IInv
<1>3. /\ i \in 1 .. Len(argv) /\ OptionAt[i] /\ Len(argv) \in Nat
      /\ ~OptionAt[i + 1] /\ (i + 2 <= Len(argv) => OptionAt[i + 2])
  BY <1>1, <1>2, NextPosition DEF TypeOK
<1>4. OptionAt' = OptionAt /\ Words' = Words /\ \A o : Given(o)' = Given(o)
  BY <1>1, SameArgv
<1>5. TypeOK'
  <2>1. argv[i + 1] \in Words
    <3>1. i + 1 \in 1 .. Len(argv)
      BY <1>1, <1>3
    <3> QED
      BY <3>1 DEF Words
  <2>2. opts' \in [Valued -> Words]
    BY <1>1, <1>2, <2>1 DEF TypeOK
  <2>3. i' \in 1 .. Len(argv') + 1
    BY <1>1, <1>3
  <2> QED
    BY <1>1, <1>2, <1>4, <2>2, <2>3 DEF TypeOK
<1>6. Position'
  <2>1. i' - 1 = i + 1
    BY <1>1, <1>3
  <2> QED
    BY <1>1, <1>3, <1>4, <2>1 DEF Position
<1>7. \A o : Passed(o)' = IF o = Arg THEN Passed(o) \cup {i} ELSE Passed(o)
  <2>1. ASSUME NEW o, NEW k \in Given(o)
        PROVE  k < i + 2 <=> k < i \/ k = i
    <3>1. k \in 1 .. Len(argv) /\ OptionAt[k]
      BY <2>1 DEF Given
    <3>2. k # i + 1
      BY <1>3, <3>1
    <3> QED
      BY <1>3, <3>1, <3>2
  <2>2. \A o : i \in Given(o) <=> o = Arg
    BY <1>3 DEF Given, Arg
  <2> QED
    BY <1>1, <1>4, <2>1, <2>2 DEF Passed
<1>8. ValuesSoFar'
  <2> SUFFICES ASSUME NEW o \in Valued
               PROVE  \/ Passed(o)' = {} /\ opts'[o] = Default[o]
                      \/ \E k \in Passed(o)' : /\ \A j \in Passed(o)' : j <= k
                                               /\ opts'[o] = argv'[k + 1]
    BY DEF ValuesSoFar, Default
  <2>1. CASE o = Arg
    <3>1. Passed(o)' = Passed(o) \cup {i} /\ opts'[o] = argv[i + 1]
      BY <1>1, <1>2, <1>7, <2>1 DEF TypeOK
    <3>2. \A j \in Passed(o) \cup {i} : j <= i
      BY <1>3 DEF Passed, Given
    <3> QED
      BY <1>1, <3>1, <3>2
  <2>2. CASE o # Arg
    <3>1. Passed(o)' = Passed(o) /\ opts'[o] = opts[o]
      BY <1>1, <1>2, <1>7, <2>2 DEF TypeOK
    <3> QED
      BY <1>1, <3>1 DEF IInv, ValuesSoFar
  <2> QED
    BY <2>1, <2>2
<1>9. PublishSoFar'
  BY <1>1, <1>7 DEF IInv, PublishSoFar, Valued
<1>10. Validated'
  <2>1. i' - 1 = i + 1 /\ i + 1 \notin Given("--start")
    BY <1>1, <1>3 DEF Given
  <2> QED
    BY <1>1, <1>4, <2>1 DEF IInv, Validated, Reading
<1>11. Told'
  BY <1>1 DEF IInv, Told, Reading
<1> QED
  BY <1>5, <1>6, <1>8, <1>9, <1>10, <1>11 DEF IInv

(* A flag that was read: kddv-gui has validated at --start.                *)
LEMMA InvReadFlag == ASSUME IInv, ReadStart \/ ReadPublish PROVE IInv'
<1>1. /\ UNCHANGED <<program, argv, opts, ui, main>> /\ Reading
      /\ Arg \in Flags /\ i' = i + 1
  BY DEF ReadStart, ReadPublish, Flags
<1>2. TypeOK /\ Position
  BY DEF IInv
<1>3. /\ i \in 1 .. Len(argv) /\ OptionAt[i] /\ Len(argv) \in Nat
      /\ Arg \notin Valued /\ (i + 1 <= Len(argv) => OptionAt[i + 1])
  BY <1>1, <1>2, NextPosition DEF TypeOK
<1>4. OptionAt' = OptionAt /\ Words' = Words /\ \A o : Given(o)' = Given(o)
  BY <1>1, SameArgv
<1>5. TypeOK'
  <2>1. i' \in 1 .. Len(argv') + 1
    BY <1>1, <1>3
  <2>2. start' \in BOOLEAN /\ publish_zmq' \in BOOLEAN
    BY <1>2 DEF ReadStart, ReadPublish, TypeOK
  <2> QED
    BY <1>1, <1>2, <1>4, <2>1, <2>2 DEF TypeOK
<1>6. i' - 1 = i
  BY <1>1, <1>3
<1>7. Position'
  BY <1>1, <1>3, <1>4, <1>6 DEF Position, Arg
<1>8. \A o : Passed(o)' = IF o = Arg THEN Passed(o) \cup {i} ELSE Passed(o)
  <2>1. ASSUME NEW o, NEW k \in Given(o)
        PROVE  k < i + 1 <=> k < i \/ k = i
    BY <1>3 DEF Given
  <2>2. \A o : i \in Given(o) <=> o = Arg
    BY <1>3 DEF Given, Arg
  <2> QED
    BY <1>1, <1>4, <2>1, <2>2 DEF Passed
<1>9. ValuesSoFar'
  <2>1. \A o \in Valued : Passed(o)' = Passed(o)
    BY <1>3, <1>8
  <2> QED
    BY <1>1, <2>1 DEF IInv, ValuesSoFar, Default
<1>10. PublishSoFar'
  <2>1. CASE ReadStart
    BY <1>8, <2>1 DEF ReadStart, IInv, PublishSoFar
  <2>2. CASE ReadPublish
    BY <1>8, <2>2 DEF ReadPublish, IInv, PublishSoFar
  <2> QED
    BY <2>1, <2>2
<1>11. Validated'
  <2>1. program = "gui" /\ i \in Given("--start") => Complete(opts)
    BY DEF ReadStart, ReadPublish, Given, Arg
  <2>2. Complete(opts)' <=> Complete(opts)
    BY <1>1 DEF Complete
  <2> QED
    BY <1>1, <1>4, <1>6, <2>1, <2>2 DEF IInv, Validated, Reading
<1>12. Told'
  BY <1>1 DEF IInv, Told, Reading
<1> QED
  BY <1>5, <1>7, <1>9, <1>10, <1>11, <1>12 DEF IInv

(* The other steps leave what was read alone.                              *)
LEMMA InvOthers ==
  ASSUME IInv, UNCHANGED <<program, argv, i, opts, start, publish_zmq>>,
         ui' \in [Valued -> Words],
         main' \in {"parse", "publisher", "check", "configure", "ui", "exit", "aborted"},
         program = "tui" /\ main' \in {"configure", "ui"} => Complete(opts),
         Told'
  PROVE  IInv'
<1>1. OptionAt' = OptionAt /\ Words' = Words /\ \A o : Given(o)' = Given(o)
  BY SameArgv
<1>2. \A o : Passed(o)' = Passed(o)
  BY <1>1 DEF Passed
<1>3. TypeOK'
  BY <1>1 DEF IInv, TypeOK
<1>4. Position'
  BY <1>1 DEF IInv, Position
<1>5. ValuesSoFar' /\ PublishSoFar'
  BY <1>2 DEF IInv, ValuesSoFar, PublishSoFar, Default
<1>6. Complete(opts)' <=> Complete(opts)
  BY DEF Complete
<1>7. Validated'
  BY <1>1, <1>6 DEF IInv, Validated
<1> QED
  BY <1>3, <1>4, <1>5, <1>7 DEF IInv

(* Every step keeps the invariant.                                         *)
LEMMA NextIInv == ASSUME IInv, [Next]_vars PROVE IInv'
<1> USE DEF IInv, TypeOK, Told
<1>1. CASE MissingValue \/ InvalidSource \/ StartIncomplete \/ Usage
  <2>1. main' = "exit" /\ UNCHANGED <<program, argv, i, opts, start, publish_zmq, ui>>
    BY <1>1 DEF MissingValue, InvalidSource, StartIncomplete, Usage, Exit
  <2> QED
    BY <2>1, InvOthers
<1>2. CASE ReadValue
  BY <1>2, InvReadValue
<1>3. CASE ReadStart \/ ReadPublish
  BY <1>3, InvReadFlag
<1>4. CASE EndOfArgs
  BY <1>4, InvOthers DEF EndOfArgs
<1>5. CASE MakePublisher
  BY <1>5, InvOthers DEF MakePublisher
<1>6. CASE Validate
  BY <1>6, InvOthers DEF Validate
<1>7. CASE Configure
  <2>1. /\ main = "configure" /\ main' = "ui"
        /\ UNCHANGED <<program, argv, i, opts, start, publish_zmq>>
    BY <1>7 DEF Configure
  <2>2. ui' \in [Valued -> Words]
    <3>1. CASE ConfigureTui
      BY <3>1 DEF ConfigureTui
    <3>2. CASE ConfigureGui
      <4>1. PICK v \in Words : ui' = [opts EXCEPT !["--iface"] = v]
        BY <3>2 DEF ConfigureGui, Valued, Words
      <4> QED
        BY <4>1
    <3> QED
      BY <1>7, <3>1, <3>2 DEF Configure
  <2>3. program = "tui" => Complete(opts)
    BY <2>1 DEF Validated
  <2>4. program = "tui" \/ opts["--iface"] \in Interfaces \cup {""} => ui' = opts
    <3>1. CASE ConfigureTui
      BY <3>1 DEF ConfigureTui
    <3>2. CASE ConfigureGui /\ opts["--iface"] \in Interfaces \cup {""}
      <4>1. ui' = [opts EXCEPT !["--iface"] = opts["--iface"]]
        BY <3>2 DEF ConfigureGui
      <4> QED
        BY <4>1
    <3> QED
      BY <1>7, <3>1, <3>2 DEF Configure, ConfigureTui, ConfigureGui
  <2> QED
    BY <2>1, <2>2, <2>3, <2>4, InvOthers
<1>8. CASE UNCHANGED vars
  BY <1>8, InvOthers DEF vars, Validated
<1> QED
  BY <1>1, <1>2, <1>3, <1>4, <1>5, <1>6, <1>7, <1>8 DEF Next, ParseArg

(***************************************************************************)
(* The theorems.                                                           *)
(***************************************************************************)

(* The invariant of the loop over argv and of the steps that follow it.    *)
THEOREM Invariant == Spec => []IInv
<1>1. Init => IInv
  BY InitIInv
<1>2. IInv /\ [Next]_vars => IInv'
  BY NextIInv
<1> QED
  BY <1>1, <1>2, PTL DEF Spec

(* Every variable has its type; argv is never read beyond its end.         *)
THEOREM TypeCorrect == Spec => []TypeOK
<1>1. IInv => TypeOK
  BY DEF IInv
<1> QED
  BY <1>1, Invariant, PTL

(* The loop is over when something is done with the options.               *)
LEMMA AllPassed ==
  ASSUME IInv, main \in {"publisher", "check", "configure", "ui"}
  PROVE  /\ i - 1 = Len(argv)
         /\ Len(argv) \in 1 .. Len(argv) => i > 1
         /\ \A o : Passed(o) = Given(o)
<1>1. i = Len(argv) + 1 /\ Len(argv) \in Nat
  <2>1. TypeOK /\ Told
    BY DEF IInv
  <2>2. i > Len(argv)
    BY <2>1 DEF Told
  <2>3. i \in 1 .. Len(argv) + 1 /\ Len(argv) \in Nat
    BY <2>1 DEF TypeOK
  <2> QED
    BY <2>2, <2>3
<1>2. \A o : \A k \in Given(o) : k < i
  BY <1>1 DEF Given
<1> QED
  BY <1>1, <1>2 DEF Passed

(* Each option has the value of its last occurrence, in every command      *)
(* line of any length: the loop of main takes no value for an option.      *)
THEOREM LastOccurrenceWins == Spec => []LastValueCounts
<1>1. ASSUME IInv PROVE LastValueCounts
  <2> SUFFICES ASSUME main \in {"publisher", "check", "configure", "ui"}
               PROVE  /\ \A o \in Valued :
                           opts[o] = IF Given(o) = {} THEN Default[o]
                                     ELSE argv[(CHOOSE k \in Given(o) : \A j \in Given(o) : j <= k) + 1]
                      /\ publish_zmq = (Given("--publish_zmq") # {})
    BY DEF LastValueCounts
  <2>1. \A o : Passed(o) = Given(o)
    BY <1>1, AllPassed
  <2>2. ASSUME NEW o \in Valued
        PROVE  opts[o] = IF Given(o) = {} THEN Default[o]
                         ELSE argv[(CHOOSE k \in Given(o) : \A j \in Given(o) : j <= k) + 1]
    <3> DEFINE Last(k) == k \in Given(o) /\ \A j \in Given(o) : j <= k
    <3>1. \/ Given(o) = {} /\ opts[o] = Default[o]
          \/ \E k : Last(k) /\ opts[o] = argv[k + 1]
      BY <1>1, <2>1, <2>2 DEF IInv, ValuesSoFar
    <3>2. \A k, j : Last(k) /\ Last(j) => k = j
      BY <1>1 DEF Given, IInv, TypeOK
    <3>3. ASSUME NEW k, Last(k), opts[o] = argv[k + 1]
          PROVE  opts[o] = argv[(CHOOSE m \in Given(o) : \A j \in Given(o) : j <= m) + 1]
      <4> DEFINE c == CHOOSE m \in Given(o) : \A j \in Given(o) : j <= m
      <4>1. Last(c)
        BY <3>3
      <4> HIDE DEF c
      <4>2. c = k
        BY <3>2, <3>3, <4>1
      <4> QED
        BY <3>3, <4>2 DEF c
    <3> QED
      BY <3>1, <3>3
  <2> QED
    BY <1>1, <2>1, <2>2 DEF IInv, PublishSoFar
<1> QED
  BY <1>1, Invariant, PTL

(* Whatever the order of the options, TUI::start runs with a source and    *)
(* all that the source needs, and so does GUI::start under the conditions  *)
(* that the property names.                                                *)
THEOREM StartsComplete == Spec => []StartedIsComplete
<1>1. ASSUME IInv PROVE StartedIsComplete
  <2> SUFFICES ASSUME main = "ui",
                      \/ program = "tui"
                      \/ /\ Len(argv) \in Given("--start")
                         /\ opts["--iface"] \in Interfaces \cup {""}
               PROVE  SourceHasItsOptions
    BY DEF StartedIsComplete
  <2>1. ui = opts
    BY <1>1 DEF IInv, Told
  <2>2. i - 1 = Len(argv) /\ (Len(argv) \in 1 .. Len(argv) => i > 1)
    BY <1>1, AllPassed
  <2>3. Len(argv) \in Given("--start") => i > 1 /\ i - 1 \in Given("--start")
    <3>1. Len(argv) \in Given("--start") => Len(argv) \in 1 .. Len(argv)
      BY Zenon DEF Given
    <3> QED
      BY <2>2, <3>1, Zenon
  <2>4. Complete(opts)
    BY <1>1, <2>3 DEF IInv, TypeOK, Validated
  <2> QED
    BY <2>1, <2>4 DEF Complete, SourceHasItsOptions, Sources
<1> QED
  BY <1>1, Invariant, PTL

(***************************************************************************)
(* How main comes to the user interface or to its end.                     *)
(***************************************************************************)

(* The stages that are left to main after the loop.                        *)
StagesLeft == CASE main = "parse"     -> 4
                [] main = "publisher" -> 3
                [] main = "check"     -> 2
                [] main = "configure" -> 1
                [] main \in {"ui", "exit", "aborted"} -> 0

(* With the arguments that the loop has not read.                          *)
StepsLeft == StagesLeft + (Len(argv) + 1 - i)

(* main takes at most four steps more than it has arguments: each step     *)
(* reads an argument or ends a stage, whatever the argument is.            *)
ParsingComesCloser ==
  /\ [](StepsLeft \in 0 .. (Len(argv) + 4))
  /\ [][StepsLeft' < StepsLeft]_vars

(* The loop over argv neither goes round for ever nor goes back, for every *)
(* argument vector.                                                        *)
THEOREM ParsingIsBounded == Spec => ParsingComesCloser
<1>1. IInv => /\ Len(argv) \in Nat /\ i \in 1 .. Len(argv) + 1
              /\ main \in {"parse", "publisher", "check", "configure", "ui", "exit",
                           "aborted"}
  BY DEF IInv, TypeOK
<1>2. IInv => StepsLeft \in 0 .. (Len(argv) + 4)
  BY <1>1 DEF StepsLeft, StagesLeft
<1>3. ASSUME IInv, [Next]_vars PROVE [StepsLeft' < StepsLeft]_vars
  <2> SUFFICES ASSUME Next PROVE StepsLeft' < StepsLeft
    BY <1>3
  <2>1. Len(argv) \in Nat /\ i \in 1 .. Len(argv) + 1
    BY <1>1, <1>3
  <2>2. CASE ReadValue \/ ReadStart \/ ReadPublish
    <3>1. argv' = argv /\ main = "parse" /\ main' = "parse" /\ i' > i /\ i' \in Int
      BY <2>1, <2>2 DEF ReadValue, ReadStart, ReadPublish, Reading
    <3>2. StagesLeft = 4 /\ StagesLeft' = 4
      BY <3>1 DEF StagesLeft
    <3> QED
      BY <2>1, <3>1, <3>2 DEF StepsLeft
  <2>3. CASE \/ MissingValue \/ InvalidSource \/ StartIncomplete \/ Usage \/ EndOfArgs
             \/ MakePublisher \/ Validate \/ Configure
    <3>1. UNCHANGED <<argv, i>>
      BY <2>3 DEF MissingValue, InvalidSource, StartIncomplete, Usage, Exit, EndOfArgs,
         MakePublisher, Validate, Configure
    <3>2. StagesLeft' < StagesLeft /\ StagesLeft \in Int /\ StagesLeft' \in Int
      BY <2>3 DEF MissingValue, InvalidSource, StartIncomplete, Usage, Exit, EndOfArgs,
         MakePublisher, Validate, Configure, Reading, StagesLeft
    <3> QED
      BY <2>1, <3>1, <3>2 DEF StepsLeft
  <2> QED
    BY <2>2, <2>3 DEF Next, ParseArg
<1> QED
  BY <1>2, <1>3, Invariant, PTL DEF Spec, ParsingComesCloser
=============================================================================
