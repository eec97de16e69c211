-------------------------- MODULE XapsParseProofs --------------------------
(***************************************************************************)
(* parse_xapplepush() accepts exactly the well-formed commands, whatever   *)
(* commands, texts and lists there are.                                    *)
(***************************************************************************)
EXTENDS XapsParse, TLAPS

(* What the loop knows of the pairs before the i-th: a field that is set   *)
(* has its value from one of them, and of a well-formed command every one  *)
(* of them has set its field.                                              *)
PairsInv ==
    /\ i > 0 => EnoughArgs
    /\ \A n \in 1..i : IsText(args[2 * n - 1]) /\ (n <= 4 => IsText(Given(n)))
    /\ \A n \in 1..i : Slot(n) = "mailboxes" => IsList(Given(n))
    /\ \A key \in Keys : fields[key] # NULL =>
          \E n \in 1..i : n <= 4 /\ Slot(n) = key /\ fields[key] = Given(n).value
    /\ fields["mailboxes"] # NULL => \E n \in 1..i : Slot(n) = "mailboxes"
    /\ WellFormed => \A n \in 1..i : fields[Slot(n)] = Given(n).value

ParseInv == ParseTypeOK /\ PairsInv /\ AcceptsWellFormed

(* The count before the loop. *)
LEMMA CountFacts ==
    ASSUME args \in Seq(Arg)
    PROVE  /\ EnoughArgs <=> Len(args) >= 10
           /\ Len(args) >= 10 => \A n \in 1..5 : args[2 * n - 1] \in Arg /\ Given(n) \in Arg
<1>1. Len(args) \in Nat
  OBVIOUS
<1>2. EnoughArgs <=> Len(args) >= 10
  BY <1>1 DEF EnoughArgs, Counted, MaxCounted
<1>3. ASSUME Len(args) >= 10, NEW n \in 1..5
      PROVE  args[2 * n - 1] \in Arg /\ Given(n) \in Arg
  <2>1. 2 * n - 1 \in 1..Len(args) /\ 2 * n \in 1..Len(args)
    BY <1>1, <1>3
  <2>2. QED
    BY <2>1 DEF Given
<1>4. QED
  BY <1>2, <1>3

LEMMA ArgFacts ==
    ASSUME NEW a \in Arg
    PROVE  /\ IsText(a) => a.value \in Texts /\ a.value # NULL /\ ~IsList(a)
           /\ IsList(a) => a.value \in Lists /\ a.value # NULL
BY ParseAssumption DEF Arg, IsText, IsList

(* In a well-formed command no key is repeated.                            *)
LEMMA SlotsDiffer ==
    ASSUME WellFormed
    PROVE  /\ \A n \in 1..4 : Slot(n) \in Keys
           /\ Slot(5) = "mailboxes" /\ "mailboxes" \notin Keys
           /\ \A m, n \in 1..5 : Slot(m) = Slot(n) => m = n
           /\ \A key \in Keys : \E n \in 1..4 : Slot(n) = key
<1>1. /\ \A n \in 1..4 : Slot(n) \in Keys
      /\ \A key \in Keys : \E n \in 1..4 : Slot(n) = key
      /\ Slot(5) = "mailboxes" /\ "mailboxes" \notin Keys
  BY DEF WellFormed, Keys
<1>2. PICK a, b, c, d \in 1..4 :
        /\ Slot(a) = "aps-version" /\ Slot(b) = "aps-account-id"
        /\ Slot(c) = "aps-device-token" /\ Slot(d) = "aps-subtopic"
  BY <1>1 DEF Keys
<1>3. a # b /\ a # c /\ a # d /\ b # c /\ b # d /\ c # d
  BY <1>2
<1>4. \A n \in 1..4 : n \in {a, b, c, d}
  BY <1>3
<1>5. \A m, n \in 1..4 : Slot(m) = Slot(n) => m = n
  BY <1>2, <1>4
<1>6. \A n \in 1..5 : n \in 1..4 \/ n = 5
  OBVIOUS
<1>7. QED
  BY <1>1, <1>5, <1>6

(* The pair of this iteration. *)
LEMMA PairFacts ==
    ASSUME args \in Seq(Arg), EnoughArgs, i \in 0..4
    PROVE  /\ Key = args[2 * (i + 1) - 1] /\ Value = Given(i + 1)
           /\ Key.value = Slot(i + 1) /\ i + 1 \in 1..5
           /\ Key \in Arg /\ Value \in Arg
<1>1. Len(args) >= 10 /\ Len(args) \in Nat /\ i + 1 \in 1..5
  BY CountFacts
<1>2. Key = args[2 * i + 1] /\ Value = args[2 * i + 2]
  BY <1>1 DEF Key, Value, ArgAt
<1>3. 2 * i + 1 = 2 * (i + 1) - 1 /\ 2 * i + 2 = 2 * (i + 1)
  OBVIOUS
<1>4. QED
  BY <1>1, <1>2, <1>3, CountFacts DEF Slot, Given

(* An invalid pair makes the command ill-formed.                           *)
LEMMA InvalidPair ==
    ASSUME args \in Seq(Arg), EnoughArgs, i \in 0..4, PairInvalid
    PROVE  ~WellFormed
<1> SUFFICES ASSUME WellFormed
             PROVE  FALSE
  OBVIOUS
<1>1. /\ \A n \in 1..5 : IsText(args[2 * n - 1])
      /\ \A n \in 1..4 : IsText(Given(n))
      /\ IsList(Given(5))
  BY DEF WellFormed
<1>2. IsText(Key) /\ (i < 4 => IsText(Value))
  BY <1>1, PairFacts
<1>3. Key.value = "mailboxes" => IsList(Value)
  <2>1. Key.value = "mailboxes" => i + 1 = 5
    BY SlotsDiffer, PairFacts
  <2>2. QED
    BY <1>1, <2>1, PairFacts
<1>4. QED
  BY <1>2, <1>3 DEF PairInvalid

(* One iteration on a valid pair. *)
LEMMA PairStep ==
    ASSUME ParseInv, ParsePair, ~PairInvalid
    PROVE  ParseInv'
<1>1. /\ args \in Seq(Arg) /\ i \in 0..4 /\ EnoughArgs /\ i + 1 \in 1..5
      /\ i' = i + 1 /\ UNCHANGED <<args, outcome>> /\ outcome = "running"
      /\ fields' = IF Key.value \in Keys THEN [fields EXCEPT ![Key.value] = ArgVal]
                   ELSE IF Key.value = "mailboxes"
                   THEN [fields EXCEPT !["mailboxes"] = Value.value]
                   ELSE fields
  BY DEF ParseInv, ParseTypeOK, ParsePair, Pairs
<1> DEFINE k == Slot(i + 1)
<1>2. /\ Key.value = k /\ IsText(args[2 * (i + 1) - 1])
      /\ i < 4 => IsText(Given(i + 1))
      /\ k = "mailboxes" => IsList(Given(i + 1))
      /\ Value = Given(i + 1) /\ Value \in Arg
  BY <1>1, PairFacts DEF PairInvalid
<1>3. /\ ArgVal = (IF i < 4 THEN Given(i + 1).value ELSE NULL)
      /\ ArgVal \in Texts \cup {NULL}
  BY <1>2, ArgFacts DEF ArgVal
<1>4. "mailboxes" \notin Keys
  BY DEF Keys
<1> HIDE DEF k
<1>5. /\ DOMAIN fields' = Keys \cup {"mailboxes"}
      /\ \A key \in Keys : fields'[key] = IF key = k THEN ArgVal ELSE fields[key]
      /\ fields'["mailboxes"] = IF k = "mailboxes" THEN Given(i + 1).value
                                                   ELSE fields["mailboxes"]
  BY <1>1, <1>2, <1>4 DEF ParseInv, ParseTypeOK
<1>6. ParseTypeOK'
  <2>1. k = "mailboxes" => Given(i + 1).value \in Lists
    BY <1>2, ArgFacts
  <2>2. QED
    BY <1>1, <1>3, <1>5, <2>1 DEF ParseInv, ParseTypeOK, Pairs
<1>7. PairsInv'
  <2>1. EnoughArgs' /\ (WellFormed' <=> WellFormed)
        /\ \A n : Slot(n)' = Slot(n) /\ Given(n)' = Given(n)
    BY <1>1 DEF EnoughArgs, Counted, WellFormed, Slot, Given
  <2>2. \A n \in 1..i' : n \in 1..i \/ n = i + 1
    BY <1>1
  <2>3. \A n \in 1..i' : IsText(args'[2 * n - 1]) /\ (n <= 4 => IsText(Given(n)'))
    BY <1>1, <1>2, <2>1, <2>2 DEF ParseInv, PairsInv
  <2>4. \A n \in 1..i' : Slot(n)' = "mailboxes" => IsList(Given(n)')
    BY <1>2, <2>1, <2>2 DEF ParseInv, PairsInv, k
  <2>5. ASSUME NEW key \in Keys, fields'[key] # NULL
        PROVE  \E n \in 1..i' : /\ n <= 4 /\ Slot(n)' = key
                                /\ fields'[key] = Given(n)'.value
    <3>1. CASE key = k
      <4>1. i + 1 \in 1..i' /\ i + 1 <= 4 /\ fields'[key] = Given(i + 1).value
        BY <1>1, <1>3, <1>5, <2>5, <3>1
      <4>2. QED
        BY <2>1, <3>1, <4>1 DEF k
    <3>2. CASE key # k
      <4>1. PICK n \in 1..i : n <= 4 /\ Slot(n) = key /\ fields[key] = Given(n).value
        BY <1>5, <2>5, <3>2 DEF ParseInv, PairsInv
      <4>2. n \in 1..i'
        BY <1>1
      <4>3. QED
        BY <1>5, <2>1, <3>2, <4>1, <4>2
    <3>3. QED
      BY <3>1, <3>2
  <2>6. fields'["mailboxes"] # NULL => \E n \in 1..i' : Slot(n)' = "mailboxes"
    <3>1. CASE k = "mailboxes"
      BY <1>1, <2>1, <3>1 DEF k
    <3>2. CASE k # "mailboxes"
      BY <1>1, <1>5, <2>1, <3>2 DEF ParseInv, PairsInv
    <3>3. QED
      BY <3>1, <3>2
  <2>7. ASSUME WellFormed, NEW n \in 1..i'
        PROVE  fields'[Slot(n)] = Given(n).value
    <3>1. /\ \A m \in 1..4 : Slot(m) \in Keys
          /\ Slot(5) = "mailboxes"
          /\ \A l, m \in 1..5 : Slot(l) = Slot(m) => l = m
      BY <2>7, SlotsDiffer
    <3>2. CASE n = i + 1
      BY <1>1, <1>3, <1>4, <1>5, <3>1, <3>2 DEF k
    <3>3. CASE n \in 1..i
      <4>1. n \in 1..5 /\ n # i + 1 /\ Slot(n) # k /\ n \in 1..4
        BY <1>1, <3>1, <3>3 DEF k
      <4>2. fields'[Slot(n)] = fields[Slot(n)]
        BY <1>5, <3>1, <4>1
      <4>3. QED
        BY <2>7, <3>3, <4>2 DEF ParseInv, PairsInv
    <3>4. QED
      BY <2>2, <3>2, <3>3
  <2>8. QED
    BY <2>1, <2>3, <2>4, <2>5, <2>6, <2>7 DEF PairsInv
<1>8. AcceptsWellFormed'
  BY <1>1 DEF AcceptsWellFormed
<1>9. QED
  BY <1>6, <1>7, <1>8 DEF ParseInv

(* After the loop: a well-formed command passes the checks ... *)
LEMMA WellFormedPasses ==
    ASSUME ParseInv, i = 5, WellFormed
    PROVE  /\ fields["aps-version"] = "2"
           /\ \A key \in Keys : ~Missing(key)
           /\ ~MissingMailboxes
           /\ \A n \in 1..5 : fields[Slot(n)] = Given(n).value
<1>1. \A n \in 1..5 : fields[Slot(n)] = Given(n).value
  BY DEF ParseInv, PairsInv
<1>2. args \in Seq(Arg) /\ Len(args) >= 10
  BY DEF WellFormed, ParseInv, ParseTypeOK
<1>3. ASSUME NEW key \in Keys
      PROVE  ~Missing(key) /\ (key = "aps-version" => fields[key] = "2")
  <2>1. PICK n \in 1..4 : Slot(n) = key
    BY SlotsDiffer
  <2>2. IsText(Given(n)) /\ Given(n).value # "" /\ (key = "aps-version" => Given(n).value = "2")
    BY <2>1 DEF WellFormed
  <2>3. n \in 1..5
    OBVIOUS
  <2>4. Given(n) \in Arg
    BY <1>2, <2>3, CountFacts
  <2>5. Given(n).value # NULL
    BY <2>2, <2>4, ArgFacts
  <2>6. fields[key] = Given(n).value
    BY <1>1, <2>1, <2>3
  <2>7. QED
    BY <2>2, <2>5, <2>6 DEF Missing
<1>4. ~MissingMailboxes
  <2>1. Slot(5) = "mailboxes" /\ IsList(Given(5))
    BY DEF WellFormed
  <2>2. 5 \in 1..5
    OBVIOUS
  <2>3. Given(5) \in Arg
    BY <1>2, <2>2, CountFacts
  <2>4. Given(5).value # NULL
    BY <2>1, <2>3, ArgFacts
  <2>5. QED
    BY <1>1, <2>1, <2>2, <2>4 DEF MissingMailboxes
<1>5. QED
  BY <1>1, <1>3, <1>4 DEF Keys

(* ... and no other command does: each of the four fields was set by one   *)
(* of the first four pairs, which leaves the fifth for the mailboxes.      *)
LEMMA PassesOnlyWellFormed ==
    ASSUME ParseInv, i = 5, fields["aps-version"] = "2",
           \A key \in Keys : ~Missing(key), ~MissingMailboxes
    PROVE  WellFormed
<1>1. /\ Len(args) >= 10 /\ args \in Seq(Arg)
      /\ \A n \in 1..5 : IsText(args[2 * n - 1]) /\ (n <= 4 => IsText(Given(n)))
      /\ \A n \in 1..5 : Slot(n) = "mailboxes" => IsList(Given(n))
  <2>1. args \in Seq(Arg)
    BY DEF ParseInv, ParseTypeOK
  <2>2. EnoughArgs
    BY DEF ParseInv, PairsInv
  <2>3. Len(args) >= 10
    BY <2>1, <2>2, CountFacts
  <2>4. \A n \in 1..5 : IsText(args[2 * n - 1]) /\ (n <= 4 => IsText(Given(n)))
    BY DEF ParseInv, PairsInv
  <2>5. \A n \in 1..5 : Slot(n) = "mailboxes" => IsList(Given(n))
    BY DEF ParseInv, PairsInv
  <2>6. QED
    BY <2>1, <2>3, <2>4, <2>5
<1>2. \A key \in Keys :
        /\ fields[key] # NULL /\ fields[key] # ""
        /\ \E n \in 1..4 : Slot(n) = key /\ fields[key] = Given(n).value
  <2> SUFFICES ASSUME NEW key \in Keys
               PROVE  /\ fields[key] # NULL /\ fields[key] # ""
                      /\ \E n \in 1..4 : Slot(n) = key /\ fields[key] = Given(n).value
    OBVIOUS
  <2>1. fields[key] # NULL /\ fields[key] # ""
    BY DEF Missing
  <2>2. PICK n \in 1..i : n <= 4 /\ Slot(n) = key /\ fields[key] = Given(n).value
    BY <2>1 DEF ParseInv, PairsInv
  <2>3. n \in 1..4
    BY <2>2
  <2>4. QED
    BY <2>1, <2>2, <2>3
<1>3. PICK a, b, c, d \in 1..4 :
        /\ Slot(a) = "aps-version" /\ Given(a).value = "2"
        /\ Slot(b) = "aps-account-id" /\ Given(b).value # ""
        /\ Slot(c) = "aps-device-token" /\ Given(c).value # ""
        /\ Slot(d) = "aps-subtopic" /\ Given(d).value # ""
  <2>1. \A key \in Keys : \E n \in 1..4 : /\ Slot(n) = key /\ Given(n).value # ""
                                           /\ fields[key] = Given(n).value
    BY <1>2
  <2>2. /\ "aps-version" \in Keys /\ "aps-account-id" \in Keys
        /\ "aps-device-token" \in Keys /\ "aps-subtopic" \in Keys
    BY DEF Keys
  <2>3. PICK a \in 1..4 : Slot(a) = "aps-version" /\ Given(a).value = "2"
    BY <2>1, <2>2
  <2>4. PICK b \in 1..4 : Slot(b) = "aps-account-id" /\ Given(b).value # ""
    BY <2>1, <2>2
  <2>5. PICK c \in 1..4 : Slot(c) = "aps-device-token" /\ Given(c).value # ""
    BY <2>1, <2>2
  <2>6. PICK d \in 1..4 : Slot(d) = "aps-subtopic" /\ Given(d).value # ""
    BY <2>1, <2>2
  <2>7. QED
    BY <2>3, <2>4, <2>5, <2>6
<1>4. a # b /\ a # c /\ a # d /\ b # c /\ b # d /\ c # d
  BY <1>3
<1>5. \A n \in 1..4 : n \in {a, b, c, d}
  BY <1>4
<1>6. {Slot(n) : n \in 1..4} = Keys
  BY <1>3, <1>5 DEF Keys
<1>7. \A n \in 1..4 : Given(n).value # "" /\ (Slot(n) = "aps-version" => Given(n).value = "2")
  BY <1>3, <1>5
<1>8. Slot(5) = "mailboxes"
  <2>1. PICK n \in 1..5 : Slot(n) = "mailboxes"
    BY DEF ParseInv, PairsInv, MissingMailboxes
  <2>2. n \notin 1..4
    BY <1>3, <1>5, <2>1
  <2>3. QED
    BY <2>1, <2>2
<1>9. \A n \in 1..4 : IsText(Given(n)) /\ n \in 1..5
  BY <1>1
<1>10. IsList(Given(5))
  BY <1>1, <1>8
<1>11. QED
  BY <1>1, <1>6, <1>7, <1>8, <1>9, <1>10 DEF WellFormed

(* A command that is stopped stays as it is. *)
LEMMA StopStep ==
    ASSUME ParseInv, NEW message, Stop(message),
           message \in {"accepted", "Invalid arguments.", "Unknown aps-version.",
                        "mailboxes"} \cup Keys,
           IF WellFormed
           THEN message = "accepted" /\ \A n \in 1..5 : fields[Slot(n)] = Given(n).value
           ELSE message # "accepted"
    PROVE  ParseInv'
<1>1. UNCHANGED <<args, i, fields>> /\ outcome' = message
  BY DEF Stop
<1>2. ParseTypeOK'
  BY <1>1 DEF ParseInv, ParseTypeOK
<1>3. (WellFormed' <=> WellFormed) /\ \A n : Slot(n)' = Slot(n) /\ Given(n)' = Given(n)
  BY <1>1 DEF WellFormed, Slot, Given
<1>4. PairsInv'
  BY <1>1, <1>3 DEF ParseInv, PairsInv, EnoughArgs, Counted
<1>5. AcceptsWellFormed'
  BY <1>1, <1>3 DEF AcceptsWellFormed
<1>6. QED
  BY <1>2, <1>4, <1>5 DEF ParseInv

LEMMA ValidateStep ==
    ASSUME ParseInv, Validate
    PROVE  ParseInv'
<1>1. i = 5
  BY DEF Validate, Pairs
<1> DEFINE ok == /\ fields["aps-version"] = "2"
                 /\ \A key \in Keys : ~Missing(key)
                 /\ ~MissingMailboxes
<1>2. PICK message \in {"accepted", "Unknown aps-version.", "mailboxes"} \cup Keys :
        Stop(message) /\ (message = "accepted" <=> ok)
  <2>1. \A key \in Keys : key \in {"aps-version", "aps-account-id",
                                   "aps-device-token", "aps-subtopic"}
    BY DEF Keys
  <2>2. fields["aps-version"] = "2" => ~Missing("aps-version")
    BY ParseAssumption DEF Missing
  <2>3. CASE fields["aps-version"] # "2"
    <3>1. Stop("Unknown aps-version.") /\ ~ok
      BY <2>3 DEF Validate
    <3>2. "Unknown aps-version." # "accepted"
      OBVIOUS
    <3>3. "Unknown aps-version." \in {"accepted", "Unknown aps-version.", "mailboxes"} \cup Keys
      OBVIOUS
    <3> HIDE DEF ok
    <3>4. QED
      BY <3>1, <3>2, <3>3, Zenon
  <2>4. ASSUME NEW key \in Keys, Missing(key), Stop(key)
        PROVE  \E message \in {"accepted", "Unknown aps-version.", "mailboxes"} \cup Keys :
                 Stop(message) /\ (message = "accepted" <=> ok)
    <3>1. key # "accepted" /\ ~ok
      BY <2>4 DEF Keys
    <3>2. QED
      BY <2>4, <3>1
  <2>5. CASE MissingMailboxes /\ Stop("mailboxes")
    <3>1. "mailboxes" # "accepted" /\ ~ok
      BY <2>5
    <3>2. "mailboxes" \in {"accepted", "Unknown aps-version.", "mailboxes"} \cup Keys
      OBVIOUS
    <3> HIDE DEF ok
    <3>3. QED
      BY <2>5, <3>1, <3>2, Zenon
  <2>6. CASE ok /\ Stop("accepted")
    BY <2>6
  <2>7. \/ fields["aps-version"] # "2"
        \/ \E key \in Keys : Missing(key) /\ Stop(key)
        \/ MissingMailboxes /\ Stop("mailboxes")
        \/ ok /\ Stop("accepted")
    <3>1. /\ "aps-account-id" \in Keys /\ "aps-device-token" \in Keys
          /\ "aps-subtopic" \in Keys
      BY DEF Keys
    <3>2. CASE Missing("aps-account-id")
      BY <3>1, <3>2 DEF Validate
    <3>3. CASE ~Missing("aps-account-id") /\ Missing("aps-device-token")
      BY <3>1, <3>3 DEF Validate
    <3>4. CASE /\ ~Missing("aps-account-id") /\ ~Missing("aps-device-token")
               /\ Missing("aps-subtopic")
      BY <3>1, <3>4 DEF Validate
    <3>5. CASE /\ ~Missing("aps-account-id") /\ ~Missing("aps-device-token")
               /\ ~Missing("aps-subtopic")
      BY <2>1, <2>2, <3>5 DEF Validate
    <3>6. QED
      BY <3>2, <3>3, <3>4, <3>5
  <2>8. QED
    BY <2>3, <2>4, <2>5, <2>6, <2>7
<1>3. WellFormed => ok /\ \A n \in 1..5 : fields[Slot(n)] = Given(n).value
  BY <1>1, WellFormedPasses
<1>4. ok => WellFormed
  BY <1>1, PassesOnlyWellFormed
<1>5. QED
  BY <1>2, <1>3, <1>4, StopStep

(* ParseInv holds between any two iterations.                              *)
THEOREM ParseInductive == Spec => []ParseInv
<1>1. Init => ParseInv
  <2> SUFFICES ASSUME Init
               PROVE  ParseInv
    OBVIOUS
  <2>1. /\ args \in Seq(Arg) /\ i = 0 /\ outcome = "running"
        /\ DOMAIN fields = Keys \cup {"mailboxes"}
        /\ \A key \in Keys \cup {"mailboxes"} : fields[key] = NULL
    BY ParseAssumption DEF Init
  <2>2. ParseTypeOK
    BY <2>1 DEF ParseTypeOK, Pairs
  <2>3. \A n \in 1..i : FALSE
    BY <2>1
  <2>4. PairsInv
    BY <2>1, <2>3 DEF PairsInv
  <2>5. AcceptsWellFormed
    BY <2>1 DEF AcceptsWellFormed
  <2>6. QED
    BY <2>2, <2>4, <2>5 DEF ParseInv
<1>2. ParseInv /\ [Next]_vars => ParseInv'
  <2> SUFFICES ASSUME ParseInv, [Next]_vars
               PROVE  ParseInv'
    OBVIOUS
  <2>1. CASE CountArgs
    <3>1. Stop("Invalid arguments.") /\ ~EnoughArgs
      BY <2>1 DEF CountArgs
    <3>2. ~WellFormed
      BY <3>1, CountFacts DEF WellFormed, ParseInv, ParseTypeOK
    <3>3. QED
      BY <3>1, <3>2, StopStep
  <2>2. CASE ParsePair /\ PairInvalid
    <3>0. i \in 0..4
      <4>1. i \in 0..Pairs /\ i < Pairs
        BY <2>2 DEF ParsePair, ParseInv, ParseTypeOK
      <4>2. QED
        BY <4>1 DEF Pairs
    <3>1. Stop("Invalid arguments.") /\ EnoughArgs /\ i \in 0..4 /\ args \in Seq(Arg)
      BY <2>2, <3>0 DEF ParsePair, ParseInv, ParseTypeOK
    <3>2. ~WellFormed
      BY <2>2, <3>1, InvalidPair
    <3>3. QED
      BY <3>1, <3>2, StopStep
  <2>3. CASE ParsePair /\ ~PairInvalid
    BY <2>3, PairStep
  <2>4. CASE Validate
    BY <2>4, ValidateStep
  <2>5. CASE UNCHANGED vars
    <3>1. UNCHANGED <<args, i, fields, outcome>>
      BY <2>5 DEF vars
    <3>2. ParseTypeOK'
      BY <3>1 DEF ParseInv, ParseTypeOK
    <3>3. (WellFormed' <=> WellFormed) /\ \A n : Slot(n)' = Slot(n) /\ Given(n)' = Given(n)
      BY <3>1 DEF WellFormed, Slot, Given
    <3>4. PairsInv'
      BY <3>1, <3>3 DEF ParseInv, PairsInv, EnoughArgs, Counted
    <3>5. AcceptsWellFormed'
      BY <3>1, <3>3 DEF ParseInv, AcceptsWellFormed
    <3>6. QED
      BY <3>2, <3>4, <3>5 DEF ParseInv
  <2>6. QED
    BY <2>1, <2>2, <2>3, <2>4, <2>5 DEF Next
<1>3. QED
  BY <1>1, <1>2, PTL DEF Spec

(* The fields have the types of struct xaps_attr.                          *)
THEOREM ParseTypeCorrect == Spec => []ParseTypeOK
<1>1. ParseInv => ParseTypeOK
  BY DEF ParseInv
<1>2. QED
  BY <1>1, ParseInductive, PTL

(* Exactly the well-formed commands are accepted, with their values.       *)
THEOREM ParserExact == Spec => []AcceptsWellFormed
<1>1. ParseInv => AcceptsWellFormed
  BY DEF ParseInv
<1>2. QED
  BY <1>1, ParseInductive, PTL

(* The loop reads no argument behind the end of the list.                  *)
THEOREM ParserStaysInArgs == Spec => []StaysInArgs
<1>1. ParseInv => StaysInArgs
  <2> SUFFICES ASSUME ParseInv, EnoughArgs, i < Pairs
               PROVE  2 * i + 2 <= Len(args)
    BY DEF StaysInArgs
  <2>0. i \in 0..4
    <3>1. i \in 0..Pairs
      BY DEF ParseInv, ParseTypeOK
    <3>2. QED
      BY <3>1 DEF Pairs
  <2>1. args \in Seq(Arg)
    BY DEF ParseInv, ParseTypeOK
  <2>2. Len(args) >= 10
    BY <2>1, CountFacts
  <2>3. QED
    BY <2>0, <2>1, <2>2
<1>2. QED
  BY <1>1, ParseInductive, PTL

(* A key in the fifth slot takes no value, stale or unparsed.              *)
THEOREM FifthIsReset == Spec => []FifthValueIsReset
<1>1. Init => FifthValueIsReset
  BY DEF Init, FifthValueIsReset, Pairs
<1>2. ParseInv /\ FifthValueIsReset /\ [Next]_vars => FifthValueIsReset'
  <2> SUFFICES ASSUME ParseInv, FifthValueIsReset, [Next]_vars, i' = Pairs, Slot(5)' \in Keys
               PROVE  fields'[Slot(5)'] = NULL
    BY DEF FifthValueIsReset
  <2>1. CASE ParsePair /\ ~PairInvalid
    <3>1. /\ EnoughArgs /\ i' = i + 1 /\ UNCHANGED args /\ i \in 0..Pairs
          /\ DOMAIN fields = Keys \cup {"mailboxes"} /\ args \in Seq(Arg)
      BY <2>1 DEF ParsePair, ParseInv, ParseTypeOK
    <3>2. i = 4
      BY <3>1 DEF Pairs
    <3>3. 9 <= Len(args)
      BY <3>1, CountFacts
    <3>4. Slot(5)' = args[9].value
      BY <3>1 DEF Slot
    <3>5. Key = args[9]
      BY <3>2, <3>3 DEF Key, ArgAt
    <3>6. fields' = [fields EXCEPT ![Key.value] = ArgVal]
      BY <2>1, <3>4, <3>5 DEF ParsePair
    <3>7. ArgVal = NULL
      BY <3>2 DEF ArgVal
    <3>8. QED
      BY <3>1, <3>4, <3>5, <3>6, <3>7
  <2>2. CASE ~(ParsePair /\ ~PairInvalid)
    <3>1. UNCHANGED <<args, i, fields>>
      BY <2>2 DEF Next, CountArgs, ParsePair, Validate, Stop, vars
    <3>2. QED
      BY <3>1 DEF FifthValueIsReset, Slot
  <2>3. QED
    BY <2>1, <2>2
<1>3. QED
  BY <1>1, <1>2, ParseInductive, PTL DEF Spec

=============================================================================
