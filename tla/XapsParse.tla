------------------------------ MODULE XapsParse ------------------------------
(***************************************************************************)
(* parse_xapplepush(): from the arguments of XAPPLEPUSHSERVICE to the      *)
(* fields of struct xaps_attr, one iteration of its loop at a time.        *)
(***************************************************************************)
EXTENDS Integers, Sequences

CONSTANTS
    Commands,   \* argument sequences a client sends (see Arg)
    Texts,      \* argument texts
    Lists,      \* parenthesised lists
    NoMailbox,  \* the list without elements
    NULL

(* The keys are compared without regard to case; "no_key" is any text that *)
(* is none of them.  An argument that is neither a text nor a list is NIL. *)
Keys == {"aps-version", "aps-account-id", "aps-device-token", "aps-subtopic"}
Arg == [kind: {"text"}, value: Texts] \cup [kind: {"list"}, value: Lists]
          \cup [kind: {"nil"}, value: {NULL}]

ASSUME ParseAssumption ==
    /\ Keys \cup {"mailboxes", "2", ""} \subseteq Texts
    /\ NoMailbox \in Lists
    /\ NULL \notin Texts \cup Lists
    /\ Commands \subseteq Seq(Arg)

VARIABLES
    args,     \* the command's arguments
    i,        \* the loop's counter; 5: after the loop
    fields,   \* struct xaps_attr: the four aps-* values and the mailbox list
    outcome   \* "running", "accepted", or the error message sent

vars == <<args, i, fields, outcome>>

MaxCounted == 12
Pairs == 5

IsText(arg) == arg.kind = "text"
IsList(arg) == arg.kind = "list"

(* nargs, as the bounded scan for the end of the list counts it.           *)
Counted == IF Len(args) < MaxCounted THEN Len(args) ELSE MaxCounted

(* The mutant is off by one. *)
NineEnough == Counted >= 9

EnoughArgs == Counted >= 10

(* args[n], which is the end-of-list marker behind the last argument.      *)
EndOfList == [kind |-> "eol", value |-> NULL]
ArgAt(n) == IF n <= Len(args) THEN args[n] ELSE EndOfList
Key == ArgAt(2 * i + 1)
Value == ArgAt(2 * i + 2)

(* The mutants take the fifth value for a text, whatever it is, and leave  *)
(* the value of the fourth iteration in the fifth.                         *)
AnyValue == Value.value
StaleValue == IF i < 4 THEN Value.value ELSE ArgAt(2 * i).value

(* arg_val: parsed in the first four iterations, reset in the fifth.       *)
ArgVal == IF i < 4 THEN Value.value ELSE NULL

Stop(message) == outcome' = message /\ UNCHANGED <<args, i, fields>>

(* Before the loop.                                                        *)
CountArgs ==
    /\ outcome = "running" /\ i = 0 /\ ~EnoughArgs
    /\ Stop("Invalid arguments.")

(* One iteration.                                                          *)
PairInvalid ==
    \/ ~IsText(Key)
    \/ i < 4 /\ ~IsText(Value)
    \/ Key.value = "mailboxes" /\ ~IsList(Value)

ParsePair ==
    /\ outcome = "running" /\ EnoughArgs /\ i < Pairs
    /\ IF PairInvalid THEN Stop("Invalid arguments.")
       ELSE /\ fields' =
                 IF Key.value \in Keys THEN [fields EXCEPT ![Key.value] = ArgVal]
                 ELSE IF Key.value = "mailboxes"
                 THEN [fields EXCEPT !["mailboxes"] = Value.value]
                 ELSE fields
            /\ i' = i + 1
            /\ UNCHANGED <<args, outcome>>

(* The mutant lets empty values pass. *)
NullOnly(key) == fields[key] = NULL

Missing(key) == fields[key] \in {NULL, ""}
MissingMailboxes == fields["mailboxes"] = NULL

(* The checks after the loop, in their order.                              *)
Validate ==
    /\ outcome = "running" /\ i = Pairs
    /\ Stop(IF fields["aps-version"] # "2" THEN "Unknown aps-version."
            ELSE IF Missing("aps-account-id") THEN "aps-account-id"
            ELSE IF Missing("aps-device-token") THEN "aps-device-token"
            ELSE IF Missing("aps-subtopic") THEN "aps-subtopic"
            ELSE IF MissingMailboxes THEN "mailboxes"
            ELSE "accepted")

Init == /\ args \in Commands
        /\ i = 0
        /\ fields = [key \in Keys \cup {"mailboxes"} |-> NULL]
        /\ outcome = "running"

Next == CountArgs \/ ParsePair \/ Validate

Spec == Init /\ [][Next]_vars

-----------------------------------------------------------------------------
ParseTypeOK ==
    /\ args \in Seq(Arg)
    /\ i \in 0..Pairs
    /\ DOMAIN fields = Keys \cup {"mailboxes"}
    /\ \A key \in Keys : fields[key] \in Texts \cup {NULL}
    /\ fields["mailboxes"] \in Lists \cup {NULL}
    /\ outcome \in {"running", "accepted", "Invalid arguments.",
                    "Unknown aps-version."} \cup Keys \cup {"mailboxes"}

(* The command the plugin understands: the four aps-* pairs in any order,  *)
(* each once, then "mailboxes" and its list; whatever follows is ignored.  *)
Slot(n) == args[2 * n - 1].value
Given(n) == args[2 * n]
WellFormed ==
    /\ Len(args) >= 10
    /\ \A n \in 1..5 : IsText(args[2 * n - 1])
    /\ {Slot(n) : n \in 1..4} = Keys /\ Slot(5) = "mailboxes"
    /\ \A n \in 1..4 : /\ IsText(Given(n)) /\ Given(n).value # ""
                       /\ Slot(n) = "aps-version" => Given(n).value = "2"
    /\ IsList(Given(5))

(* A command is accepted exactly if it is well formed, and then every      *)
(* field is the value given with its key, although the loop looks at one   *)
(* pair at a time and lets a later pair overwrite an earlier one.          *)
AcceptsWellFormed ==
    outcome # "running" =>
        IF WellFormed
        THEN /\ outcome = "accepted"
             /\ \A n \in 1..5 : fields[Slot(n)] = Given(n).value
        ELSE outcome # "accepted"

(* An aps-* key in the fifth slot, whose value is not parsed, leaves its   *)
(* field empty: neither the value of the iteration before nor one that an  *)
(* earlier pair gave it ("must not pick up a stale value").                *)
FifthValueIsReset == i = Pairs /\ Slot(5) \in Keys => fields[Slot(5)] = NULL

(* An empty mailboxes parameter is refused (the text of the last error).   *)
EmptyMailboxesRefused ==
    outcome = "accepted" => fields["mailboxes"] # NoMailbox

(* The loop never looks behind the end-of-list marker, however few        *)
(* arguments the client sent (the bounded count before the loop).          *)
StaysInArgs ==
    outcome = "running" /\ EnoughArgs /\ i < Pairs => 2 * i + 2 <= Len(args)

=============================================================================
