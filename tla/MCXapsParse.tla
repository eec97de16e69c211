----------------------------- MODULE MCXapsParse -----------------------------
(* Values of the constants of XapsParse for TLC. *)
EXTENDS XapsParse

CONSTANTS listA

Text(t) == [kind |-> "text", value |-> t]
List(l) == [kind |-> "list", value |-> l]
Nil == [kind |-> "nil", value |-> NULL]

McTexts == Keys \cup {"mailboxes", "no_key", "2", "", "x", "y"}
McLists == {listA, NoMailbox}

(* The pairs of a well-formed command, and one fault of every kind: a      *)
(* wrong version, an empty or a missing value, a value of the wrong kind,  *)
(* a repeated and an unknown key, a key that is not a text.                *)
GoodPairs == {<<Text(key), Text("x")>> : key \in Keys \ {"aps-version"}}
               \cup {<<Text("aps-version"), Text("2")>>,
                     <<Text("mailboxes"), List(listA)>>}
BadPairs == {<<Text("aps-version"), Text("x")>>,
             <<Text("aps-account-id"), Text("")>>,
             <<Text("aps-device-token"), Nil>>,
             <<Text("aps-subtopic"), Text("y")>>,
             <<Text("no_key"), Text("2")>>,
             <<Text("mailboxes"), List(NoMailbox)>>,
             <<Text("aps-subtopic"), List(listA)>>,
             <<List(listA), Text("2")>>}

(* Five good pairs in any order and with repetitions; the five of them     *)
(* with one replaced by a bad pair, cut off after fewer than ten           *)
(* arguments, or followed by up to three more.                             *)
Flat(p) == [m \in 1..10 |-> p[(m + 1) \div 2][IF m % 2 = 1 THEN 1 ELSE 2]]
Orders == {p \in [1..5 -> GoodPairs] : {p[n] : n \in 1..5} = GoodPairs}
McCommands ==
    {Flat(p) : p \in [1..5 -> GoodPairs]}
      \cup {Flat([p EXCEPT ![n] = q]) : p \in Orders, n \in 1..5, q \in BadPairs}
      \cup {SubSeq(Flat(p), 1, n) : p \in Orders, n \in 0..9}
      \cup {Flat(p) \o [m \in 1..n |-> Text("x")] : p \in Orders, n \in 1..3}

=============================================================================
