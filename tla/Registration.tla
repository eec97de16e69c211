---------------------------- MODULE Registration ----------------------------
(***************************************************************************)
(* What XAPPLEPUSHSERVICE promises an IMAP client, without the shared      *)
(* record, the HTTP client and the other users: the command is refused on  *)
(* the spot, or it is put to the daemon and, once the daemon has decided,  *)
(* answered with that decision.                                            *)
(***************************************************************************)
CONSTANTS Topics, REFUSED, NULL

VARIABLES
    asked,     \* a command is waiting for its answer
    decision,  \* the daemon's decision on the last command: a topic or REFUSED
    reply      \* the tagged reply to the last command: a topic or REFUSED

vars == <<asked, decision, reply>>

Init == asked = FALSE /\ decision = NULL /\ reply = NULL

(* Arguments refused, plugin not configured. *)
Refuse == /\ ~asked
          /\ decision' = NULL /\ reply' = REFUSED
          /\ UNCHANGED asked

Ask == /\ ~asked
       /\ asked' = TRUE
       /\ decision' = NULL /\ reply' = NULL

Decide == /\ asked /\ decision = NULL
          /\ decision' \in Topics \cup {REFUSED}
          /\ UNCHANGED <<asked, reply>>

Answer == /\ asked /\ decision # NULL
          /\ asked' = FALSE
          /\ reply' = decision
          /\ UNCHANGED decision

Next == Refuse \/ Ask \/ Decide \/ Answer

Spec == Init /\ [][Next]_vars /\ WF_vars(Decide) /\ WF_vars(Answer)

=============================================================================
