------------------------------ MODULE Payload ------------------------------
(***************************************************************************)
(* What reading the daemon's response amounts to, without the loops, the   *)
(* stream's buffer and the chunks: at one moment, some first part of the   *)
(* response is judged as a whole.  If reads block, it is judged as a legal *)
(* topic only when the stream has ended, and then it is all of it.         *)
(***************************************************************************)
EXTENDS Integers, Sequences

CONSTANTS Bytes, Controls, MaxTopic, MaxBody, NULL

VARIABLES
    body,      \* what the daemon sends
    blocking,  \* reads of the stream block
    arrived,   \* how many bytes of it have arrived
    stream,    \* "open", or ended by "eof" or "error"
    done,      \* the response has been judged
    topic      \* the result, NULL for an error

vars == <<body, blocking, arrived, stream, done, topic>>

-----------------------------------------------------------------------------
Arrive == /\ stream = "open"
          /\ arrived' \in (arrived + 1)..Len(body)
          /\ UNCHANGED <<body, blocking, stream, done, topic>>

Close == /\ stream = "open"
         /\ stream' \in (IF arrived = Len(body) THEN {"eof", "error"} ELSE {"error"})
         /\ UNCHANGED <<body, blocking, arrived, done, topic>>

Acceptable(n) == n <= MaxTopic /\ \A i \in 1..n : body[i] \notin Controls

Judge(result) ==
    /\ ~done /\ done' = TRUE
    /\ topic' = result
    /\ UNCHANGED <<body, blocking, arrived, stream>>

(* The first n bytes are too many, or have a control character. *)
Refuse(n) == /\ n \in 1..arrived /\ ~Acceptable(n)
             /\ Judge(NULL)

(* They are all there is, or all there is now. *)
Accept(n) ==
    /\ n \in 0..arrived /\ Acceptable(n)
    /\ blocking => stream # "open" /\ n = arrived
    /\ Judge(IF stream = "error" \/ n = 0 THEN NULL ELSE SubSeq(body, 1, n))

-----------------------------------------------------------------------------
Init ==
    /\ body \in UNION {[1..n -> Bytes] : n \in 0..MaxBody}
    /\ blocking \in BOOLEAN
    /\ arrived \in 0..Len(body)
    /\ stream = "open"
    /\ done = FALSE
    /\ topic = NULL

Next == Arrive \/ Close \/ \E n \in 0..arrived : Refuse(n) \/ Accept(n)

Spec == Init /\ [][Next]_vars

=============================================================================
