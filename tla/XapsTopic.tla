------------------------------ MODULE XapsTopic ------------------------------
(***************************************************************************)
(* xaps_payload_str(): the loop of xaps_register_callback() that reads the *)
(* daemon's response from a stream while its bytes are still arriving.     *)
(*                                                                         *)
(* The stream belongs to Dovecot.  i_stream_read() adds some of the bytes  *)
(* that have arrived to the stream's buffer and returns their number; it   *)
(* returns -1 at the end or after an error, and 0 when there is nothing to *)
(* read yet, which a stream opened for blocking reads never does.          *)
(***************************************************************************)
EXTENDS Integers, Sequences

CONSTANTS
    Bytes,      \* values of one byte of the response
    Controls,   \* those below 0x20, and 0x7f
    MaxTopic,   \* XAPS_MAX_TOPIC_SIZE
    MaxBody,    \* bound: longest response
    NULL

ASSUME TopicAssumption ==
    /\ Controls \subseteq Bytes
    /\ MaxTopic \in Nat \ {0}
    /\ MaxBody \in Nat
    /\ NULL \notin Seq(Bytes)

Bodies == UNION {[1..n -> Bytes] : n \in 0..MaxBody}

VARIABLES
    body,     \* what the daemon sends
    blocking, \* a read of the stream never returns 0
    arrived,  \* how many bytes of it have arrived
    stream,   \* "open", or ended by "eof" or "error"
    skipped,  \* bytes the loop has taken: i_stream_skip()
    buffered, \* bytes in the stream's buffer, from skipped on
    str,      \* the short-lived buffer
    pc,       \* "outer", "inner": the two loops; "check": after them; "done"
    topic     \* the result, NULL for an error

vars == <<body, blocking, arrived, stream, skipped, buffered, str, pc, topic>>

-----------------------------------------------------------------------------
(* The network: more bytes, the end of the body, or a broken connection.   *)
Arrive == /\ stream = "open"
          /\ arrived' \in (arrived + 1)..Len(body)
          /\ UNCHANGED <<body, blocking, stream, skipped, buffered, str, pc, topic>>

Close == /\ stream = "open"
         /\ stream' \in (IF arrived = Len(body) THEN {"eof", "error"} ELSE {"error"})
         /\ UNCHANGED <<body, blocking, arrived, skipped, buffered, str, pc, topic>>

(* i_stream_read(): more bytes in the buffer, nothing yet, or the end.     *)
Unread == arrived - skipped - buffered
ReadMore == Unread > 0 /\ buffered' \in (buffered + 1)..(buffered + Unread)
ReadNothing == Unread = 0 /\ stream = "open" /\ ~blocking
ReadEnd == Unread = 0 /\ stream # "open"

(* while ((ret = i_stream_read(payload)) > 0) *)
OuterRead ==
    /\ pc = "outer"
    /\ \/ ReadMore /\ pc' = "inner"
       \/ (ReadNothing \/ ReadEnd) /\ pc' = "check" /\ UNCHANGED buffered
    /\ UNCHANGED <<body, blocking, arrived, stream, skipped, str, topic>>

Data == SubSeq(body, skipped + 1, skipped + buffered)

(* xaps_payload_chunk_is_safe() *)
IsSafe(data) == \A i \in DOMAIN data : data[i] \notin Controls

(* The mutant compares each chunk alone with the limit. *)
ChunkFits(data) == Len(data) <= MaxTopic

Fits(data) == Len(str) + Len(data) <= MaxTopic

(* i_stream_skip(); the mutants also skip the NUL they suppose, or nothing. *)
SkipsTerminator == skipped' = skipped + buffered + 1 /\ buffered' = 0
ForgetsSkip == UNCHANGED <<skipped, buffered>>
Skip == skipped' = skipped + buffered /\ buffered' = 0

Fail == /\ topic' = NULL
        /\ pc' = "done"

(* The body of the inner loop, for a chunk that i_stream_read_data() found *)
(* in the buffer.                                                          *)
TakeChunk ==
    /\ pc = "inner" /\ buffered > 0
    /\ IF Fits(Data) /\ IsSafe(Data)
       THEN /\ str' = str \o Data
            /\ Skip
            /\ UNCHANGED <<pc, topic>>
       ELSE Fail /\ UNCHANGED <<str, skipped, buffered>>
    /\ UNCHANGED <<body, blocking, arrived, stream>>

(* i_stream_read_data() with an empty buffer reads from the stream itself. *)
InnerRead ==
    /\ pc = "inner" /\ buffered = 0
    /\ \/ ReadMore /\ UNCHANGED pc
       \/ (ReadNothing \/ ReadEnd) /\ pc' = "outer" /\ UNCHANGED buffered
    /\ UNCHANGED <<body, blocking, arrived, stream, skipped, str, topic>>

(* The mutant does not look at stream_errno. *)
IgnoresStreamError == FALSE
StreamFailed == stream = "error"

(* The checks after the loops. *)
Check ==
    /\ pc = "check"
    /\ IF StreamFailed \/ str = <<>> THEN Fail
       ELSE topic' = str /\ pc' = "done"
    /\ UNCHANGED <<body, blocking, arrived, stream, skipped, buffered, str>>

-----------------------------------------------------------------------------
(* The callback may run with any part of the body already there. *)
Init ==
    /\ body \in Bodies
    /\ blocking \in BOOLEAN
    /\ arrived \in 0..Len(body)
    /\ stream = "open"
    /\ skipped = 0
    /\ buffered = 0
    /\ str = <<>>
    /\ pc = "outer"
    /\ topic = NULL

Next == Arrive \/ Close \/ OuterRead \/ TakeChunk \/ InnerRead \/ Check

Spec == Init /\ [][Next]_vars

-----------------------------------------------------------------------------
TopicTypeOK ==
    /\ body \in Bodies
    /\ blocking \in BOOLEAN
    /\ arrived \in 0..Len(body)
    /\ stream \in {"open", "eof", "error"}
    /\ skipped \in 0..arrived
    /\ buffered \in 0..(arrived - skipped)
    /\ str \in Seq(Bytes)
    /\ pc \in {"outer", "inner", "check", "done"}
    /\ topic \in Seq(Bytes) \cup {NULL}

(* Whatever the daemon sends and however it is cut into chunks, a topic    *)
(* is not empty, not longer than XAPS_MAX_TOPIC_SIZE in all, and has no    *)
(* byte that could end an IMAP response line.                              *)
TopicIsSafe ==
    topic # NULL => /\ Len(topic) \in 1..MaxTopic
                    /\ IsSafe(topic)

(* What xaps_payload_str() is for: the response as a whole, if it is a     *)
(* legal topic and was received without an error.                          *)
Expected == IF /\ stream = "eof"
               /\ Len(body) \in 1..MaxTopic
               /\ \A i \in DOMAIN body : body[i] \notin Controls
            THEN body ELSE NULL

(* With blocking reads the result is the daemon's response, complete, or   *)
(* an error: never a part of it, and never an error for a legal response   *)
(* that was received ("copy the response payload", the comment over        *)
(* xaps_payload_str()).                                                    *)
TopicIsWhole == pc = "done" /\ blocking => topic = Expected

(* However the loops find it cut into chunks, what they return could have  *)
(* been read and judged at once: some first part of the response, all of   *)
(* it if reads block, and never bytes in another order or twice.           *)
AtOnce == INSTANCE Payload WITH done <- pc = "done"
ReadsAtOnce == AtOnce!Spec

(* The short-lived buffer holds "the response payload" when it is          *)
(* validated and copied: a topic is never a part of the response (comment  *)
(* over xaps_payload_str()).                                               *)
TopicIsNotCut == topic # NULL => topic = body

=============================================================================
