--------------------------- MODULE XapsTopicProofs ---------------------------
(***************************************************************************)
(* xaps_payload_str() returns a safe topic or none, and with blocking      *)
(* reads the whole response, for every size limit, every response and      *)
(* every way it arrives.                                                   *)
(***************************************************************************)
EXTENDS XapsTopic, TLAPS

(* The loop never lets more than the limit, or a control character, into   *)
(* the buffer; the position it reads from stays inside what has arrived.   *)
BufferInv ==
    /\ body \in Seq(Bytes)
    /\ arrived \in 0..Len(body)
    /\ skipped \in Nat /\ buffered \in Nat
    /\ skipped + buffered <= arrived
    /\ str \in Seq(Bytes) /\ Len(str) <= MaxTopic /\ IsSafe(str)
    /\ TopicIsSafe

LEMMA DataFacts ==
    ASSUME BufferInv
    PROVE  Data \in Seq(Bytes) /\ Len(Data) = buffered
BY DEF BufferInv, Data

LEMMA AppendIsSafe ==
    ASSUME NEW s \in Seq(Bytes), NEW t \in Seq(Bytes), IsSafe(s), IsSafe(t)
    PROVE  IsSafe(s \o t)
<1>1. ASSUME NEW n \in DOMAIN (s \o t)
      PROVE  (s \o t)[n] \notin Controls
  <2>1. CASE n <= Len(s)
    <3>1. (s \o t)[n] = s[n] /\ n \in DOMAIN s
      BY <1>1, <2>1
    <3>2. QED
      BY <3>1 DEF IsSafe
  <2>2. CASE n > Len(s)
    <3>1. (s \o t)[n] = t[n - Len(s)] /\ n - Len(s) \in DOMAIN t
      BY <1>1, <2>2
    <3>2. QED
      BY <3>1 DEF IsSafe
  <2>3. QED
    BY <1>1, <2>1, <2>2
<1>2. QED
  BY <1>1 DEF IsSafe

(* BufferInv holds in every reachable state. *)
THEOREM BufferInductive == Spec => []BufferInv
<1>1. Init => BufferInv
  <2> SUFFICES ASSUME Init
               PROVE  BufferInv
    OBVIOUS
  <2>1. body \in Seq(Bytes)
    BY DEF Init, Bodies
  <2>2. arrived \in 0..Len(body)
    BY DEF Init
  <2>3. str = <<>> /\ topic = NULL /\ skipped = 0 /\ buffered = 0
    BY DEF Init
  <2>4. Len(str) <= MaxTopic /\ IsSafe(str)
    BY <2>3, TopicAssumption DEF IsSafe
  <2>5. QED
    BY <2>1, <2>2, <2>3, <2>4 DEF BufferInv, TopicIsSafe
<1>2. BufferInv /\ [Next]_vars => BufferInv'
  <2> SUFFICES ASSUME BufferInv, [Next]_vars
               PROVE  BufferInv'
    OBVIOUS
  <2>1. CASE Arrive
    BY <2>1 DEF Arrive, BufferInv, IsSafe, TopicIsSafe
  <2>2. CASE Close
    BY <2>2 DEF Close, BufferInv, IsSafe, TopicIsSafe
  <2>3. CASE OuterRead \/ InnerRead
    <3>1. UNCHANGED <<body, arrived, skipped, str, topic>>
      BY <2>3 DEF OuterRead, InnerRead
    <3>2. buffered' \in Nat /\ skipped + buffered' <= arrived
      BY <2>3 DEF OuterRead, InnerRead, ReadMore, Unread, BufferInv
    <3>3. QED
      BY <3>1, <3>2 DEF BufferInv, IsSafe, TopicIsSafe
  <2>4. CASE TakeChunk
    <3>1. Data \in Seq(Bytes) /\ Len(Data) = buffered
      BY DataFacts
    <3>2. CASE Fits(Data) /\ IsSafe(Data)
      <4>1. str' = str \o Data /\ skipped' = skipped + buffered /\ buffered' = 0
            /\ UNCHANGED <<body, arrived, topic>>
        BY <2>4, <3>2 DEF TakeChunk, Skip
      <4>2. str' \in Seq(Bytes) /\ Len(str') <= MaxTopic
        <5>1. str \in Seq(Bytes) /\ Len(str) + Len(Data) <= MaxTopic
          BY <3>2 DEF Fits, BufferInv
        <5>2. str \o Data \in Seq(Bytes) /\ Len(str \o Data) = Len(str) + Len(Data)
          BY <3>1, <5>1
        <5>3. QED
          BY <4>1, <5>1, <5>2
      <4>3. IsSafe(str')
        BY <3>1, <3>2, <4>1, AppendIsSafe DEF BufferInv
      <4>4. QED
        BY <4>1, <4>2, <4>3 DEF BufferInv, IsSafe, TopicIsSafe
    <3>3. CASE ~(Fits(Data) /\ IsSafe(Data))
      BY <2>4, <3>3 DEF TakeChunk, Fail, BufferInv, IsSafe, TopicIsSafe
    <3>4. QED
      BY <3>2, <3>3
  <2>5. CASE Check
    <3>1. UNCHANGED <<body, arrived, skipped, buffered, str>>
      BY <2>5 DEF Check
    <3>2. topic' = NULL \/ (topic' = str /\ str # <<>>)
      BY <2>5 DEF Check, Fail
    <3>3. TopicIsSafe'
      <4>1. str # <<>> => Len(str) \in 1..MaxTopic
        BY TopicAssumption DEF BufferInv
      <4>2. QED
        BY <3>2, <4>1 DEF TopicIsSafe, BufferInv, IsSafe
    <3>4. QED
      BY <3>1, <3>3 DEF BufferInv, IsSafe
  <2>6. CASE UNCHANGED vars
    BY <2>6 DEF vars, BufferInv, IsSafe, TopicIsSafe
  <2>7. QED
    BY <2>1, <2>2, <2>3, <2>4, <2>5, <2>6 DEF Next
<1>3. QED
  BY <1>1, <1>2, PTL DEF Spec

(* A topic is not empty, not longer than the limit in all, and has no      *)
(* control character.                                                      *)
THEOREM TopicSafe == Spec => []TopicIsSafe
<1>1. BufferInv => TopicIsSafe
  BY DEF BufferInv
<1>2. QED
  BY <1>1, BufferInductive, PTL

-----------------------------------------------------------------------------
(* A response that is a legal topic. *)
Legal == Len(body) \in 1..MaxTopic /\ IsSafe(body)

(* The buffer is the part of the response that was skipped.  With blocking *)
(* reads the loops end only behind the last byte; the topic is then all of *)
(* the response, or there is a lasting reason for the error.               *)
WholeInv ==
    /\ stream \in {"open", "eof", "error"} /\ pc \in {"outer", "inner", "check", "done"}
    /\ blocking \in BOOLEAN
    /\ pc # "done" => Len(str) = skipped /\ \A i \in 1..skipped : str[i] = body[i]
    /\ stream = "eof" => arrived = Len(body)
    /\ pc = "outer" => buffered = 0
    /\ pc = "check" /\ blocking => stream # "open" /\ skipped = arrived
    /\ pc = "done" /\ blocking =>
          \/ topic = NULL /\ (stream = "error" \/ ~Legal)
          \/ topic = body /\ stream = "eof" /\ Legal

(* A chunk that is refused makes what was read with it unacceptable, ...   *)
LEMMA RefusedIsUnacceptable ==
    ASSUME BufferInv, WholeInv, pc = "inner", ~(Fits(Data) /\ IsSafe(Data))
    PROVE  ~AtOnce!Acceptable(skipped + buffered)
<1>1. /\ body \in Seq(Bytes) /\ Len(body) \in Nat /\ arrived \in 0..Len(body)
      /\ skipped \in Nat /\ buffered \in Nat /\ skipped + buffered <= arrived
  BY DEF BufferInv
<1>2. /\ Len(Data) = buffered /\ Len(str) = skipped
      /\ \A i \in 1..buffered : Data[i] = body[skipped + i]
  BY <1>1, DataFacts DEF WholeInv, Data
<1>3. CASE ~Fits(Data)
  BY <1>1, <1>2, <1>3, TopicAssumption DEF Fits, AtOnce!Acceptable
<1>4. CASE ~IsSafe(Data)
  <2>1. PICK i \in 1..buffered : Data[i] \in Controls
    BY <1>2, <1>4, DataFacts DEF IsSafe
  <2>2. skipped + i \in 1..(skipped + buffered) /\ body[skipped + i] \in Controls
    BY <1>1, <1>2, <2>1
  <2>3. QED
    BY <2>2 DEF AtOnce!Acceptable
<1>5. QED
  BY <1>3, <1>4

(* ... and so the response, whatever follows.                              *)
LEMMA RefusedIsIllegal ==
    ASSUME BufferInv, WholeInv, pc = "inner", ~(Fits(Data) /\ IsSafe(Data))
    PROVE  ~Legal
<1>1. /\ body \in Seq(Bytes) /\ Len(body) \in Nat /\ arrived \in 0..Len(body)
      /\ skipped \in Nat /\ buffered \in Nat /\ skipped + buffered <= arrived
  BY DEF BufferInv
<1>2. Legal => AtOnce!Acceptable(skipped + buffered)
  BY <1>1, TopicAssumption DEF Legal, IsSafe, AtOnce!Acceptable
<1>3. QED
  BY <1>2, RefusedIsUnacceptable

(* A chunk taken is the next part of the response.                         *)
LEMMA TakenIsNext ==
    ASSUME BufferInv, WholeInv, pc = "inner", str' = str \o Data,
           skipped' = skipped + buffered, UNCHANGED body
    PROVE  Len(str') = skipped' /\ \A i \in 1..skipped' : str'[i] = body'[i]
<1>1. /\ Data \in Seq(Bytes) /\ Len(Data) = buffered /\ str \in Seq(Bytes)
      /\ skipped \in Nat /\ buffered \in Nat
  BY DataFacts DEF BufferInv
<1>2. Len(str) = skipped /\ \A i \in 1..skipped : str[i] = body[i]
  BY DEF WholeInv
<1>3. \A i \in 1..buffered : Data[i] = body[skipped + i]
  BY <1>1 DEF BufferInv, Data
<1>4. ASSUME NEW i \in 1..(skipped + buffered)
      PROVE  (str \o Data)[i] = body[i]
  <2>1. CASE i <= skipped
    BY <1>1, <1>2, <2>1
  <2>2. CASE ~(i <= skipped)
    <3>1. i - skipped \in 1..buffered
      BY <1>1, <2>2
    <3>2. (str \o Data)[i] = Data[i - skipped]
      BY <1>1, <1>2, <2>2, <3>1
    <3>3. QED
      BY <1>1, <1>3, <3>1, <3>2
  <2>3. QED
    BY <2>1, <2>2
<1>5. Len(str \o Data) = skipped + buffered
  <2>1. \A s, t \in Seq(Bytes) : Len(s \o t) = Len(s) + Len(t)
    OBVIOUS
  <2>2. QED
    BY <1>1, <1>2, <2>1
<1>6. QED
  BY <1>4, <1>5

(* What the checks after the loops make of it, when reads block.           *)
LEMMA CheckIsRight ==
    ASSUME BufferInv, WholeInv, blocking, Check
    PROVE  \/ topic' = NULL /\ (stream = "error" \/ ~Legal)
           \/ topic' = body /\ stream = "eof" /\ Legal
<1>1. /\ stream # "open" /\ skipped = arrived /\ pc = "check"
      /\ Len(str) = skipped /\ \A i \in 1..skipped : str[i] = body[i]
  BY DEF Check, WholeInv
<1>2. /\ body \in Seq(Bytes) /\ str \in Seq(Bytes)
      /\ Len(str) <= MaxTopic /\ IsSafe(str)
  BY DEF BufferInv
<1>3. CASE stream = "error"
  BY <1>3 DEF Check, Fail, StreamFailed
<1>4. CASE stream = "eof"
  <2>1. skipped = Len(body)
    BY <1>1, <1>4 DEF WholeInv
  <2>2. str = body
    BY <1>1, <1>2, <2>1
  <2>3. CASE str = <<>>
    <3>1. Len(body) = 0
      BY <2>2, <2>3
    <3>2. QED
      BY <2>3, <3>1 DEF Check, Fail, Legal
  <2>4. CASE str # <<>>
    <3>1. Len(body) \in 1..MaxTopic
      BY <1>2, <2>2, <2>4, TopicAssumption
    <3>2. QED
      BY <1>2, <1>4, <2>2, <2>4, <3>1 DEF Check, StreamFailed, Legal
  <2>5. QED
    BY <2>3, <2>4
<1>5. QED
  BY <1>1, <1>3, <1>4 DEF WholeInv

LEMMA WholeStep ==
    ASSUME BufferInv, WholeInv, [Next]_vars
    PROVE  WholeInv'
<1>1. Legal \in BOOLEAN /\ (UNCHANGED body => Legal' = Legal)
  BY DEF Legal, IsSafe
<1>2. /\ arrived \in 0..Len(body) /\ Len(body) \in Nat
      /\ skipped \in Nat /\ buffered \in Nat /\ skipped + buffered <= arrived
  BY DEF BufferInv
<1>3. CASE Arrive
  BY <1>1, <1>2, <1>3 DEF Arrive, WholeInv
<1>4. CASE Close
  BY <1>1, <1>2, <1>4 DEF Close, WholeInv
<1>5. CASE OuterRead
  BY <1>1, <1>2, <1>5 DEF OuterRead, ReadMore, ReadNothing, ReadEnd, Unread, WholeInv
<1>6. CASE InnerRead
  BY <1>1, <1>2, <1>6 DEF InnerRead, ReadMore, ReadNothing, ReadEnd, Unread, WholeInv
<1>7. CASE TakeChunk
  <2>1. CASE Fits(Data) /\ IsSafe(Data)
    <3>1. /\ str' = str \o Data /\ skipped' = skipped + buffered /\ pc = "inner"
          /\ UNCHANGED <<body, blocking, arrived, stream, pc, topic>>
      BY <1>7, <2>1 DEF TakeChunk, Skip
    <3>2. Len(str') = skipped' /\ \A i \in 1..skipped' : str'[i] = body'[i]
      BY <3>1, TakenIsNext
    <3>3. QED
      BY <3>1, <3>2 DEF WholeInv
  <2>2. CASE ~(Fits(Data) /\ IsSafe(Data))
    <3>1. /\ topic' = NULL /\ pc' = "done" /\ pc = "inner"
          /\ UNCHANGED <<body, blocking, arrived, stream>>
      BY <1>7, <2>2 DEF TakeChunk, Fail
    <3>2. ~Legal
      BY <2>2, <3>1, RefusedIsIllegal
    <3>3. QED
      BY <1>1, <3>1, <3>2 DEF WholeInv
  <2>3. QED
    BY <2>1, <2>2
<1>8. CASE Check
  <2>1. pc' = "done" /\ UNCHANGED <<body, blocking, arrived, stream>>
    BY <1>8 DEF Check, Fail
  <2>2. blocking => \/ topic' = NULL /\ (stream = "error" \/ ~Legal)
                    \/ topic' = body /\ stream = "eof" /\ Legal
    BY <1>8, CheckIsRight
  <2>3. QED
    BY <1>1, <2>1, <2>2 DEF WholeInv
<1>9. CASE UNCHANGED vars
  BY <1>1, <1>9 DEF vars, WholeInv
<1>10. QED
  BY <1>3, <1>4, <1>5, <1>6, <1>7, <1>8, <1>9 DEF Next

(* With blocking reads the topic is the whole legal response, or an error. *)
THEOREM TopicComplete == Spec => []TopicIsWhole
<1>1. Init => WholeInv
  BY DEF Init, Bodies, WholeInv
<1>2. BufferInv /\ WholeInv => TopicIsWhole
  <2> SUFFICES ASSUME BufferInv, WholeInv, pc = "done", blocking
               PROVE  topic = Expected
    BY DEF TopicIsWhole
  <2>1. \/ topic = NULL /\ (stream = "error" \/ ~Legal)
        \/ topic = body /\ stream = "eof" /\ Legal
    BY DEF WholeInv
  <2>2. Expected = IF stream = "eof" /\ Legal THEN body ELSE NULL
    BY DEF Expected, Legal, IsSafe
  <2>3. QED
    BY <2>1, <2>2
<1>3. BufferInv /\ WholeInv /\ [Next]_vars => WholeInv'
  BY WholeStep
<1>4. QED
  BY <1>1, <1>2, <1>3, BufferInductive, PTL DEF Spec

-----------------------------------------------------------------------------
(* The result is NULL or bytes, and the response stays one the daemon sends. *)
ResultInv == body \in Bodies /\ topic \in Seq(Bytes) \cup {NULL}

LEMMA ResultStep ==
    ASSUME BufferInv, ResultInv, [Next]_vars
    PROVE  ResultInv'
<1>1. UNCHANGED body
  BY DEF Next, Arrive, Close, OuterRead, TakeChunk, InnerRead, Check, vars
<1>2. topic' \in {topic, NULL, str}
  BY DEF Next, Arrive, Close, OuterRead, TakeChunk, InnerRead, Check, Fail, vars
<1>3. str \in Seq(Bytes)
  BY DEF BufferInv
<1>4. topic' \in Seq(Bytes) \cup {NULL}
  BY <1>2, <1>3 DEF ResultInv
<1>5. QED
  BY <1>1, <1>4 DEF ResultInv

(* The loop's state has its types: the read position stays inside what has *)
(* arrived, and the buffered bytes between it and the last one.            *)
THEOREM TopicTypeCorrect == Spec => []TopicTypeOK
<1>1. Init => WholeInv /\ ResultInv
  BY DEF Init, Bodies, WholeInv, ResultInv
<1>2. BufferInv /\ WholeInv /\ [Next]_vars => WholeInv'
  BY WholeStep
<1>3. BufferInv /\ ResultInv /\ [Next]_vars => ResultInv'
  BY ResultStep
<1>4. BufferInv /\ WholeInv /\ ResultInv => TopicTypeOK
  <2> SUFFICES ASSUME BufferInv, WholeInv, ResultInv
               PROVE  TopicTypeOK
    OBVIOUS
  <2>1. Len(body) \in Nat
    BY DEF BufferInv
  <2>2. arrived \in 0..Len(body) /\ skipped \in Nat /\ buffered \in Nat
        /\ skipped + buffered <= arrived
    BY DEF BufferInv
  <2>3. skipped \in 0..arrived /\ buffered \in 0..(arrived - skipped)
    BY <2>1, <2>2
  <2>4. str \in Seq(Bytes)
    BY DEF BufferInv
  <2>5. /\ blocking \in BOOLEAN /\ stream \in {"open", "eof", "error"}
        /\ pc \in {"outer", "inner", "check", "done"}
    BY DEF WholeInv
  <2>6. QED
    BY <2>2, <2>3, <2>4, <2>5 DEF ResultInv, TopicTypeOK
<1>5. QED
  BY <1>1, <1>2, <1>3, <1>4, BufferInductive, PTL DEF Spec

-----------------------------------------------------------------------------
(* Refinement of Payload: the response read and judged at once. *)

(* The buffer is a first part of the response. *)
LEMMA BufferIsPrefix ==
    ASSUME BufferInv, WholeInv, pc # "done"
    PROVE  str = SubSeq(body, 1, skipped) /\ AtOnce!Acceptable(skipped)
<1>1. /\ body \in Seq(Bytes) /\ Len(body) \in Nat /\ arrived \in 0..Len(body)
      /\ skipped \in Nat /\ skipped <= arrived
  BY DEF BufferInv
<1>2. /\ str \in Seq(Bytes) /\ Len(str) = skipped
      /\ \A i \in 1..skipped : str[i] = body[i]
  BY DEF BufferInv, WholeInv
<1>3. /\ SubSeq(body, 1, skipped) \in Seq(Bytes)
      /\ Len(SubSeq(body, 1, skipped)) = skipped
      /\ \A i \in 1..skipped : SubSeq(body, 1, skipped)[i] = body[i]
  BY <1>1
<1>4. str = SubSeq(body, 1, skipped)
  BY <1>2, <1>3
<1>5. \A i \in 1..skipped : body[i] \notin Controls
  <2>1. DOMAIN str = 1..skipped
    BY <1>2
  <2>2. QED
    BY <1>2, <2>1 DEF BufferInv, IsSafe
<1>6. QED
  BY <1>2, <1>4, <1>5 DEF BufferInv, AtOnce!Acceptable

LEMMA JudgedAtOnce ==
    ASSUME BufferInv, WholeInv, TakeChunk \/ Check, pc' = "done"
    PROVE  AtOnce!Next
<1>1. /\ Len(body) \in Nat /\ arrived \in 0..Len(body)
      /\ skipped \in Nat /\ buffered \in Nat /\ skipped + buffered <= arrived
  BY DEF BufferInv
<1>2. UNCHANGED <<body, blocking, arrived, stream>> /\ pc # "done"
  BY DEF TakeChunk, Check
<1>3. CASE TakeChunk
  <2>1. /\ pc = "inner" /\ buffered > 0 /\ topic' = NULL
        /\ ~(Fits(Data) /\ IsSafe(Data))
    BY <1>3 DEF TakeChunk, Fail
  <2>2. ~AtOnce!Acceptable(skipped + buffered)
    BY <2>1, RefusedIsUnacceptable
  <2>3. skipped + buffered \in 1..arrived
    BY <1>1, <2>1
  <2>4. AtOnce!Refuse(skipped + buffered)
    BY <1>2, <2>1, <2>2, <2>3 DEF AtOnce!Refuse, AtOnce!Judge
  <2>5. skipped + buffered \in 0..arrived
    BY <2>3
  <2>6. QED
    BY <2>4, <2>5 DEF AtOnce!Next
<1>4. CASE Check
  <2>1. str = SubSeq(body, 1, skipped) /\ AtOnce!Acceptable(skipped)
    BY <1>2, BufferIsPrefix
  <2>2. skipped \in 0..arrived
    BY <1>1
  <2>3. blocking => stream # "open" /\ skipped = arrived
    BY <1>4 DEF Check, WholeInv
  <2>4. str = <<>> <=> skipped = 0
    <3>1. str \in Seq(Bytes) /\ Len(str) = skipped
      BY <1>2 DEF BufferInv, WholeInv
    <3>2. QED
      BY <3>1
  <2>5. topic' = IF stream = "error" \/ skipped = 0 THEN NULL ELSE SubSeq(body, 1, skipped)
    BY <1>4, <2>1, <2>4 DEF Check, Fail, StreamFailed
  <2>6. AtOnce!Accept(skipped)
    BY <1>2, <2>1, <2>2, <2>3, <2>5 DEF AtOnce!Accept, AtOnce!Judge
  <2>7. QED
    BY <2>2, <2>6 DEF AtOnce!Next
<1>5. QED
  BY <1>3, <1>4

LEMMA StepAtOnce ==
    ASSUME BufferInv, WholeInv, [Next]_vars
    PROVE  [AtOnce!Next]_(AtOnce!vars)
<1>1. CASE Arrive
  BY <1>1 DEF Arrive, AtOnce!Arrive, AtOnce!Next
<1>2. CASE Close
  BY <1>2 DEF Close, AtOnce!Close, AtOnce!Next
<1>3. CASE (TakeChunk \/ Check) /\ pc' = "done"
  BY <1>3, JudgedAtOnce
<1>4. CASE OuterRead \/ InnerRead \/ ((TakeChunk \/ Check) /\ pc' # "done")
  <2>1. UNCHANGED <<body, blocking, arrived, stream, topic>>
    BY <1>4 DEF OuterRead, InnerRead, TakeChunk, Check, Fail
  <2>2. pc # "done" /\ pc' # "done"
    BY <1>4 DEF OuterRead, InnerRead, TakeChunk, Check
  <2>3. QED
    BY <2>1, <2>2 DEF AtOnce!vars
<1>5. CASE UNCHANGED vars
  BY <1>5 DEF vars, AtOnce!vars
<1>6. QED
  BY <1>1, <1>2, <1>3, <1>4, <1>5 DEF Next

(* The loops over the stream's chunks implement one reading of the         *)
(* response, for every response, limit, and order of reads and arrivals.   *)
THEOREM ChunksAreInvisible == Spec => ReadsAtOnce
<1>1. Init => WholeInv
  BY DEF Init, Bodies, WholeInv
<1>2. Init => AtOnce!Init
  BY DEF Init, Bodies, AtOnce!Init
<1>3. BufferInv /\ WholeInv /\ [Next]_vars => WholeInv'
  BY WholeStep
<1>4. BufferInv /\ WholeInv /\ [Next]_vars => [AtOnce!Next]_(AtOnce!vars)
  BY StepAtOnce
<1>5. QED
  BY <1>1, <1>2, <1>3, <1>4, BufferInductive, PTL DEF Spec, ReadsAtOnce, AtOnce!Spec

=============================================================================
