----------------------- MODULE PushTransactionProofs -----------------------
(***************************************************************************)
(* Each message is announced with the events that happened to it, for any  *)
(* transactions, messages and event types, however many are open at once.  *)
(***************************************************************************)
EXTENDS PushTransaction, TLAPS

(* What recording an event does to a list.                                 *)
LEMMA WithFacts ==
    ASSUME NEW s \in Lists, NEW e \in Events
    PROVE  /\ Listed(s) \in Seq(Events) /\ With(s, e) \in Lists /\ With(s, e) # NULL
           /\ Listed(With(s, e)) \in Seq(Events)
           /\ (\E i \in DOMAIN Listed(s) : Listed(s)[i] = e) => With(s, e) = s
           /\ (\A i \in DOMAIN Listed(s) : Listed(s)[i] # e) =>
                 /\ Listed(With(s, e)) = Append(Listed(s), e)
                 /\ With(s, e) = Append(Listed(s), e)
<1>1. Listed(s) \in Seq(Events)
  BY DEF Listed, Lists
<1>2. CASE \E i \in DOMAIN Listed(s) : Listed(s)[i] = e
  <2>1. s # NULL
    BY <1>2 DEF Listed
  <2>2. With(s, e) = s
    BY <1>2 DEF With
  <2>3. QED
    BY <1>1, <1>2, <2>1, <2>2
<1>3. CASE ~\E i \in DOMAIN Listed(s) : Listed(s)[i] = e
  <2>1. With(s, e) = Append(Listed(s), e)
    BY <1>3 DEF With
  <2>2. With(s, e) \in Seq(Events)
    BY <1>1, <2>1
  <2>3. With(s, e) # NULL
    BY <2>2, TxnAssumption
  <2>4. Listed(With(s, e)) = With(s, e)
    BY <2>3 DEF Listed
  <2>5. QED
    BY <1>1, <1>3, <2>1, <2>2, <2>3, <2>4 DEF Lists
<1>4. QED
  BY <1>2, <1>3

(* An event of the type e makes e due, if its type is known.               *)
LEMMA DueWith ==
    ASSUME NEW s \in Lists, NEW e \in Events, NEW K
    PROVE  Due(With(s, e), K) = IF e \in K THEN Due(s, K) \cup {e} ELSE Due(s, K)
<1>1. CASE \E i \in DOMAIN Listed(s) : Listed(s)[i] = e
  BY <1>1, WithFacts DEF Due
<1>2. CASE ~\E i \in DOMAIN Listed(s) : Listed(s)[i] = e
  <2> DEFINE l == Listed(s)
             t == Listed(With(s, e))
  <2>1. l \in Seq(Events) /\ t = Append(l, e)
    BY <1>2, WithFacts
  <2> HIDE DEF l, t
  <2>2. \A x : (\E i \in DOMAIN t : t[i] = x) <=> x = e \/ \E i \in DOMAIN l : l[i] = x
    <3>1. /\ Len(t) = Len(l) + 1 /\ Len(l) \in Nat /\ t[Len(l) + 1] = e
          /\ DOMAIN t = 1..Len(t) /\ DOMAIN l = 1..Len(l)
          /\ \A i \in 1..Len(l) : t[i] = l[i]
      BY <2>1
    <3>2. QED
      BY <3>1
  <2>3. QED
    BY <2>2 DEF Due, l, t
<1>3. QED
  BY <1>1, <1>2

(* What happened earlier stays earlier, and before anything new.           *)
LEMMA EarlierWith ==
    ASSUME NEW s \in Lists, NEW e \in Events, NEW K
    PROVE  /\ \A c, d : Earlier(Listed(s), c, d) => Earlier(Listed(With(s, e)), c, d)
           /\ (\A i \in DOMAIN Listed(s) : Listed(s)[i] # e) =>
                 \A c \in Due(s, K) : Earlier(Listed(With(s, e)), c, e)
<1>1. CASE \E i \in DOMAIN Listed(s) : Listed(s)[i] = e
  BY <1>1, WithFacts
<1>2. CASE ~\E i \in DOMAIN Listed(s) : Listed(s)[i] = e
  <2> DEFINE l == Listed(s)
             t == Listed(With(s, e))
  <2>1. l \in Seq(Events) /\ t = Append(l, e)
    BY <1>2, WithFacts
  <2> HIDE DEF l, t
  <2>2. /\ Len(t) = Len(l) + 1 /\ Len(l) \in Nat /\ t[Len(l) + 1] = e
        /\ DOMAIN t = 1..Len(t) /\ DOMAIN l = 1..Len(l)
        /\ \A i \in 1..Len(l) : t[i] = l[i]
    BY <2>1
  <2>3. \A c, d : Earlier(l, c, d) => Earlier(t, c, d)
    BY <2>2 DEF Earlier
  <2>4. ASSUME NEW c \in Due(s, K)
        PROVE  Earlier(t, c, e)
    <3>1. PICK i \in DOMAIN l : l[i] = c
      BY DEF Due, l
    <3>2. i \in DOMAIN t /\ Len(l) + 1 \in DOMAIN t /\ i < Len(l) + 1 /\ t[i] = c
      BY <2>2, <3>1
    <3>3. QED
      BY <2>2, <3>2 DEF Earlier
  <2>5. QED
    BY <2>3, <2>4 DEF l, t
<1>3. QED
  BY <1>1, <1>2

(* Recording an event of a known type keeps the list right.                *)
LEMMA ReportsKnown ==
    ASSUME NEW list \in Lists, NEW s \in Lists, NEW K, NEW e \in Events, e \in K,
           Reports(list, s, K)
    PROVE  Reports(With(list, e), With(s, e), K)
<1> DEFINE l == Listed(list)
           m == Listed(With(list, e))
<1>1. /\ l \in Seq(Events) /\ m \in Seq(Events)
      /\ {l[i] : i \in DOMAIN l} = Due(s, K)
  BY WithFacts DEF Reports
<1>2. CASE \E i \in DOMAIN Listed(s) : Listed(s)[i] = e
  <2>1. e \in Due(s, K)
    BY <1>2 DEF Due
  <2>2. \E i \in DOMAIN Listed(list) : Listed(list)[i] = e
    BY <1>1, <2>1
  <2>3. With(list, e) = list
    BY <2>2, WithFacts
  <2>4. With(s, e) = s
    BY <1>2, WithFacts
  <2>5. QED
    BY <2>3, <2>4
<1>3. CASE ~\E i \in DOMAIN Listed(s) : Listed(s)[i] = e
  <2>1. e \notin Due(s, K)
    BY <1>3 DEF Due
  <2>2. \A i \in DOMAIN l : l[i] # e
    BY <1>1, <2>1
  <2>3. m = Append(l, e) /\ With(list, e) = m /\ With(list, e) # NULL
    BY <2>2, WithFacts
  <2>4. Due(With(s, e), K) = Due(s, K) \cup {e}
    BY DueWith
  <2> HIDE DEF l, m
  <2>5. /\ Len(m) = Len(l) + 1 /\ Len(l) \in Nat /\ m[Len(l) + 1] = e
        /\ DOMAIN m = 1..Len(m) /\ DOMAIN l = 1..Len(l)
        /\ \A i \in 1..Len(l) : m[i] = l[i]
    BY <1>1, <2>3
  <2>6. {m[i] : i \in DOMAIN m} = Due(s, K) \cup {e}
    BY <1>1, <2>5
  <2>7. ASSUME NEW i \in DOMAIN m, NEW j \in DOMAIN m, i < j
        PROVE  m[i] # m[j] /\ Earlier(Listed(With(s, e)), m[i], m[j])
    <3>1. i \in DOMAIN l /\ m[i] = l[i] /\ l[i] \in Due(s, K)
      BY <1>1, <2>5, <2>7
    <3>2. CASE j \in DOMAIN l
      <4>1. m[j] = l[j]
        BY <2>5, <3>2
      <4>2. l[i] # l[j] /\ Earlier(Listed(s), l[i], l[j])
        BY <2>7, <3>1, <3>2 DEF Reports, l
      <4>3. QED
        BY <3>1, <4>1, <4>2, EarlierWith
    <3>3. CASE j \notin DOMAIN l
      <4>1. m[j] = e
        BY <2>5, <2>7, <3>3
      <4>2. m[i] # e
        BY <2>1, <3>1
      <4>3. Earlier(Listed(With(s, e)), m[i], e)
        BY <1>3, <3>1, EarlierWith
      <4>4. QED
        BY <4>1, <4>2, <4>3
    <3>4. QED
      BY <3>2, <3>3
  <2>8. QED
    BY <2>3, <2>4, <2>6, <2>7 DEF Reports, m
<1>4. QED
  BY <1>2, <1>3

(* An event of a type that is not known changes nothing in the list.       *)
LEMMA ReportsUnknown ==
    ASSUME NEW list \in Lists, NEW s \in Lists, NEW K, NEW e \in Events, e \notin K,
           Reports(list, s, K)
    PROVE  Reports(list, With(s, e), K)
<1>1. Due(With(s, e), K) = Due(s, K)
  BY DueWith
<1>2. \A c, d : Earlier(Listed(s), c, d) => Earlier(Listed(With(s, e)), c, d)
  BY EarlierWith
<1>3. QED
  BY <1>1, <1>2 DEF Reports

-----------------------------------------------------------------------------
(* Nothing has happened, nothing is told. *)
LEMMA ReportsNothing ==
    ASSUME NEW K
    PROVE  Reports(NULL, NULL, K)
<1>1. Listed(NULL) = <<>>
  BY DEF Listed
<1>2. Due(NULL, K) = {}
  BY <1>1 DEF Due
<1>3. QED
  BY <1>1, <1>2 DEF Reports

LEMMA BeginStep ==
    ASSUME TxnInv, NEW t \in Txns, xaps_plugin_begin_txn(t)
    PROVE  TxnInv'
<1> USE DEF xaps_plugin_begin_txn, Cleared
<1>1. TxnTypeOK'
  <2>1. TxnTypeOK /\ NULL \in Lists
    BY DEF TxnInv, Lists
  <2>2. QED
    BY <2>1 DEF TxnTypeOK
<1>2. SubscribedInv'
  <2>1. /\ DOMAIN events' = Txns /\ DOMAIN known' = Txns
        /\ events'[t] = [e \in push_notification_events |-> Config(e)]
        /\ known'[t] = push_notification_events
        /\ \A x \in Txns \ {t} : events'[x] = events[x] /\ known'[x] = known[x]
    BY DEF TxnInv, TxnTypeOK
  <2>2. \A e \in NeedsConfig : Config(e) # {}
    BY DEF Config, AllFlags
  <2>3. QED
    BY <2>1, <2>2 DEF TxnInv, SubscribedInv
<1>3. ASSUME NEW m \in Msgs
      PROVE  Tells(eventdata[m], m)'
  <2>1. CASE TxnOf[m] = t
    <3>1. eventdata'[m] = NULL /\ happened'[m] = NULL
      BY <2>1
    <3>2. QED
      BY <3>1, ReportsNothing DEF Tells
  <2>2. CASE TxnOf[m] # t
    <3>1. /\ eventdata'[m] = eventdata[m] /\ happened'[m] = happened[m]
          /\ known'[TxnOf[m]] = known[TxnOf[m]]
      BY <2>2, TxnAssumption DEF TxnInv, TxnTypeOK
    <3>2. QED
      BY <3>1 DEF TxnInv, Tells
  <2>3. QED
    BY <2>1, <2>2
<1>4. sent' = {[msg |-> m, events |-> eventdata'[m]] : m \in {n \in Msgs : Announced(n)'}}
  <2>1. ASSUME NEW m \in Msgs
        PROVE  Announced(m)' <=> Announced(m) /\ TxnOf[m] # t
    <3>1. txns'[TxnOf[m]] = IF TxnOf[m] = t THEN "open" ELSE txns[TxnOf[m]]
      BY TxnAssumption DEF TxnInv, TxnTypeOK
    <3>2. QED
      BY <3>1 DEF Announced
  <2>2. \A m \in Msgs : TxnOf[m] # t => eventdata'[m] = eventdata[m]
    OBVIOUS
  <2>3. sent = {[msg |-> m, events |-> eventdata[m]] : m \in {n \in Msgs : Announced(n)}}
    BY DEF TxnInv
  <2>4. sent' = {n \in sent : TxnOf[n.msg] # t}
    OBVIOUS
  <2>5. QED
    BY <2>1, <2>2, <2>3, <2>4
<1>5. \A m \in configured' : txns'[TxnOf[m]] = "committed"
  BY TxnAssumption DEF TxnInv, TxnTypeOK
<1>6. QED
  BY <1>1, <1>2, <1>3, <1>4, <1>5 DEF TxnInv

LEMMA RollbackStep ==
    ASSUME TxnInv, NEW t \in Txns, Rollback(t)
    PROVE  TxnInv'
<1> USE DEF Rollback, Cleared
<1>1. TxnTypeOK'
  <2>1. TxnTypeOK /\ NULL \in Lists
    BY DEF TxnInv, Lists
  <2>2. QED
    BY <2>1 DEF TxnTypeOK
<1>2. SubscribedInv'
  <2>1. /\ DOMAIN events' = Txns /\ DOMAIN known' = Txns
        /\ events'[t] = NoEvents /\ known'[t] = {}
        /\ \A x \in Txns \ {t} : events'[x] = events[x] /\ known'[x] = known[x]
    BY DEF TxnInv, TxnTypeOK
  <2>2. DOMAIN NoEvents = {}
    BY DEF NoEvents
  <2>3. DOMAIN events'[t] = known'[t] /\ known'[t] \cap NeedsConfig = {}
    BY <2>1, <2>2
  <2>4. ASSUME NEW x \in Txns \ {t}
        PROVE  /\ DOMAIN events'[x] = known'[x]
               /\ \A e \in known'[x] \cap NeedsConfig : events'[x][e] # {}
    BY <2>1 DEF TxnInv, SubscribedInv
  <2>5. QED
    BY <2>3, <2>4 DEF SubscribedInv
<1>3. ASSUME NEW m \in Msgs
      PROVE  Tells(eventdata[m], m)'
  <2>1. CASE TxnOf[m] = t
    <3>1. eventdata'[m] = NULL /\ happened'[m] = NULL
      BY <2>1
    <3>2. QED
      BY <3>1, ReportsNothing DEF Tells
  <2>2. CASE TxnOf[m] # t
    <3>1. /\ eventdata'[m] = eventdata[m] /\ happened'[m] = happened[m]
          /\ known'[TxnOf[m]] = known[TxnOf[m]]
      BY <2>2, TxnAssumption DEF TxnInv, TxnTypeOK
    <3>2. QED
      BY <3>1 DEF TxnInv, Tells
  <2>3. QED
    BY <2>1, <2>2
<1>4. \A m \in Msgs : txns'[TxnOf[m]] = IF TxnOf[m] = t THEN "rolled back" ELSE txns[TxnOf[m]]
  BY TxnAssumption DEF TxnInv, TxnTypeOK
<1>5. sent' = {[msg |-> m, events |-> eventdata'[m]] : m \in {n \in Msgs : Announced(n)'}}
  <2>1. ASSUME NEW m \in Msgs
        PROVE  /\ Announced(m)' <=> Announced(m)
               /\ Announced(m) => eventdata'[m] = eventdata[m]
    BY <1>4 DEF Announced
  <2>2. sent = {[msg |-> m, events |-> eventdata[m]] : m \in {n \in Msgs : Announced(n)}}
    BY DEF TxnInv
  <2>3. QED
    BY <2>1, <2>2
<1>6. \A m \in configured' : txns'[TxnOf[m]] = "committed"
  BY <1>4 DEF TxnInv, TxnTypeOK
<1>7. QED
  BY <1>1, <1>2, <1>3, <1>5, <1>6 DEF TxnInv

LEMMA HappensStep ==
    ASSUME TxnInv, NEW m \in Msgs, NEW e \in Events, Happens(m, e)
    PROVE  TxnInv'
<1> DEFINE t == TxnOf[m]
<1>1. /\ t \in Txns /\ txns[t] = "open"
      /\ happened' = [happened EXCEPT ![m] = With(@, e)]
      /\ eventdata' = IF Records(t, e) THEN [eventdata EXCEPT ![m] = With(@, e)]
                                       ELSE eventdata
      /\ UNCHANGED <<push_notification_events, txns, events, sent, known, configured>>
  BY TxnAssumption DEF Happens
<1>2. happened[m] \in Lists /\ eventdata[m] \in Lists
  BY DEF TxnInv, TxnTypeOK
<1>3. With(happened[m], e) \in Lists /\ With(eventdata[m], e) \in Lists
  BY <1>2, WithFacts
<1>4. /\ happened'[m] = With(happened[m], e)
      /\ eventdata'[m] = IF Records(t, e) THEN With(eventdata[m], e) ELSE eventdata[m]
      /\ \A n \in Msgs \ {m} : happened'[n] = happened[n] /\ eventdata'[n] = eventdata[n]
  BY <1>1 DEF TxnInv, TxnTypeOK
<1>5. TxnTypeOK'
  <2>1. happened' \in [Msgs -> Lists] /\ eventdata' \in [Msgs -> Lists]
    BY <1>1, <1>3 DEF TxnInv, TxnTypeOK
  <2>2. QED
    BY <1>1, <2>1 DEF TxnInv, TxnTypeOK
<1>6. SubscribedInv'
  BY <1>1 DEF TxnInv, SubscribedInv
<1>7. Records(t, e) <=> e \in known[t]
  BY <1>1 DEF TxnInv, SubscribedInv, Records
<1>8. ASSUME NEW n \in Msgs
      PROVE  Tells(eventdata[n], n)'
  <2>1. Reports(eventdata[n], happened[n], known[TxnOf[n]])
    BY DEF TxnInv, Tells
  <2>2. CASE n # m
    BY <1>1, <1>4, <2>1, <2>2 DEF Tells
  <2>3. CASE n = m /\ e \in known[t]
    <3>1. Reports(With(eventdata[m], e), With(happened[m], e), known[t])
      BY <1>2, <2>1, <2>3, ReportsKnown
    <3>2. QED
      BY <1>1, <1>4, <1>7, <2>3, <3>1 DEF Tells
  <2>4. CASE n = m /\ e \notin known[t]
    <3>1. Reports(eventdata[m], With(happened[m], e), known[t])
      BY <1>2, <2>1, <2>4, ReportsUnknown
    <3>2. QED
      BY <1>1, <1>4, <1>7, <2>4, <3>1 DEF Tells
  <2>5. QED
    BY <2>2, <2>3, <2>4
<1>9. sent' = {[msg |-> n, events |-> eventdata'[n]] : n \in {x \in Msgs : Announced(x)'}}
  <2>1. ASSUME NEW n \in Msgs
        PROVE  (Announced(n)' <=> Announced(n)) /\ (Announced(n) => n # m)
    BY <1>1, <1>4 DEF Announced
  <2>2. \A n \in Msgs : Announced(n) => eventdata'[n] = eventdata[n]
    BY <1>4, <2>1
  <2>3. QED
    BY <1>1, <2>1, <2>2 DEF TxnInv
<1>10. \A n \in configured' : txns'[TxnOf[n]] = "committed"
  BY <1>1 DEF TxnInv
<1>11. QED
  BY <1>5, <1>6, <1>8, <1>9, <1>10 DEF TxnInv

LEMMA CommitStep ==
    ASSUME TxnInv, NEW t \in Txns, Commit(t)
    PROVE  TxnInv'
<1>1. PICK ready \in SUBSET Touched(t) :
        /\ sent' = sent \cup UNION {xaps_notify(m, m \in ready) : m \in Touched(t)}
        /\ configured' = configured \cup ready
  BY DEF Commit
<1>2. /\ txns[t] = "open" /\ txns' = [txns EXCEPT ![t] = "committed"]
      /\ UNCHANGED <<push_notification_events, events, eventdata, known, happened>>
  BY DEF Commit
<1>3. \A m \in Touched(t) : m \in Msgs /\ TxnOf[m] = t /\ happened[m] # NULL
  BY DEF Touched
<1>4. \A m \in Msgs : txns'[TxnOf[m]] = IF TxnOf[m] = t THEN "committed" ELSE txns[TxnOf[m]]
  BY <1>2, TxnAssumption DEF TxnInv, TxnTypeOK
<1>5. TxnTypeOK' /\ SubscribedInv'
  <2>1. txns' \in [Txns -> {"open", "committed", "rolled back"}]
    BY <1>2 DEF TxnInv, TxnTypeOK
  <2>2. configured' \subseteq Msgs
    BY <1>1, <1>3 DEF TxnInv, TxnTypeOK
  <2>3. QED
    BY <1>2, <2>1, <2>2 DEF TxnInv, TxnTypeOK, SubscribedInv
<1>6. \A m \in Msgs : Tells(eventdata[m], m)'
  BY <1>2 DEF TxnInv, Tells
<1>7. \A m \in configured' : txns'[TxnOf[m]] = "committed"
  BY <1>1, <1>3, <1>4 DEF TxnInv, TxnTypeOK
<1>8. sent' = {[msg |-> m, events |-> eventdata'[m]] : m \in {n \in Msgs : Announced(n)'}}
  <2>1. ASSUME NEW m \in Msgs
        PROVE  Announced(m)' <=> Announced(m) \/ m \in ready
    <3>1. m \in configured => txns[TxnOf[m]] = "committed"
      BY DEF TxnInv
    <3>2. m \in configured' <=> m \in configured \/ m \in ready
      BY <1>1
    <3>3. m \in ready => TxnOf[m] = t /\ happened[m] # NULL
      BY <1>3
    <3>4. QED
      BY <1>2, <1>4, <3>1, <3>2, <3>3 DEF Announced
  <2>2. UNION {xaps_notify(m, m \in ready) : m \in Touched(t)}
          = {[msg |-> m, events |-> eventdata[m]] : m \in ready}
    BY DEF xaps_notify
  <2>3. sent = {[msg |-> m, events |-> eventdata[m]] : m \in {n \in Msgs : Announced(n)}}
    BY DEF TxnInv
  <2>4. {n \in Msgs : Announced(n)'} = {n \in Msgs : Announced(n)} \cup ready
    BY <1>3, <2>1
  <2>5. QED
    BY <1>1, <1>2, <2>2, <2>3, <2>4
<1>9. QED
  BY <1>5, <1>6, <1>7, <1>8 DEF TxnInv

LEMMA OtherStep ==
    ASSUME TxnInv, (\E e \in Events : Register(e)) \/ UNCHANGED vars
    PROVE  TxnInv'
<1>1. UNCHANGED <<txns, events, eventdata, sent, known, happened, configured>>
  BY DEF Register, vars
<1>2. push_notification_events' \subseteq Events
  <2>1. push_notification_events \subseteq Events
    BY DEF TxnInv, TxnTypeOK
  <2>2. QED
    BY <2>1 DEF Register, vars
<1>3. TxnTypeOK'
  BY <1>1, <1>2 DEF TxnInv, TxnTypeOK
<1>4. QED
  BY <1>1, <1>3 DEF TxnInv, SubscribedInv, Tells, Announced

(* What is recorded and what was sent is what the driver is due to tell.   *)
THEOREM TxnInductive == Spec => []TxnInv
<1>1. Init => TxnInv
  <2> SUFFICES ASSUME Init
               PROVE  TxnInv
    OBVIOUS
  <2> USE DEF Init, NoEvents
  <2>1. TxnTypeOK
    BY DEF TxnTypeOK, Lists
  <2>2. SubscribedInv
    BY DEF SubscribedInv
  <2>3. \A m \in Msgs : Tells(eventdata[m], m)
    BY ReportsNothing DEF Tells
  <2>4. \A m \in Msgs : ~Announced(m)
    BY DEF Announced
  <2>5. QED
    BY <2>1, <2>2, <2>3, <2>4 DEF TxnInv
<1>2. TxnInv /\ [Next]_vars => TxnInv'
  BY BeginStep, HappensStep, CommitStep, RollbackStep, OtherStep DEF Next
<1>3. QED
  BY <1>1, <1>2, PTL DEF Spec

(* A committed transaction announces each message something happened to    *)
(* and whose turn finds the plugin configured, whatever becomes of the     *)
(* others: once, with exactly the events the driver could subscribe to, in *)
(* order.                                                                  *)
THEOREM ToldExactly == Spec => []TellsWhatHappened
<1>1. TxnInv => TellsWhatHappened
  <2> SUFFICES ASSUME TxnInv
               PROVE  TellsWhatHappened
    OBVIOUS
  <2>1. sent = {[msg |-> m, events |-> eventdata[m]] : m \in {n \in Msgs : Announced(n)}}
    BY DEF TxnInv
  <2>2. \A n \in sent : /\ n.msg \in Msgs /\ Announced(n.msg)
                        /\ n = [msg |-> n.msg, events |-> eventdata[n.msg]]
    BY <2>1
  <2>3. \A m \in Msgs : Announced(m) => [msg |-> m, events |-> eventdata[m]] \in sent
    BY <2>1
  <2>4. {n.msg : n \in sent} = {m \in Msgs : Announced(m)}
    BY <2>2, <2>3
  <2>5. \A n \in sent : Tells(n.events, n.msg)
    BY <2>2 DEF TxnInv
  <2>6. QED
    BY <2>2, <2>4, <2>5 DEF TellsWhatHappened
<1>2. QED
  BY <1>1, TxnInductive, PTL

=============================================================================
