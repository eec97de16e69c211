-------------------------- MODULE PushTransaction --------------------------
(***************************************************************************)
(* The push driver inside the transactions of Dovecot's push-notification  *)
(* framework: which of the events that happen to a message reach the       *)
(* notification for it.  The driver subscribes to events when a            *)
(* transaction begins; the framework records, per message, the subscribed  *)
(* events that happen while it is open, and hands each message to the      *)
(* driver when it commits.  Several transactions are open at once, and     *)
(* events are registered meanwhile.                                        *)
(***************************************************************************)
EXTENDS Integers, Sequences

CONSTANTS
    Txns, Msgs,
    TxnOf,          \* TxnOf[m]: the transaction m belongs to
    Events,         \* event types
    NeedsConfig,    \* MessageNew and MessageAppend: recorded only if the
                    \* subscription's config asks for something
    NULL

ASSUME TxnAssumption ==
    /\ TxnOf \in [Msgs -> Txns]
    /\ NeedsConfig \subseteq Events
    /\ NULL \notin Seq(Events)

VARIABLES
    push_notification_events,  \* the event types registered so far
    txns,       \* txns[t]: "open", or how the last one of this name ended
    events,     \* events[t]: the subscriptions, event type -> flags in its config
    eventdata,  \* eventdata[m]: the events recorded, NULL before the first one
    sent,       \* the notifications of the last transaction of each name
    known,      \* history: the types registered when t began
    happened,   \* history: happened[m], in order, NULL if nothing has
    configured  \* history: the messages whose turn found a URL and a client

vars == <<push_notification_events, txns, events, eventdata, sent,
          known, happened, configured>>

-----------------------------------------------------------------------------
AllFlags == {"date", "from", "to", "subject", "snippet"}

(* The config of a subscription: its flags, none for a null pointer.  The  *)
(* mutant knows MessageNew or MessageAppend, not both.                     *)
ForgetsOne(e) == IF e = CHOOSE x \in NeedsConfig : TRUE THEN AllFlags ELSE {}
Config(e) == IF e \in NeedsConfig THEN AllFlags ELSE {}

(* f without what it has of t's messages. *)
Cleared(f, t) == [m \in Msgs |-> IF TxnOf[m] = t THEN NULL ELSE f[m]]

(* A transaction begins; the driver subscribes to whatever is registered.  *)
xaps_plugin_begin_txn(t) ==
    /\ txns[t] # "open"
    /\ txns' = [txns EXCEPT ![t] = "open"]
    /\ events' = [events EXCEPT ![t] = [e \in push_notification_events |-> Config(e)]]
    /\ known' = [known EXCEPT ![t] = push_notification_events]
    /\ eventdata' = Cleared(eventdata, t) /\ happened' = Cleared(happened, t)
    /\ sent' = {n \in sent : TxnOf[n.msg] # t}
    /\ configured' = {m \in configured : TxnOf[m] # t}
    /\ UNCHANGED push_notification_events

(* s with e at its end, unless it is there; NULL is an array not created. *)
Listed(s) == IF s = NULL THEN <<>> ELSE s
With(s, e) == IF \E i \in DOMAIN Listed(s) : Listed(s)[i] = e THEN s
                                                             ELSE Append(Listed(s), e)

(* Framework: e happens to m.  A subscribed event is recorded once. *)
Records(t, e) == /\ e \in DOMAIN events[t]
                 /\ e \in NeedsConfig => events[t][e] # {}
Happens(m, e) ==
    /\ txns[TxnOf[m]] = "open" /\ e \in push_notification_events
    /\ happened' = [happened EXCEPT ![m] = With(@, e)]
    /\ eventdata' = IF Records(TxnOf[m], e) THEN [eventdata EXCEPT ![m] = With(@, e)]
                                            ELSE eventdata
    /\ UNCHANGED <<push_notification_events, txns, events, sent, known, configured>>

(* The notification for one message, if xaps_init() leaves a URL and an    *)
(* HTTP client: without an Events list if nothing was recorded for it.     *)
(* The mutant drops a message without a list.                              *)
ListedOnly(m, ready) ==
    IF ready /\ eventdata[m] # NULL THEN {[msg |-> m, events |-> eventdata[m]]} ELSE {}
xaps_notify(m, ready) ==
    IF ready THEN {[msg |-> m, events |-> eventdata[m]]} ELSE {}

Touched(t) == {m \in Msgs : TxnOf[m] = t /\ happened[m] # NULL}

(* Framework: the transaction commits, and every message goes to the       *)
(* driver; or it is rolled back and forgotten.  xaps_init() runs for each  *)
(* message anew: the HTTP client that cannot be created for one may be     *)
(* there for the next, so a transaction may be announced in part.          *)
Commit(t) ==
    /\ txns[t] = "open"
    /\ txns' = [txns EXCEPT ![t] = "committed"]
    /\ \E ready \in SUBSET Touched(t) :
          /\ sent' = sent \cup UNION {xaps_notify(m, m \in ready) : m \in Touched(t)}
          /\ configured' = configured \cup ready
    /\ UNCHANGED <<push_notification_events, events, eventdata, known, happened>>

NoEvents == [e \in {} |-> {}]
Rollback(t) ==
    /\ txns[t] = "open"
    /\ txns' = [txns EXCEPT ![t] = "rolled back"]
    /\ events' = [events EXCEPT ![t] = NoEvents]
    /\ known' = [known EXCEPT ![t] = {}]
    /\ eventdata' = Cleared(eventdata, t) /\ happened' = Cleared(happened, t)
    /\ UNCHANGED <<push_notification_events, sent, configured>>

(* Another plugin registers an event type. *)
Register(e) ==
    /\ e \notin push_notification_events
    /\ push_notification_events' = push_notification_events \cup {e}
    /\ UNCHANGED <<txns, events, eventdata, sent, known, happened, configured>>

-----------------------------------------------------------------------------
Init ==
    /\ push_notification_events = {}
    /\ txns = [t \in Txns |-> "rolled back"]
    /\ events = [t \in Txns |-> NoEvents]
    /\ eventdata = [m \in Msgs |-> NULL]
    /\ sent = {}
    /\ known = [t \in Txns |-> {}]
    /\ happened = [m \in Msgs |-> NULL]
    /\ configured = {}

Next ==
    \/ \E t \in Txns : \/ xaps_plugin_begin_txn(t)
                       \/ Commit(t)
                       \/ Rollback(t)
    \/ \E e \in Events : Register(e) \/ \E m \in Msgs : Happens(m, e)

Spec == Init /\ [][Next]_vars

-----------------------------------------------------------------------------
(* Of the events that happened, in the order of s, those of a type in K.   *)
Due(s, K) == {e \in K : \E i \in DOMAIN Listed(s) : Listed(s)[i] = e}

(* list has each of them once, in the order in which they first happened;  *)
(* without any it is no list at all.                                       *)
Earlier(s, d, e) == \E i, j \in DOMAIN s : i < j /\ s[i] = d /\ s[j] = e
Reports(list, s, K) ==
    /\ list = NULL <=> Due(s, K) = {}
    /\ {Listed(list)[i] : i \in DOMAIN Listed(list)} = Due(s, K)
    /\ \A i, j \in DOMAIN Listed(list) :
          i < j => /\ Listed(list)[i] # Listed(list)[j]
                   /\ Earlier(Listed(s), Listed(list)[i], Listed(list)[j])
Tells(list, m) == Reports(list, happened[m], known[TxnOf[m]])

Announced(m) == /\ txns[TxnOf[m]] = "committed" /\ happened[m] # NULL
                /\ m \in configured

(* A committed transaction announces each message something happened to,   *)
(* if the plugin is configured when that message's turn comes, whatever    *)
(* becomes of the transaction's other messages: once, with the events that *)
(* happened to it, in that order: none that the framework drops for want   *)
(* of a subscription or of a config, and none but the types registered     *)
(* after the transaction began, to which the driver could not subscribe.   *)
(* A message with none of them is announced without a list.  Nothing else  *)
(* is announced.                                                           *)
TellsWhatHappened ==
    /\ {n.msg : n \in sent} = {m \in Msgs : Announced(m)}
    /\ \A n, o \in sent : n.msg = o.msg => n = o
    /\ \A n \in sent : Tells(n.events, n.msg)

-----------------------------------------------------------------------------
(* The inductive invariant. *)
Lists == Seq(Events) \cup {NULL}

TxnTypeOK ==
    /\ push_notification_events \subseteq Events
    /\ txns \in [Txns -> {"open", "committed", "rolled back"}]
    /\ DOMAIN events = Txns
    /\ eventdata \in [Msgs -> Lists]
    /\ known \in [Txns -> SUBSET Events]
    /\ happened \in [Msgs -> Lists]
    /\ configured \subseteq Msgs

(* Every type registered when a transaction began is subscribed to in it,  *)
(* in a way that the framework records it.                                 *)
SubscribedInv ==
    \A t \in Txns : /\ DOMAIN events[t] = known[t]
                    /\ \A e \in known[t] \cap NeedsConfig : events[t][e] # {}

(* What the framework has recorded for a message, and what was sent of it, *)
(* is at any moment what the driver is due to tell.                        *)
TxnInv ==
    /\ TxnTypeOK
    /\ SubscribedInv
    /\ \A m \in configured : txns[TxnOf[m]] = "committed"
    /\ \A m \in Msgs : Tells(eventdata[m], m)
    /\ sent = {[msg |-> m, events |-> eventdata[m]] : m \in {n \in Msgs : Announced(n)}}

=============================================================================
