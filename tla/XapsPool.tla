------------------------------ MODULE XapsPool ------------------------------
(***************************************************************************)
(* What the handlers of XapsPlugin put into the config pool.  The pool is  *)
(* alloc-only: nothing in it is freed before cleanup, so the comments of   *)
(* xaps-utils.c and xaps-imap-plugin.c promise that URLs, lookup keys and  *)
(* topics are stored again only when they change.  The module adds history *)
(* variables to XapsPlugin and changes none of its steps.                  *)
(***************************************************************************)
EXTENDS XapsPlugin

VARIABLES
    seen,      \* seen[k]: what the last handler found for k, NULL if it failed
    own,       \* own[u][k]: what the last handler for u found
    stored,    \* the topic stored last
    waste,     \* the kinds of data stored although it was what seen has
    own_waste  \* those stored for a user although it was what own has

poolVars == <<vars, seen, own, stored, waste, own_waste>>

OwnKinds == {"url", "lookup"}
Kinds == OwnKinds \cup {"topic"}
Nothing == [kind \in Kinds |-> NULL]
NothingOwn == [u \in Users |-> [kind \in OwnKinds |-> NULL]]

(* What xaps_init() makes of settings s: URLs parsed, keys copied.         *)
ParsesUrl(g, s) == xaps_settings_get(s) /\ NeedsParse(Current(g), s)
CopiesLookup(g, s) == /\ xaps_settings_get(s)
                      /\ Parse[s.url] # NULL
                      /\ NeedsLookup(RefreshUrl(Current(g), s), s)

(* Of what goes into the pool, that which is the same as in before.        *)
Repeats(g, s, before) == {kind \in OwnKinds :
    /\ s[kind] = before[kind]
    /\ \/ kind = "url" /\ ParsesUrl(g, s)
       \/ kind = "lookup" /\ CopiesLookup(g, s)}

(* xaps_init() with the settings s has run, after before was found.        *)
Finds(s, before) ==
    IF ~xaps_settings_get(s)
    THEN [before EXCEPT !["url"] = NULL, !["lookup"] = NULL]
    ELSE [before EXCEPT !["url"] = s.url,
                        !["lookup"] = IF Parse[s.url] = NULL THEN @ ELSE s.lookup]

AccountSettings(u) ==
    /\ seen' = Finds(conf[u], seen)
    /\ own' = [own EXCEPT ![u] = Finds(conf[u], @)]
    /\ waste' = waste \cup Repeats(xaps_global, conf[u], seen)
    /\ own_waste' = own_waste \cup Repeats(xaps_global, conf[u], own[u])
    /\ UNCHANGED stored

(* Must xaps_payload_str() copy the topic, or is it the current one? *)
NeedsTopic(current, topic) == current # topic

AccountTopic(q, resp) ==
    /\ UNCHANGED <<own, own_waste>>
    /\ IF q.callback # "register" \/ resp \notin Topics
       THEN /\ seen' = IF q.callback # "register" THEN seen
                       ELSE [seen EXCEPT !["topic"] = NULL]
            /\ UNCHANGED <<stored, waste>>
       ELSE /\ seen' = [seen EXCEPT !["topic"] = resp]
            /\ IF NeedsTopic(xaps_global.aps_topic, resp)
               THEN /\ stored' = resp
                    /\ waste' = waste
                          \cup (IF resp = seen["topic"] THEN {"topic"} ELSE {})
                          \cup (IF resp = stored THEN {"same topic"} ELSE {})
               ELSE UNCHANGED <<stored, waste>>

(* Cleanup frees the pool with all that was put into it. *)
AccountCleanup ==
    /\ IF xaps_global' = NULL
       THEN seen' = Nothing /\ own' = NothingOwn /\ stored' = NULL
       ELSE UNCHANGED <<seen, own, stored>>
    /\ UNCHANGED <<waste, own_waste>>

PoolInit == /\ Init
            /\ seen = Nothing /\ own = NothingOwn
            /\ stored = NULL
            /\ waste = {} /\ own_waste = {}

PoolNext ==
    \/ \E u \in Users : /\ xaps_notify(u) \/ cmd_xapplepushservice(u)
                        /\ AccountSettings(u)
    \/ \E s \in Slots, resp \in Responses : /\ Respond(s, resp)
                                            /\ AccountTopic(inflight[s], resp)
    \/ /\ \/ xaps_imap_plugin_deinit
          \/ \E u \in Users : push_notification_driver_xaps_deinit(u)
       /\ AccountCleanup
    \/ /\ \/ register_client
          \/ \E u \in Users : \/ BeginDeinit(u)
                              \/ LogOut(u)
                              \/ LogIn(u)
                              \/ Reload(u)
       /\ UNCHANGED <<seen, own, stored, waste, own_waste>>

PoolSpec == PoolInit /\ [][PoolNext]_poolVars

-----------------------------------------------------------------------------
PoolTypeOK == /\ TypeOK
              /\ seen \in [Kinds -> Urls \cup Lookups \cup Topics \cup {NULL, EMPTY}]
              /\ own \in [Users -> [OwnKinds -> Urls \cup Lookups \cup {NULL, EMPTY}]]
              /\ stored \in Topics \cup {NULL}
              /\ waste \subseteq Kinds \cup {"same topic"}
              /\ own_waste \subseteq OwnKinds

(* xaps_url, the lookup key and the topic go into the pool again only when *)
(* a handler finds another value than the handler before it, of the same   *)
(* or of another user.  That is what the comparisons with the shared       *)
(* record come to.  It is less than their comments say (GrowsOnChange):    *)
(* the setting of neither user need have changed.                          *)
GrowsOnDifference == waste \cap Kinds = {}

(* A user's xaps_url and lookup key go into the pool again only when that  *)
(* user's settings have changed since its last handler, so that the pool   *)
(* does not grow on every notification or registration (the comments of    *)
(* xaps_init()).                                                           *)
GrowsOnChange == own_waste = {}

(* Registrations with an identical aps-topic store it once                 *)
(* (xaps_payload_str()'s comment).                                         *)
TopicStoredOnce == "same topic" \notin waste

=============================================================================
