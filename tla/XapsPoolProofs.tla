--------------------------- MODULE XapsPoolProofs ---------------------------
(***************************************************************************)
(* When the config pool grows, for any users, settings and topics, as long *)
(* as every URL in use parses and no lookup key is a null pointer.         *)
(***************************************************************************)
EXTENDS XapsPool, XapsPluginProofs

(* A URL that does not parse is parsed again by every handler.             *)
AllUsable == \A s \in Settings : xaps_settings_get(s) => Parse[s.url] # NULL /\ s.lookup # NULL

(* The shared record still has what the last handler found. *)
SeenInv ==
    /\ DOMAIN seen = Kinds
    /\ seen["url"] # NULL => /\ xaps_global # NULL /\ xaps_global.http_url # NULL
                             /\ xaps_global.http_url_setting = seen["url"]
    /\ seen["lookup"] \notin {NULL, EMPTY} => /\ xaps_global # NULL
                                              /\ xaps_global.user_lookup = seen["lookup"]
    /\ seen["topic"] # NULL => /\ xaps_global # NULL
                               /\ xaps_global.aps_topic = seen["topic"]
    /\ GrowsOnDifference

(* The history variables change no step of the plugin. *)
LEMMA PoolSteps == ASSUME [PoolNext]_poolVars
                   PROVE  [Next]_vars
BY DEF PoolNext, Next, poolVars

LEMMA PoolIInv == PoolSpec => []IInv
<1>1. PoolInit => Init
  BY DEF PoolInit
<1>2. [PoolNext]_poolVars => [Next]_vars
  BY PoolSteps
<1>3. QED
  BY <1>1, <1>2, Inductive, PTL DEF PoolSpec, Spec

(* A handler finds its settings and leaves them in the record.             *)
LEMMA HandlerSeen ==
    ASSUME AllUsable, IInv, SeenInv, NEW u \in Users,
           xaps_notify(u) \/ cmd_xapplepushservice(u), AccountSettings(u)
    PROVE  SeenInv'
<1> DEFINE s == conf[u]
<1>1. /\ s \in Settings /\ xaps_global \in Configs \cup {NULL}
      /\ EndpointOf(Current(xaps_global))
  <2>1. EndpointOf(FreshConfig)
    BY DEF EndpointOf, FreshConfig
  <2>2. QED
    BY <2>1 DEF IInv, TypeOK, EndpointInv, Current, EndpointOf
<1>2. xaps_settings_get(s) =>
        /\ s.url \in Urls /\ Parse[s.url] # NULL /\ s.lookup # NULL /\ Usable(s)
  BY <1>1, SettingsAssumption DEF AllUsable, xaps_settings_get, SettingsType, Usable
<1>3. ~ReadsNull(xaps_global, s) /\ UNCHANGED crashed
  <2>1. ~ReadsNull(xaps_global, s)
    BY <1>2 DEF ReadsNull, xaps_settings_get
  <2>2. QED
    BY <2>1 DEF xaps_notify, cmd_xapplepushservice, Crash
<1>4. PICK path \in Paths, ok \in ClientInits :
        xaps_global' = xaps_init(xaps_global, s, path, ok)
  BY <1>3, HandlerFacts DEF IInv
<1>5. xaps_global' \in Configs /\ xaps_global' # NULL
  BY <1>1, <1>3, <1>4, InitType, SentinelAssumption
<1> DEFINE c == xaps_global'
<1>6. /\ c.aps_topic = Current(xaps_global).aps_topic
      /\ xaps_settings_get(s) =>
            /\ c.http_url # NULL /\ c.http_url_setting = s.url
            /\ c.user_lookup = IF s.lookup = EMPTY THEN NULL ELSE s.lookup
  <2>1. LeftBehind(xaps_global, s, path, ok, xaps_init(xaps_global, s, path, ok))
    <3> HIDE DEF s
    <3> QED
      BY <1>1, <1>3, InitFacts
  <2>2. QED
    BY <1>2, <1>4, <2>1 DEF LeftBehind
<1> HIDE DEF c
<1>7. seen["topic"] # NULL => c # NULL /\ c.aps_topic = seen["topic"]
  BY <1>5, <1>6 DEF SeenInv, Current, c
<1>8. seen' = IF ~xaps_settings_get(s)
              THEN [seen EXCEPT !["url"] = NULL, !["lookup"] = NULL]
              ELSE [seen EXCEPT !["url"] = s.url, !["lookup"] = s.lookup]
  BY <1>2 DEF AccountSettings, Finds
<1>9. /\ DOMAIN seen' = Kinds /\ seen'["topic"] = seen["topic"]
      /\ ~xaps_settings_get(s) => seen'["url"] = NULL /\ seen'["lookup"] = NULL
      /\ xaps_settings_get(s) => seen'["url"] = s.url /\ seen'["lookup"] = s.lookup
  BY <1>8 DEF SeenInv, Kinds, OwnKinds
<1>10. ~(ParsesUrl(xaps_global, s) /\ s.url = seen["url"])
  <2>1. SUFFICES ASSUME xaps_settings_get(s), s.url = seen["url"]
                 PROVE  ~NeedsParse(Current(xaps_global), s)
    BY DEF ParsesUrl
  <2>2. s.url # NULL
    BY <2>1 DEF xaps_settings_get
  <2>3. QED
    BY <2>1, <2>2 DEF NeedsParse, Current, SeenInv
<1>11. ~(CopiesLookup(xaps_global, s) /\ s.lookup = seen["lookup"])
  <2>1. SUFFICES ASSUME xaps_settings_get(s), s.lookup = seen["lookup"],
                        s.lookup # EMPTY
                 PROVE  RefreshUrl(Current(xaps_global), s).user_lookup = s.lookup
    BY DEF CopiesLookup, NeedsLookup
  <2>2. xaps_global # NULL /\ xaps_global.user_lookup = s.lookup
    BY <1>2, <2>1 DEF SeenInv
  <2>3. RefreshUrl(Current(xaps_global), s).user_lookup = Current(xaps_global).user_lookup
    <3>1. Current(xaps_global) \in Configs
      BY <1>1, <2>2 DEF Current
    <3>2. QED
      BY <3>1 DEF RefreshUrl, Configs
  <2>4. QED
    BY <2>2, <2>3 DEF Current
<1>12. waste' = waste
  <2>1. Repeats(xaps_global, s, seen) = {}
    BY <1>10, <1>11 DEF Repeats
  <2>2. QED
    BY <2>1 DEF AccountSettings
<1>13. QED
  BY <1>5, <1>6, <1>7, <1>9, <1>12 DEF SeenInv, GrowsOnDifference, c

(* A callback leaves the topic it found in the record.                     *)
LEMMA RespondSeen ==
    ASSUME IInv, SeenInv, NEW s \in Slots, NEW resp \in Responses,
           Respond(s, resp), AccountTopic(inflight[s], resp)
    PROVE  SeenInv'
<1>1. xaps_global # NULL /\ xaps_global \in Configs
  BY DEF Respond, Pending, IInv, QuietInv, TypeOK
<1>2. CASE inflight[s].callback # "register"
  BY <1>2 DEF Respond, AccountTopic, SeenInv, GrowsOnDifference
<1>3. CASE inflight[s].callback = "register"
  <2> DEFINE topic == IF resp \in Topics THEN resp ELSE NULL
  <2>1. xaps_global' = [xaps_global EXCEPT !.aps_topic = topic]
    BY <1>1, <1>3 DEF Respond, xaps_register_callback
  <2>2. /\ xaps_global'.http_url = xaps_global.http_url
        /\ xaps_global'.http_url_setting = xaps_global.http_url_setting
        /\ xaps_global'.user_lookup = xaps_global.user_lookup
        /\ xaps_global'.aps_topic = topic
    BY <1>1, <2>1 DEF Configs
  <2>3. xaps_global' # NULL
    <3>1. topic \in Topics \cup {NULL}
      OBVIOUS
    <3>2. xaps_global' \in Configs
      <4> HIDE DEF topic
      <4> QED
        BY <1>1, <2>1, <3>1 DEF Configs
    <3>3. QED
      BY <3>2, SentinelAssumption
  <2>4. seen' = [seen EXCEPT !["topic"] = topic]
    BY <1>3 DEF AccountTopic
  <2>5. /\ DOMAIN seen' = Kinds /\ seen'["url"] = seen["url"]
        /\ seen'["lookup"] = seen["lookup"] /\ seen'["topic"] = topic
    BY <2>4 DEF SeenInv, Kinds, OwnKinds
  <2>6. GrowsOnDifference'
    <3>1. CASE resp \notin Topics
      BY <1>3, <3>1 DEF AccountTopic, SeenInv, GrowsOnDifference
    <3>2. CASE resp \in Topics
      <4>1. resp # NULL
        BY <3>2, SentinelAssumption
      <4>2. NeedsTopic(xaps_global.aps_topic, resp) => resp # seen["topic"]
        BY <4>1 DEF NeedsTopic, SeenInv
      <4>3. waste' = waste \/ waste' \subseteq waste \cup {"same topic"}
        BY <1>3, <3>2, <4>2 DEF AccountTopic
      <4>4. QED
        BY <4>3 DEF SeenInv, GrowsOnDifference, Kinds, OwnKinds
    <3>3. QED
      BY <3>1, <3>2
  <2> HIDE DEF topic
  <2>7. QED
    BY <1>1, <2>2, <2>3, <2>5, <2>6 DEF SeenInv
<1>4. QED
  BY <1>2, <1>3

(* Cleanup forgets both. *)
LEMMA CleanupSeen ==
    ASSUME SeenInv, AccountCleanup,
           xaps_imap_plugin_deinit \/
               \E u \in Users : push_notification_driver_xaps_deinit(u)
    PROVE  SeenInv'
<1>1. CASE xaps_global' = NULL
  BY <1>1 DEF AccountCleanup, SeenInv, GrowsOnDifference, Nothing, Kinds, OwnKinds
<1>2. CASE xaps_global' # NULL
  <2>1. UNCHANGED <<xaps_global, seen, waste>>
    BY <1>2 DEF AccountCleanup, xaps_imap_plugin_deinit,
                push_notification_driver_xaps_deinit, push_notification_driver_xaps_cleanup
  <2>2. QED
    BY <2>1 DEF SeenInv, GrowsOnDifference
<1>3. QED
  BY <1>1, <1>2

(* The pool takes a URL, a lookup key or a topic only when a handler finds *)
(* another value than the one before, of whichever user, if every URL in   *)
(* use parses.                                                             *)
THEOREM PoolGrowsOnDifference ==
    ASSUME AllUsable
    PROVE  PoolSpec => []GrowsOnDifference
<1>1. PoolInit => SeenInv
  BY DEF PoolInit, Init, Nothing, Kinds, OwnKinds, SeenInv, GrowsOnDifference
<1>2. IInv /\ SeenInv /\ [PoolNext]_poolVars => SeenInv'
  <2> SUFFICES ASSUME IInv, SeenInv, [PoolNext]_poolVars
               PROVE  SeenInv'
    OBVIOUS
  <2>1. ASSUME NEW u \in Users, xaps_notify(u) \/ cmd_xapplepushservice(u),
               AccountSettings(u)
        PROVE  SeenInv'
    BY <2>1, AllUsable, HandlerSeen
  <2>2. ASSUME NEW s \in Slots, NEW resp \in Responses, Respond(s, resp),
               AccountTopic(inflight[s], resp)
        PROVE  SeenInv'
    BY <2>2, RespondSeen
  <2>3. CASE /\ \/ xaps_imap_plugin_deinit
                \/ \E u \in Users : push_notification_driver_xaps_deinit(u)
             /\ AccountCleanup
    BY <2>3, CleanupSeen
  <2>4. CASE /\ \/ register_client
                \/ \E u \in Users : BeginDeinit(u) \/ LogOut(u) \/ LogIn(u) \/ Reload(u)
             /\ UNCHANGED <<seen, own, stored, waste, own_waste>>
    <3>1. UNCHANGED <<xaps_global, seen, waste>>
      BY <2>4 DEF register_client, BeginDeinit, LogOut, LogIn, Reload
    <3>2. QED
      BY <3>1 DEF SeenInv, GrowsOnDifference
  <2>5. CASE UNCHANGED poolVars
    BY <2>5 DEF poolVars, vars, SeenInv, GrowsOnDifference
  <2>6. QED
    BY <2>1, <2>2, <2>3, <2>4, <2>5 DEF PoolNext
<1>3. SeenInv => GrowsOnDifference
  BY DEF SeenInv
<1>4. QED
  BY <1>1, <1>2, <1>3, PoolIInv, PTL DEF PoolSpec

-----------------------------------------------------------------------------
(* What run pool_two_users shows to be needed. *)
OneUser == \A u, v \in Users : u = v

(* The last handler for the user is the last handler.                      *)
OwnInv ==
    /\ OwnKinds \subseteq DOMAIN seen
    /\ DOMAIN own = Users
    /\ \A u \in Users : OwnKinds \subseteq DOMAIN own[u]
    /\ \A u \in Users : \A kind \in OwnKinds : own[u][kind] = seen[kind]
    /\ own_waste \subseteq waste \cap OwnKinds

(* What a handler finds depends on what was found before only as far as    *)
(* OwnKinds go.                                                            *)
LEMMA FindsAlike ==
    ASSUME NEW s, NEW f, NEW g, OwnKinds \subseteq DOMAIN f, OwnKinds \subseteq DOMAIN g,
           \A kind \in OwnKinds : f[kind] = g[kind]
    PROVE  /\ OwnKinds \subseteq DOMAIN Finds(s, f)
           /\ \A kind \in OwnKinds : Finds(s, f)[kind] = Finds(s, g)[kind]
           /\ \A conf_ : Repeats(conf_, s, f) = Repeats(conf_, s, g)
<1>1. OwnKinds = {"url", "lookup"}
  BY DEF OwnKinds
<1>2. DOMAIN Finds(s, f) = DOMAIN f
  BY DEF Finds
<1>3. CASE ~xaps_settings_get(s)
  <2>1. /\ Finds(s, f) = [f EXCEPT !["url"] = NULL, !["lookup"] = NULL]
        /\ Finds(s, g) = [g EXCEPT !["url"] = NULL, !["lookup"] = NULL]
    BY <1>3 DEF Finds
  <2>2. \A kind \in OwnKinds : Finds(s, f)[kind] = Finds(s, g)[kind]
    BY <1>1, <2>1
  <2>3. QED
    BY <1>2, <2>2 DEF Repeats
<1>4. CASE xaps_settings_get(s)
  <2>1. /\ Finds(s, f) = [f EXCEPT !["url"] = s.url,
                          !["lookup"] = IF Parse[s.url] = NULL THEN @ ELSE s.lookup]
        /\ Finds(s, g) = [g EXCEPT !["url"] = s.url,
                          !["lookup"] = IF Parse[s.url] = NULL THEN @ ELSE s.lookup]
    BY <1>4 DEF Finds
  <2>2. \A kind \in OwnKinds : Finds(s, f)[kind] = Finds(s, g)[kind]
    BY <1>1, <2>1
  <2>3. QED
    BY <1>2, <2>2 DEF Repeats
<1>5. QED
  BY <1>3, <1>4

LEMMA OwnStep ==
    ASSUME OneUser, OwnInv, [PoolNext]_poolVars
    PROVE  OwnInv'
<1>1. ASSUME NEW u \in Users, AccountSettings(u)
      PROVE  OwnInv'
  <2>1. /\ seen' = Finds(conf[u], seen)
        /\ own' = [own EXCEPT ![u] = Finds(conf[u], own[u])]
        /\ waste' = waste \cup Repeats(xaps_global, conf[u], seen)
        /\ own_waste' = own_waste \cup Repeats(xaps_global, conf[u], own[u])
    BY <1>1 DEF AccountSettings
  <2>2. \A v \in Users : v = u
    BY DEF OneUser
  <2>3. DOMAIN own' = Users /\ own'[u] = Finds(conf[u], own[u])
    BY <2>1 DEF OwnInv
  <2>4. /\ OwnKinds \subseteq DOMAIN Finds(conf[u], own[u])
        /\ OwnKinds \subseteq DOMAIN Finds(conf[u], seen)
        /\ \A kind \in OwnKinds : Finds(conf[u], own[u])[kind] = Finds(conf[u], seen)[kind]
        /\ Repeats(xaps_global, conf[u], own[u]) = Repeats(xaps_global, conf[u], seen)
    BY FindsAlike DEF OwnInv
  <2>5. Repeats(xaps_global, conf[u], seen) \subseteq OwnKinds
    BY DEF Repeats
  <2>6. own_waste' \subseteq waste' \cap OwnKinds
    BY <2>1, <2>4, <2>5 DEF OwnInv
  <2>7. QED
    BY <2>1, <2>2, <2>3, <2>4, <2>6 DEF OwnInv
<1>2. ASSUME NEW q, NEW resp, AccountTopic(q, resp)
      PROVE  OwnInv'
  <2>1. UNCHANGED <<own, own_waste>> /\ waste \subseteq waste'
    BY <1>2 DEF AccountTopic
  <2>2. /\ DOMAIN seen' = DOMAIN seen
        /\ \A kind \in OwnKinds : seen'[kind] = seen[kind]
    BY <1>2 DEF AccountTopic, OwnInv, OwnKinds
  <2>3. QED
    BY <2>1, <2>2 DEF OwnInv
<1>3. ASSUME AccountCleanup
      PROVE  OwnInv'
  <2>1. CASE seen' = Nothing /\ own' = NothingOwn
    <3>1. /\ DOMAIN Nothing = Kinds /\ DOMAIN NothingOwn = Users
          /\ OwnKinds \subseteq Kinds /\ \A kind \in OwnKinds : Nothing[kind] = NULL
          /\ \A u \in Users : /\ DOMAIN NothingOwn[u] = OwnKinds
                              /\ \A kind \in OwnKinds : NothingOwn[u][kind] = NULL
      BY DEF Nothing, NothingOwn, Kinds
    <3>2. UNCHANGED <<waste, own_waste>>
      BY <1>3 DEF AccountCleanup
    <3>3. QED
      BY <2>1, <3>1, <3>2 DEF OwnInv
  <2>2. CASE UNCHANGED <<seen, own, waste, own_waste>>
    BY <2>2 DEF OwnInv
  <2>3. QED
    BY <1>3, <2>1, <2>2 DEF AccountCleanup
<1>4. CASE UNCHANGED <<seen, own, waste, own_waste>>
  BY <1>4 DEF OwnInv
<1>5. QED
  BY <1>1, <1>2, <1>3, <1>4 DEF PoolNext, poolVars

(* In a process with one user the pool takes a URL or a lookup key only    *)
(* when that user's settings have changed, if every URL in use parses.     *)
THEOREM PoolGrowsOnChange ==
    ASSUME AllUsable, OneUser
    PROVE  PoolSpec => []GrowsOnChange
<1>1. PoolInit => OwnInv
  <2> SUFFICES ASSUME PoolInit
               PROVE  OwnInv
    OBVIOUS
  <2>1. seen = Nothing /\ own = NothingOwn /\ own_waste = {}
    BY DEF PoolInit
  <2>2. /\ DOMAIN Nothing = Kinds /\ DOMAIN NothingOwn = Users
        /\ OwnKinds \subseteq Kinds /\ \A kind \in OwnKinds : Nothing[kind] = NULL
        /\ \A u \in Users : /\ DOMAIN NothingOwn[u] = OwnKinds
                            /\ \A kind \in OwnKinds : NothingOwn[u][kind] = NULL
    BY DEF Nothing, NothingOwn, Kinds
  <2>3. QED
    BY <2>1, <2>2 DEF OwnInv
<1>2. OwnInv /\ [PoolNext]_poolVars => OwnInv'
  BY OwnStep, OneUser
<1>3. OwnInv /\ GrowsOnDifference => GrowsOnChange
  BY DEF OwnInv, GrowsOnDifference, GrowsOnChange, Kinds
<1>4. PoolSpec => []GrowsOnDifference
  BY PoolGrowsOnDifference, AllUsable
<1>5. QED
  BY <1>1, <1>2, <1>3, <1>4, PTL DEF PoolSpec

=============================================================================
