-------------------------- MODULE XapsPluginProofs --------------------------
(***************************************************************************)
(* Theorems about XapsPlugin, for every set of users, settings and topics, *)
(* and for both builds.                                                    *)
(***************************************************************************)
EXTENDS XapsPlugin, TLAPS

(* xaps_init() leaves a well-formed configuration, whatever it found.      *)
LEMMA InitType ==
    ASSUME NEW g \in Configs \cup {NULL}, NEW s \in Settings,
           NEW path \in Paths, NEW ok \in ClientInits, ~ReadsNull(g, s)
    PROVE  xaps_init(g, s, path, ok) \in Configs
<1> DEFINE c == Current(g)
           parsed == RefreshUrl(c, s)
           looked == RefreshLookup(SetPath(parsed, path), s)
<1>1. c \in Configs
  BY DEF Current, FreshConfig, Configs
<1>2. s \in SettingsType /\ ok \in BOOLEAN
  BY SettingsAssumption DEF ClientInits
<1>3. FailClosed(c) \in Configs
  BY <1>1 DEF FailClosed, Configs
<1>4. CASE xaps_settings_get(s)
  <2>1. s.url \in Urls
    BY <1>2, <1>4 DEF xaps_settings_get, SettingsType
  <2>2. parsed \in Configs
    <3>1. CASE ~NeedsParse(c, s)
      BY <1>1, <3>1 DEF RefreshUrl
    <3>2. CASE NeedsParse(c, s) /\ Parse[s.url] = NULL
      BY <1>1, <3>2 DEF RefreshUrl, Configs
    <3>3. CASE NeedsParse(c, s) /\ Parse[s.url] # NULL
      <4>1. [host |-> Parse[s.url], path |-> NULL] \in HttpUrls
        BY <2>1, <3>3, UrlAssumption DEF HttpUrls
      <4>2. QED
        BY <1>1, <2>1, <3>3, <4>1 DEF RefreshUrl, Configs
    <3>4. QED
      BY <3>1, <3>2, <3>3
  <2>3. ASSUME parsed.http_url # NULL
        PROVE  EnsureClient(looked, ok) \in Configs
    <3>1. SetPath(parsed, path) \in Configs
      <4>1. parsed.http_url \in HttpUrls
        BY <2>2, <2>3 DEF Configs
      <4>2. [host |-> parsed.http_url.host, path |-> path] \in HttpUrls
        BY <4>1 DEF HttpUrls
      <4>3. QED
        BY <2>2, <4>2 DEF SetPath, Configs
    <3>2. s.lookup \in Lookups \cup {EMPTY}
      BY <1>2, <1>4, <2>3 DEF ReadsNull, SettingsType
    <3>3. looked \in Configs
      BY <3>1, <3>2 DEF RefreshLookup, Configs
    <3>4. QED
      BY <1>2, <3>3 DEF EnsureClient, Configs
  <2>4. QED
    BY <1>4, <2>2, <2>3 DEF xaps_init
<1>5. QED
  BY <1>3, <1>4 DEF xaps_init

LEMMA NameType ==
    ASSUME NEW g \in Configs, NEW u \in Users
    PROVE  get_real_mbox_user(g, u) \in Names
<1>1. CASE g.user_lookup \in {NULL, EMPTY} \/ Userdb[u][g.user_lookup] = NULL
  BY <1>1, UserAssumption DEF get_real_mbox_user
<1>2. CASE g.user_lookup \notin {NULL, EMPTY} /\ Userdb[u][g.user_lookup] # NULL
  <2>1. g.user_lookup \in Lookups
    BY <1>2 DEF Configs
  <2>2. Userdb[u][g.user_lookup] \in Names
    BY <1>2, <2>1, UserAssumption
  <2>3. QED
    BY <1>2, <2>2 DEF get_real_mbox_user
<1>3. QED
  BY <1>1, <1>2

(* A submitted request is well formed. *)
LEMMA SubmitType ==
    ASSUME TypeOK, NEW s \in Slots, NEW callback \in {"notify", "register"},
           NEW g \in Configs, NEW u \in Users, Configured(g), Submit(s, callback, g, u)
    PROVE  inflight' \in [Slots -> Requests \cup {NULL}]
<1>1. g.http_url \in HttpUrls
  BY DEF Configured, Configs
<1>2. get_real_mbox_user(g, u) \in Names
  BY NameType
<1>3. [callback |-> callback, user |-> u, url |-> g.http_url,
       name |-> get_real_mbox_user(g, u)] \in Requests
  BY <1>1, <1>2 DEF Requests
<1>4. QED
  BY <1>3 DEF Submit, TypeOK

(* What the handlers of one user do to the typed state. *)
LEMMA NotifyType ==
    ASSUME TypeOK, NEW u \in Users, xaps_notify(u)
    PROVE  TypeOK'
<1>1. CASE Crash(u)
  BY <1>1 DEF Crash, TypeOK
<1>2. CASE ~ReadsNull(xaps_global, conf[u])
  <2>1. PICK ok \in ClientInits :
          LET g == xaps_init(xaps_global, conf[u], "/notify", ok) IN
          /\ xaps_global' = g
          /\ IF Configured(g) THEN \E s \in Slots : Submit(s, "notify", g, u)
                              ELSE UNCHANGED inflight
    BY <1>2 DEF xaps_notify, Crash
  <2>2. UNCHANGED <<conf, users, cmd, reply, answer, crashed>>
    BY <1>2 DEF xaps_notify, Crash
  <2>3. xaps_global' \in Configs
    BY <1>2, <2>1, InitType DEF TypeOK, Paths
  <2>4. inflight' \in [Slots -> Requests \cup {NULL}]
    BY <2>1, <2>3, SubmitType DEF TypeOK
  <2>5. QED
    BY <2>2, <2>3, <2>4 DEF TypeOK
<1>3. QED
  BY <1>1, <1>2 DEF xaps_notify

LEMMA CommandType ==
    ASSUME TypeOK, NEW u \in Users, cmd_xapplepushservice(u)
    PROVE  TypeOK'
<1>1. CASE Crash(u)
  BY <1>1 DEF Crash, TypeOK
<1>2. CASE ~ReadsNull(xaps_global, conf[u])
  <2>1. PICK args \in Arguments, ok \in ClientInits :
          LET g == xaps_init(xaps_global, conf[u], "/register", ok) IN
          /\ xaps_global' = g
          /\ RejectCommand(args, g) \/ SubmitRegistration(u, args, g)
    BY <1>2 DEF cmd_xapplepushservice, Crash
  <2>2. UNCHANGED <<conf, users, crashed>> /\ answer' = NULL
    BY <1>2 DEF cmd_xapplepushservice, Crash
  <2>3. xaps_global' \in Configs
    BY <1>2, <2>1, InitType DEF TypeOK, Paths
  <2>4. /\ inflight' \in [Slots -> Requests \cup {NULL}]
        /\ cmd' \in Users \cup {NULL}
        /\ reply' \in {REFUSED, NULL}
    BY <2>1, <2>3, SubmitType DEF TypeOK, RejectCommand, SubmitRegistration
  <2>5. QED
    BY <2>2, <2>3, <2>4 DEF TypeOK
<1>3. QED
  BY <1>1, <1>2 DEF cmd_xapplepushservice

LEMMA RespondType ==
    ASSUME TypeOK, NEW s \in Slots, NEW resp \in Responses, Respond(s, resp)
    PROVE  TypeOK'
<1>1. ASSUME xaps_global # NULL
      PROVE  xaps_register_callback(xaps_global, resp) \in Configs
  BY <1>1 DEF TypeOK, Configs, xaps_register_callback
<1>2. xaps_global' \in Configs \cup {NULL} /\ answer' \in Topics \cup {REFUSED, NULL}
  BY <1>1 DEF Respond, TypeOK
<1>3. QED
  BY <1>2 DEF Respond, TypeOK

LEMMA RegisterClientType ==
    ASSUME TypeOK, WaitInv, register_client
    PROVE  TypeOK'
<1>1. xaps_global.aps_topic \in Topics \cup {NULL}
  BY DEF TypeOK, WaitInv, Configs, register_client
<1>2. QED
  BY <1>1 DEF TypeOK, register_client

(* The types are preserved by every step from a state of WaitInv, which    *)
(* register_client needs: it reads xaps_global without a test.             *)
LEMMA NextType ==
    ASSUME TypeOK, WaitInv, [Next]_vars
    PROVE  TypeOK'
<1>1. ASSUME NEW u \in Users, xaps_notify(u)
      PROVE  TypeOK'
  BY <1>1, NotifyType
<1>2. ASSUME NEW u \in Users, cmd_xapplepushservice(u)
      PROVE  TypeOK'
  BY <1>2, CommandType
<1>3. ASSUME NEW u \in Users,
             \/ BeginDeinit(u) \/ push_notification_driver_xaps_deinit(u)
             \/ LogOut(u) \/ LogIn(u)
      PROVE  TypeOK'
  BY <1>3 DEF TypeOK, BeginDeinit, push_notification_driver_xaps_deinit,
              push_notification_driver_xaps_cleanup, LogOut, LogIn
<1>4. ASSUME NEW u \in Users, Reload(u)
      PROVE  TypeOK'
  BY <1>4 DEF TypeOK, Reload
<1>5. CASE register_client
  BY <1>5, RegisterClientType
<1>6. ASSUME NEW s \in Slots, NEW resp \in Responses, Respond(s, resp)
      PROVE  TypeOK'
  BY <1>6, RespondType
<1>7. CASE xaps_imap_plugin_deinit
  BY <1>7 DEF TypeOK, xaps_imap_plugin_deinit, push_notification_driver_xaps_cleanup
<1>8. CASE UNCHANGED vars
  BY <1>8 DEF TypeOK, vars
<1>9. QED
  BY <1>1, <1>2, <1>3, <1>4, <1>5, <1>6, <1>7, <1>8 DEF Next

-----------------------------------------------------------------------------
(* WaitInv, action by action. *)

(* What Submit does to the slots. *)
LEMMA SubmitSlots ==
    ASSUME TypeOK, NEW s \in Slots, NEW callback, NEW g, NEW u, Submit(s, callback, g, u)
    PROVE  /\ inflight'[s].callback = callback /\ inflight'[s].user = u
           /\ ~Pending(s)
           /\ \A r \in Slots \ {s} : inflight'[r] = inflight[r]
BY DEF Submit, TypeOK

LEMMA NotifyWait ==
    ASSUME TypeOK, TypeOK', WaitInv, NEW u \in Users, xaps_notify(u)
    PROVE  WaitInv'
<1>1. cmd = NULL /\ UNCHANGED <<cmd, reply, answer>>
  BY DEF xaps_notify, Crash, Idle
<1>2. \A s \in Slots : Registers(s)' <=> Registers(s)
  <2>1. CASE UNCHANGED inflight
    BY <2>1 DEF Registers, Pending
  <2>2. CASE \E s \in Slots, g \in Configs : Submit(s, "notify", g, u)
    <3>1. PICK s \in Slots, g \in Configs : Submit(s, "notify", g, u)
      BY <2>2
    <3>2. ~Registers(s) /\ ~Registers(s)'
      BY <3>1, SubmitSlots DEF Registers
    <3>3. \A r \in Slots \ {s} : Registers(r)' <=> Registers(r)
      BY <3>1, SubmitSlots DEF Registers, Pending
    <3>4. QED
      BY <3>2, <3>3
  <2>3. QED
    BY <2>1, <2>2, InitType DEF xaps_notify, Crash, TypeOK, Paths
<1>3. QED
  BY <1>1, <1>2 DEF WaitInv, ReplyIsTheAnswer

LEMMA CommandWait ==
    ASSUME TypeOK, TypeOK', WaitInv, NEW u \in Users, cmd_xapplepushservice(u)
    PROVE  WaitInv'
<1>1. cmd = NULL
  BY DEF cmd_xapplepushservice, Idle
<1>2. \A s \in Slots : ~Registers(s)
  BY <1>1 DEF WaitInv
<1>3. CASE Crash(u)
  BY <1>3 DEF Crash, WaitInv, Registers, Pending, ReplyIsTheAnswer
<1>4. CASE ~ReadsNull(xaps_global, conf[u])
  <2>1. PICK args \in Arguments, ok \in ClientInits :
          LET g == xaps_init(xaps_global, conf[u], "/register", ok) IN
          /\ xaps_global' = g
          /\ RejectCommand(args, g) \/ SubmitRegistration(u, args, g)
    BY <1>4 DEF cmd_xapplepushservice, Crash
  <2>2. answer' = NULL
    BY <1>4 DEF cmd_xapplepushservice, Crash
  <2>3. xaps_global' \in Configs /\ xaps_global' # NULL
    BY <1>4, <2>1, InitType, SentinelAssumption DEF TypeOK, Paths
  <2>4. CASE RejectCommand(args, xaps_global')
    <3>1. reply' = REFUSED /\ UNCHANGED <<inflight, cmd>>
      BY <2>4 DEF RejectCommand
    <3>2. \A s \in Slots : ~Registers(s)'
      BY <1>2, <3>1 DEF Registers, Pending
    <3>3. {reply', answer'} \cap Topics = {}
      BY <2>2, <3>1, SentinelAssumption
    <3>4. QED
      BY <1>1, <3>1, <3>2, <3>3 DEF WaitInv, ReplyIsTheAnswer
  <2>5. CASE SubmitRegistration(u, args, xaps_global')
    <3>1. PICK s \in Slots : Submit(s, "register", xaps_global', u)
      BY <2>5 DEF SubmitRegistration
    <3>2. cmd' # NULL
      BY <2>5, SentinelAssumption DEF SubmitRegistration
    <3>3. \A r \in Slots \ {s} : ~Registers(r)'
      BY <1>2, <3>1, SubmitSlots DEF Registers, Pending
    <3>4. inflight'[s] # NULL
      <4>1. inflight'[s] = [callback |-> "register", user |-> u,
                            url |-> xaps_global'.http_url,
                            name |-> get_real_mbox_user(xaps_global', u)]
        BY <3>1 DEF Submit, TypeOK
      <4>2. inflight'[s] \in Requests
        <5>1. xaps_global'.http_url \in HttpUrls
          BY <2>3, <2>5 DEF SubmitRegistration, Configured, Configs
        <5>2. get_real_mbox_user(xaps_global', u) \in Names
          BY <2>3, NameType
        <5>3. QED
          BY <4>1, <5>1, <5>2 DEF Requests
      <4>3. QED
        BY <4>2, SentinelAssumption
    <3>5. Registers(s)'
      BY <3>1, <3>4, SubmitSlots DEF Registers, Pending
    <3>6. \A v \in Users : users'[v] # "deinit"
      BY <1>4 DEF cmd_xapplepushservice, Crash, Idle
    <3>7. QED
      BY <2>2, <2>3, <3>2, <3>3, <3>5, <3>6 DEF WaitInv, ReplyIsTheAnswer
  <2>6. QED
    BY <2>1, <2>4, <2>5
<1>5. QED
  BY <1>3, <1>4 DEF cmd_xapplepushservice

LEMMA RespondWait ==
    ASSUME TypeOK, TypeOK', WaitInv,
           NEW s \in Slots, NEW resp \in Responses, Respond(s, resp)
    PROVE  WaitInv'
<1>1. inflight'[s] = NULL /\ \A r \in Slots \ {s} : inflight'[r] = inflight[r]
  BY DEF Respond, TypeOK
<1>2. ~Registers(s)' /\ \A r \in Slots \ {s} : Registers(r)' <=> Registers(r)
  BY <1>1 DEF Registers, Pending
<1>3. UNCHANGED <<cmd, reply, users>>
  BY DEF Respond
<1>4. CASE Registers(s)
  <2>1. cmd # NULL /\ xaps_global # NULL
    BY <1>4 DEF WaitInv
  <2>2. \A r \in Slots : ~Registers(r)'
    BY <1>2, <1>4 DEF WaitInv
  <2>3. /\ xaps_global' = xaps_register_callback(xaps_global, resp)
        /\ answer' = IF resp \in Topics THEN resp ELSE REFUSED
    BY <1>4, <2>1 DEF Respond, Registers
  <2>4. answer' # NULL /\ (answer' \in Topics <=> resp \in Topics)
    BY <2>3, SentinelAssumption
  <2>5. xaps_global'.aps_topic = IF resp \in Topics THEN resp ELSE NULL
    BY <2>1, <2>3 DEF xaps_register_callback, TypeOK, Configs
  <2>6. xaps_global' # NULL
    <3>1. xaps_register_callback(xaps_global, resp) \in Configs
      BY <2>1 DEF TypeOK, Configs, xaps_register_callback
    <3>2. QED
      BY <2>3, <3>1, SentinelAssumption
  <2>7. QED
    BY <1>3, <2>1, <2>2, <2>3, <2>4, <2>5, <2>6 DEF WaitInv, ReplyIsTheAnswer
<1>5. CASE ~Registers(s)
  <2>1. UNCHANGED <<xaps_global, answer>>
    BY <1>5 DEF Respond, Registers
  <2>2. \A r \in Slots : Registers(r)' <=> Registers(r)
    BY <1>2, <1>5
  <2>3. QED
    BY <1>3, <2>1, <2>2 DEF WaitInv, ReplyIsTheAnswer
<1>6. QED
  BY <1>4, <1>5

LEMMA RegisterClientWait ==
    ASSUME TypeOK, WaitInv, register_client
    PROVE  WaitInv'
<1>1. \A s \in Slots : ~Registers(s) /\ ~Registers(s)'
  BY DEF register_client, WaitIsOver, NothingPending, Registers, Pending
<1>2. answer # NULL /\ UNCHANGED answer /\ cmd' = NULL
  BY <1>1 DEF register_client, WaitInv
<1>3. xaps_global.aps_topic = IF answer \in Topics THEN answer ELSE NULL
  BY <1>2 DEF register_client, WaitInv
<1>4. reply' = IF answer \in Topics THEN answer ELSE REFUSED
  BY <1>3, SentinelAssumption DEF register_client
<1>5. ReplyIsTheAnswer'
  BY <1>2, <1>4, SentinelAssumption DEF ReplyIsTheAnswer
<1>6. QED
  BY <1>1, <1>2, <1>5 DEF WaitInv

LEMMA NextWait ==
    ASSUME TypeOK, TypeOK', WaitInv, [Next]_vars
    PROVE  WaitInv'
<1>1. ASSUME NEW u \in Users, xaps_notify(u)
      PROVE  WaitInv'
  BY <1>1, NotifyWait
<1>2. ASSUME NEW u \in Users, cmd_xapplepushservice(u)
      PROVE  WaitInv'
  BY <1>2, CommandWait
<1>3. ASSUME NEW u \in Users,
             BeginDeinit(u) \/ LogOut(u) \/ LogIn(u) \/ Reload(u)
      PROVE  WaitInv'
  <2>1. UNCHANGED <<xaps_global, inflight, cmd, reply, answer>>
        /\ (cmd # NULL => UNCHANGED users)
    BY <1>3 DEF BeginDeinit, LogOut, LogIn, Reload, Idle
  <2>2. QED
    BY <2>1 DEF WaitInv, Registers, Pending, ReplyIsTheAnswer
<1>4. CASE register_client
  BY <1>4, RegisterClientWait
<1>5. ASSUME NEW s \in Slots, NEW resp \in Responses, Respond(s, resp)
      PROVE  WaitInv'
  BY <1>5, RespondWait
<1>6. CASE \/ xaps_imap_plugin_deinit
           \/ \E u \in Users : push_notification_driver_xaps_deinit(u)
  <2>1. cmd = NULL /\ UNCHANGED <<cmd, reply, answer>>
    BY <1>6 DEF xaps_imap_plugin_deinit, push_notification_driver_xaps_deinit, Idle, WaitInv
  <2>2. \A s \in Slots : inflight'[s] \in {inflight[s], NULL}
    BY <1>6 DEF xaps_imap_plugin_deinit, push_notification_driver_xaps_deinit,
                push_notification_driver_xaps_cleanup
  <2>3. \A s \in Slots : ~Registers(s)'
    BY <2>1, <2>2 DEF WaitInv, Registers, Pending
  <2>4. QED
    BY <2>1, <2>3 DEF WaitInv, ReplyIsTheAnswer
<1>7. CASE UNCHANGED vars
  BY <1>7 DEF vars, WaitInv, Registers, Pending, ReplyIsTheAnswer
<1>8. QED
  BY <1>1, <1>2, <1>3, <1>4, <1>5, <1>6, <1>7 DEF Next

-----------------------------------------------------------------------------
(* What xaps_init() leaves behind: the HTTP client of earlier handlers,    *)
(* and an endpoint that belongs to its recorded setting.                   *)
EndpointOf(g) ==
    g.http_url # NULL => /\ g.http_url_setting # NULL
                         /\ g.http_url.host = Parse[g.http_url_setting]

(* The path is written into the record of an endpoint that exists.         *)
LEMMA SetPathFacts ==
    ASSUME NEW g \in Configs, g.http_url # NULL, NEW path
    PROVE  /\ SetPath(g, path).http_url = [host |-> g.http_url.host, path |-> path]
           /\ SetPath(g, path).http_url_setting = g.http_url_setting
           /\ SetPath(g, path).http_client = g.http_client
           /\ SetPath(g, path).aps_topic = g.aps_topic
BY DEF SetPath, Configs

LEMMA RefreshFacts ==
    ASSUME NEW g \in Configs, EndpointOf(g), NEW s, s.url \in Urls
    PROVE  /\ RefreshUrl(g, s) \in Configs
           /\ RefreshUrl(g, s).http_client = g.http_client
           /\ RefreshUrl(g, s).aps_topic = g.aps_topic
           /\ EndpointOf(RefreshUrl(g, s))
           /\ RefreshUrl(g, s).http_url # NULL =>
                 RefreshUrl(g, s).http_url_setting = s.url
           /\ Parse[s.url] # NULL => RefreshUrl(g, s).http_url # NULL
<1>1. CASE ~NeedsParse(g, s)
  BY <1>1 DEF RefreshUrl, NeedsParse
<1>2. CASE NeedsParse(g, s) /\ Parse[s.url] = NULL
  BY <1>2 DEF RefreshUrl, Configs, EndpointOf
<1>3. CASE NeedsParse(g, s) /\ Parse[s.url] # NULL
  <2> DEFINE h == [host |-> Parse[s.url], path |-> NULL]
  <2>1. h \in HttpUrls
    BY <1>3, UrlAssumption DEF HttpUrls
  <2>2. RefreshUrl(g, s) = [g EXCEPT !.http_url = h, !.http_url_setting = s.url]
    BY <1>3 DEF RefreshUrl
  <2>3. /\ RefreshUrl(g, s) \in Configs
        /\ RefreshUrl(g, s).http_url = h
        /\ RefreshUrl(g, s).http_url_setting = s.url
        /\ RefreshUrl(g, s).http_client = g.http_client
        /\ RefreshUrl(g, s).aps_topic = g.aps_topic
    <3> HIDE DEF h
    <3> QED
      BY <2>1, <2>2 DEF Configs
  <2>4. s.url # NULL /\ h # NULL
    BY <2>1, SentinelAssumption
  <2>5. QED
    BY <2>3, <2>4 DEF EndpointOf
<1>4. QED
  BY <1>1, <1>2, <1>3

(* c after xaps_init() has served settings s on record g.                  *)
LeftBehind(g, s, path, ok, c) ==
    /\ EndpointOf(c)
    /\ c.http_client <=> Current(g).http_client \/ (Usable(s) /\ ok)
    /\ c.aps_topic = Current(g).aps_topic
    /\ Usable(s) <=> c.http_url # NULL
    /\ c.http_url # NULL =>
          /\ xaps_settings_get(s)
          /\ c.http_url = [host |-> Parse[s.url], path |-> path]
          /\ c.http_url_setting = s.url
          /\ c.user_lookup = IF s.lookup = EMPTY THEN NULL ELSE s.lookup

LEMMA InitFacts ==
    ASSUME NEW g \in Configs \cup {NULL}, EndpointOf(Current(g)),
           NEW s \in Settings, NEW path \in Paths, NEW ok \in ClientInits,
           ~ReadsNull(g, s)
    PROVE  LeftBehind(g, s, path, ok, xaps_init(g, s, path, ok))
<1> DEFINE old == Current(g)
           parsed == RefreshUrl(old, s)
           pathed == SetPath(parsed, path)
<1>1. old \in Configs
  BY DEF Current, FreshConfig, Configs
<1>2. CASE ~xaps_settings_get(s)
  <2>1. xaps_init(g, s, path, ok) = FailClosed(old)
    BY <1>2 DEF xaps_init
  <2>2. /\ FailClosed(old).http_url = NULL /\ FailClosed(old).http_client = old.http_client
        /\ FailClosed(old).aps_topic = old.aps_topic
    BY <1>1 DEF FailClosed, Configs
  <2>3. QED
    BY <1>2, <2>1, <2>2 DEF EndpointOf, Usable, LeftBehind
<1>3. CASE xaps_settings_get(s)
  <2>1. s.url \in Urls
    BY <1>3, SettingsAssumption DEF xaps_settings_get, SettingsType
  <2>2. /\ parsed \in Configs /\ parsed.http_client = old.http_client
        /\ parsed.aps_topic = old.aps_topic
        /\ EndpointOf(parsed)
        /\ parsed.http_url # NULL => parsed.http_url_setting = s.url
        /\ Parse[s.url] # NULL => parsed.http_url # NULL
    BY <1>1, <2>1, RefreshFacts
  <2>3. CASE parsed.http_url = NULL
    BY <1>3, <2>2, <2>3 DEF xaps_init, Usable, LeftBehind
  <2>4. CASE parsed.http_url # NULL
    <3>1. pathed \in Configs
      <4>1. parsed.http_url \in HttpUrls
        BY <2>2, <2>4 DEF Configs
      <4>2. [host |-> parsed.http_url.host, path |-> path] \in HttpUrls
        BY <4>1 DEF HttpUrls
      <4>3. QED
        BY <2>2, <4>2 DEF SetPath, Configs
    <3>2. /\ pathed.http_url = [host |-> Parse[s.url], path |-> path]
          /\ pathed.http_url_setting = s.url
          /\ pathed.http_client = old.http_client /\ pathed.aps_topic = old.aps_topic
      BY <2>2, <2>4, SetPathFacts DEF EndpointOf
    <3> DEFINE looked == RefreshLookup(pathed, s)
    <3>3. /\ looked.http_url = pathed.http_url
          /\ looked.http_url_setting = pathed.http_url_setting
          /\ looked.http_client = pathed.http_client /\ looked.aps_topic = pathed.aps_topic
          /\ looked.user_lookup = IF s.lookup = EMPTY THEN NULL ELSE s.lookup
      <4> HIDE DEF pathed
      <4> QED
        BY <3>1 DEF RefreshLookup, NeedsLookup, Configs
    <3>4. xaps_init(g, s, path, ok) = EnsureClient(looked, ok)
      BY <1>3, <2>4 DEF xaps_init
    <3>5. /\ EnsureClient(looked, ok).http_url = looked.http_url
          /\ EnsureClient(looked, ok).http_url_setting = looked.http_url_setting
          /\ EnsureClient(looked, ok).http_client = (looked.http_client \/ ok)
          /\ EnsureClient(looked, ok).user_lookup = looked.user_lookup
          /\ EnsureClient(looked, ok).aps_topic = looked.aps_topic
      <4>1. DOMAIN looked = DOMAIN pathed
        BY DEF RefreshLookup
      <4>2. {"http_url", "http_url_setting", "http_client", "user_lookup", "aps_topic"}
               \subseteq DOMAIN pathed
        BY <3>1 DEF Configs
      <4> HIDE DEF looked
      <4> QED
        BY <4>1, <4>2 DEF EnsureClient
    <3>6. [host |-> Parse[s.url], path |-> path].host = Parse[s.url]
      OBVIOUS
    <3>7. s.url # NULL /\ pathed.http_url # NULL
      <4>1. parsed.http_url \in HttpUrls /\ parsed.http_url.host = Parse[s.url]
        BY <2>2, <2>4 DEF Configs, EndpointOf
      <4>2. [host |-> Parse[s.url], path |-> path] \in HttpUrls
        BY <4>1 DEF HttpUrls
      <4> HIDE DEF pathed
      <4>3. QED
        BY <2>1, <3>2, <4>2, SentinelAssumption
    <3>8. Usable(s)
      <4>1. parsed.http_url \in HttpUrls /\ parsed.http_url.host = Parse[s.url]
        BY <2>2, <2>4 DEF Configs, EndpointOf
      <4>2. Parse[s.url] # NULL
        BY <4>1, SentinelAssumption DEF HttpUrls
      <4>3. QED
        BY <1>3, <4>2 DEF Usable
    <3> HIDE DEF looked, pathed
    <3>9. QED
      BY <1>3, <3>2, <3>3, <3>4, <3>5, <3>6, <3>7, <3>8 DEF EndpointOf, LeftBehind
  <2>5. QED
    BY <2>3, <2>4
<1>4. QED
  BY <1>2, <1>3

-----------------------------------------------------------------------------
(* A handler of user u that is not cut short: the next configuration, and  *)
(* the request it may have submitted.                                      *)
LEMMA HandlerFacts ==
    ASSUME TypeOK, EndpointInv, NEW u \in Users,
           xaps_notify(u) \/ cmd_xapplepushservice(u), UNCHANGED crashed
    PROVE  \E path \in Paths, ok \in ClientInits :
             LET g == xaps_init(xaps_global, conf[u], path, ok) IN
             /\ ~ReadsNull(xaps_global, conf[u])
             /\ xaps_global' = g
             /\ \/ UNCHANGED inflight
                \/ \E s \in Slots : \E callback \in {"notify", "register"} :
                      /\ path = Target(conf[u], callback).path
                      /\ Owns(u, callback)
                      /\ Configured(g)
                      /\ Submit(s, callback, g, u)
<1>1. ~Crash(u)
  BY DEF Crash, xaps_notify, cmd_xapplepushservice, Idle
<1>2. CASE xaps_notify(u)
  <2>1. Target(conf[u], "notify").path = "/notify" /\ "/notify" \in Paths
    BY DEF Target, Paths
  <2>2. PICK ok \in ClientInits :
          LET g == xaps_init(xaps_global, conf[u], "/notify", ok) IN
          /\ xaps_global' = g
          /\ IF Configured(g) THEN \E s \in Slots : Submit(s, "notify", g, u)
                              ELSE UNCHANGED inflight
    BY <1>1, <1>2 DEF xaps_notify
  <2>3. ~ReadsNull(xaps_global, conf[u]) /\ Owns(u, "notify")
    BY <1>1, <1>2 DEF xaps_notify, Owns
  <2>4. QED
    BY <2>1, <2>2, <2>3
<1>3. CASE cmd_xapplepushservice(u)
  <2>1. Target(conf[u], "register").path = "/register" /\ "/register" \in Paths
    BY DEF Target, Paths
  <2>2. PICK args \in Arguments, ok \in ClientInits :
          LET g == xaps_init(xaps_global, conf[u], "/register", ok) IN
          /\ xaps_global' = g
          /\ RejectCommand(args, g) \/ SubmitRegistration(u, args, g)
    BY <1>1, <1>3 DEF cmd_xapplepushservice
  <2>3. ~ReadsNull(xaps_global, conf[u]) /\ Owns(u, "register")
    BY <1>1, <1>3 DEF cmd_xapplepushservice, Owns
  <2>4. QED
    BY <2>1, <2>2, <2>3 DEF RejectCommand, SubmitRegistration
<1>4. QED
  BY <1>2, <1>3

(* A handler that dereferences a null pointer changes nothing but crashed. *)
LEMMA CrashFacts ==
    ASSUME NEW u \in Users,
           xaps_notify(u) \/ cmd_xapplepushservice(u), ~UNCHANGED crashed
    PROVE  UNCHANGED <<conf, xaps_global, inflight, users, cmd, reply, answer>>
BY DEF xaps_notify, cmd_xapplepushservice, Crash

LEMMA HandlerQuiet ==
    ASSUME TypeOK, TypeOK', QuietInv, EndpointInv, NEW u \in Users,
           xaps_notify(u) \/ cmd_xapplepushservice(u)
    PROVE  QuietInv' /\ EndpointInv'
<1>1. CASE ~UNCHANGED crashed
  BY <1>1, CrashFacts DEF QuietInv, Owns, EndpointInv, Pending
<1>2. CASE UNCHANGED crashed
  <2>1. UNCHANGED users
    BY DEF xaps_notify, cmd_xapplepushservice, Crash
  <2>2. PICK path \in Paths, ok \in ClientInits :
          /\ ~ReadsNull(xaps_global, conf[u])
          /\ xaps_global' = xaps_init(xaps_global, conf[u], path, ok)
          /\ \/ UNCHANGED inflight
             \/ \E s \in Slots : \E callback \in {"notify", "register"} :
                   /\ Owns(u, callback)
                   /\ Configured(xaps_global')
                   /\ Submit(s, callback, xaps_global', u)
    BY <1>2, HandlerFacts
  <2>3. xaps_global' \in Configs /\ xaps_global' # NULL
    BY <2>2, InitType, SentinelAssumption DEF TypeOK
  <2>4. EndpointOf(Current(xaps_global))
    BY DEF EndpointOf, Current, FreshConfig, EndpointInv
  <2>5. /\ EndpointOf(xaps_global')
        /\ Current(xaps_global).http_client => xaps_global'.http_client
    BY <2>2, <2>4, InitFacts DEF TypeOK, LeftBehind
  <2>6. ASSUME NEW s \in Slots, Pending(s)'
        PROVE  xaps_global'.http_client /\ Owns(inflight[s].user, inflight[s].callback)'
    <3>1. CASE Pending(s) /\ inflight'[s] = inflight[s]
      BY <2>1, <2>5, <3>1 DEF QuietInv, Owns, Current
    <3>2. CASE ~(Pending(s) /\ inflight'[s] = inflight[s])
      <4>1. PICK r \in Slots, callback \in {"notify", "register"} :
              /\ Owns(u, callback)
              /\ Configured(xaps_global')
              /\ Submit(r, callback, xaps_global', u)
        BY <2>2, <2>6, <3>2 DEF Pending
      <4>2. r = s
        BY <2>6, <3>2, <4>1, SubmitSlots DEF Pending
      <4>3. QED
        BY <2>1, <4>1, <4>2, SubmitSlots DEF Configured, Owns
    <3>3. QED
      BY <3>1, <3>2
  <2>7. QED
    BY <2>3, <2>5, <2>6 DEF QuietInv, EndpointInv, EndpointOf
<1>3. QED
  BY <1>1, <1>2

LEMMA RespondQuiet ==
    ASSUME TypeOK, QuietInv, EndpointInv,
           NEW s \in Slots, NEW resp \in Responses, Respond(s, resp)
    PROVE  QuietInv' /\ EndpointInv'
<1>1. xaps_global # NULL /\ xaps_global \in Configs
  BY DEF Respond, QuietInv, TypeOK
<1>2. xaps_global' # NULL
      /\ \A f \in {"http_url", "http_url_setting", "http_client"} :
            xaps_global'[f] = xaps_global[f]
  <2>1. LET c == xaps_register_callback(xaps_global, resp) IN
        /\ c \in Configs
        /\ \A f \in {"http_url", "http_url_setting", "http_client"} : c[f] = xaps_global[f]
    BY <1>1 DEF xaps_register_callback, Configs
  <2>2. xaps_global' \in {xaps_global, xaps_register_callback(xaps_global, resp)}
    BY <1>1 DEF Respond
  <2>3. QED
    BY <1>1, <2>1, <2>2, SentinelAssumption
<1>3. \A r \in Slots : Pending(r)' => Pending(r) /\ inflight'[r] = inflight[r]
  BY DEF Respond, Pending, TypeOK
<1>4. UNCHANGED users
  BY DEF Respond
<1>5. QED
  BY <1>1, <1>2, <1>3, <1>4 DEF QuietInv, Owns, EndpointInv

LEMMA NextQuiet ==
    ASSUME TypeOK, TypeOK', WaitInv, QuietInv, EndpointInv, [Next]_vars
    PROVE  QuietInv' /\ EndpointInv'
<1>1. ASSUME NEW u \in Users, xaps_notify(u) \/ cmd_xapplepushservice(u)
      PROVE  QuietInv' /\ EndpointInv'
  BY <1>1, HandlerQuiet
<1>2. ASSUME NEW u \in Users, BeginDeinit(u) \/ LogOut(u) \/ LogIn(u)
      PROVE  QuietInv' /\ EndpointInv'
  <2>1. UNCHANGED <<xaps_global, inflight>>
    BY <1>2 DEF BeginDeinit, LogOut, LogIn
  <2>2. \A s \in Slots : ~Registers(s)
    BY <1>2 DEF BeginDeinit, LogOut, LogIn, Idle, WaitInv
  <2>3. \A s \in Slots : Pending(s) =>
          inflight[s].user \in Users /\ inflight[s].callback = "notify"
    BY <2>2 DEF Registers, Pending, TypeOK, Requests
  <2>4. \A v \in Users : Owns(v, "notify") => Owns(v, "notify")'
    BY <1>2 DEF BeginDeinit, LogOut, LogIn, Owns, TypeOK
  <2>5. QED
    BY <2>1, <2>3, <2>4 DEF QuietInv, EndpointInv, Pending, Owns
<1>3. ASSUME NEW u \in Users, push_notification_driver_xaps_deinit(u)
      PROVE  QuietInv' /\ EndpointInv'
  <2>1. NothingPending
    BY <1>3 DEF push_notification_driver_xaps_deinit, DeinitWaits, WaitIsOver,
                QuietInv, NothingPending
  <2>2. \A s \in Slots : inflight'[s] = NULL
    BY <1>3, <2>1 DEF push_notification_driver_xaps_deinit,
                      push_notification_driver_xaps_cleanup, NothingPending, Pending
  <2>3. xaps_global' \in {xaps_global, NULL}
    BY <1>3 DEF push_notification_driver_xaps_deinit, push_notification_driver_xaps_cleanup
  <2>4. QED
    BY <2>2, <2>3 DEF QuietInv, EndpointInv, Pending
<1>4. CASE register_client \/ \E u \in Users : Reload(u)
  BY <1>4 DEF register_client, Reload, QuietInv, Owns, EndpointInv, Pending
<1>5. ASSUME NEW s \in Slots, NEW resp \in Responses, Respond(s, resp)
      PROVE  QuietInv' /\ EndpointInv'
  BY <1>5, RespondQuiet
<1>6. CASE xaps_imap_plugin_deinit
  BY <1>6 DEF xaps_imap_plugin_deinit, push_notification_driver_xaps_cleanup,
              QuietInv, Owns, EndpointInv, Pending
<1>7. CASE UNCHANGED vars
  BY <1>7 DEF vars, QuietInv, Owns, EndpointInv, Pending
<1>8. QED
  BY <1>1, <1>2, <1>3, <1>4, <1>5, <1>6, <1>7 DEF Next

-----------------------------------------------------------------------------
(* IInv is inductive, so it holds in every reachable state.                *)
THEOREM Inductive == Spec => []IInv
<1>1. Init => IInv
  <2>1. ASSUME Init
        PROVE  TypeOK /\ WaitInv /\ QuietInv /\ EndpointInv
    <3>1. TypeOK
      BY <2>1 DEF Init, TypeOK
    <3>2. \A s \in Slots : ~Pending(s)
      BY <2>1 DEF Init, Pending
    <3>3. {reply, answer} \cap Topics = {}
      BY <2>1, SentinelAssumption DEF Init
    <3>4. QED
      BY <2>1, <3>1, <3>2, <3>3 DEF Init, WaitInv, Registers, ReplyIsTheAnswer,
                                    QuietInv, EndpointInv
  <2>2. QED
    BY <2>1 DEF IInv
<1>2. IInv /\ [Next]_vars => IInv'
  BY NextType, NextWait, NextQuiet DEF IInv
<1>3. QED
  BY <1>1, <1>2, PTL DEF Spec

(* The state variables keep their types in every reachable state.          *)
THEOREM TypeCorrect == Spec => []TypeOK
<1>1. IInv => TypeOK
  BY DEF IInv
<1>2. QED
  BY <1>1, Inductive, PTL

(* XAPPLEPUSHSERVICE answers "OK" with a topic exactly if the daemon       *)
(* returned that topic for this command (register_client reads it back     *)
(* from the record shared by all users).                                   *)
THEOREM ReplyCorrect == Spec => []ReplyIsTheAnswer
<1>1. IInv => ReplyIsTheAnswer
  BY DEF IInv, WaitInv
<1>2. QED
  BY <1>1, Inductive, PTL

(* No request outlives the logout of its user.                             *)
THEOREM DeinitQuiets == Spec => []GoneUsersAreQuiet
<1>1. IInv => GoneUsersAreQuiet
  BY DEF IInv, QuietInv, Owns, GoneUsersAreQuiet
<1>2. QED
  BY <1>1, Inductive, PTL

(* A request made from a record that xaps_init() has just refreshed is the *)
(* one that u's own settings call for.                                     *)
LEMMA MadeFromSettings ==
    ASSUME TypeOK, EndpointInv, NEW u \in Users, NEW path \in Paths, NEW ok \in ClientInits,
           ~ReadsNull(xaps_global, conf[u]), NEW g,
           g = xaps_init(xaps_global, conf[u], path, ok), Configured(g)
    PROVE  /\ xaps_settings_get(conf[u]) /\ conf[u].lookup # NULL
           /\ g.http_url = [host |-> Parse[conf[u].url], path |-> path]
           /\ get_real_mbox_user(g, u) = NameUnder(conf[u], u)
<1>1. EndpointOf(Current(xaps_global))
  BY DEF EndpointInv, EndpointOf, Current, FreshConfig
<1>2. conf[u] \in Settings /\ xaps_global \in Configs \cup {NULL}
  BY DEF TypeOK
<1>3. LeftBehind(xaps_global, conf[u], path, ok, g)
  BY <1>1, <1>2, InitFacts
<1>4. /\ xaps_settings_get(conf[u])
      /\ g.http_url = [host |-> Parse[conf[u].url], path |-> path]
      /\ g.user_lookup = IF conf[u].lookup = EMPTY THEN NULL ELSE conf[u].lookup
  BY <1>3 DEF Configured, LeftBehind
<1>5. conf[u].lookup # NULL
  <2>1. RefreshUrl(Current(xaps_global), conf[u]).http_url # NULL
    BY <1>4 DEF xaps_init, Configured
  <2>2. QED
    BY <1>4, <2>1 DEF ReadsNull
<1>6. QED
  BY <1>4, <1>5 DEF get_real_mbox_user, NameUnder

(* One step of the routing property: the new requests of a step agree with *)
(* the settings their users have at that step (xaps_init() has just        *)
(* refreshed the shared endpoint and lookup key from them).                *)
LEMMA StepRoutes ==
    ASSUME IInv, [Next]_vars, NEW s \in Slots, ~Pending(s), Pending(s)'
    PROVE  Agrees(inflight'[s], conf[inflight'[s].user])
<1>1. PICK u \in Users : xaps_notify(u) \/ cmd_xapplepushservice(u)
  <2>1. ASSUME NEW r \in Slots, NEW resp \in Responses, Respond(r, resp)
        PROVE  FALSE
    BY <2>1 DEF Respond, IInv, TypeOK, Pending
  <2>2. inflight'[s] # inflight[s] /\ inflight'[s] # NULL
    BY DEF Pending
  <2>3. /\ \A v \in Users : ~push_notification_driver_xaps_deinit(v)
        /\ ~xaps_imap_plugin_deinit
    BY <2>2 DEF push_notification_driver_xaps_deinit, xaps_imap_plugin_deinit,
                push_notification_driver_xaps_cleanup
  <2>4. QED
    BY <2>1, <2>2, <2>3 DEF Next, vars, BeginDeinit, LogOut, LogIn, Reload,
                            register_client
<1>2. UNCHANGED crashed
  BY <1>1, CrashFacts DEF Pending
<1>3. PICK path \in Paths, ok \in ClientInits :
        LET g == xaps_init(xaps_global, conf[u], path, ok) IN
        /\ ~ReadsNull(xaps_global, conf[u])
        /\ \/ UNCHANGED inflight
           \/ \E r \in Slots : \E callback \in {"notify", "register"} :
                 /\ path = Target(conf[u], callback).path
                 /\ Configured(g)
                 /\ Submit(r, callback, g, u)
  BY <1>1, <1>2, HandlerFacts DEF IInv
<1> DEFINE g == xaps_init(xaps_global, conf[u], path, ok)
<1>4. PICK r \in Slots, callback \in {"notify", "register"} :
        /\ path = Target(conf[u], callback).path
        /\ Configured(g)
        /\ Submit(r, callback, g, u)
  BY <1>3 DEF Pending
<1>5. inflight'[s] = [callback |-> callback, user |-> u, url |-> g.http_url,
                      name |-> get_real_mbox_user(g, u)]
  <2> HIDE DEF g
  <2>1. r = s
    BY <1>4, SubmitSlots DEF IInv, Pending
  <2>2. QED
    BY <1>4, <2>1 DEF Submit, IInv, TypeOK
<1>6. /\ xaps_settings_get(conf[u])
      /\ g.http_url = [host |-> Parse[conf[u].url], path |-> path]
      /\ get_real_mbox_user(g, u) = NameUnder(conf[u], u)
  BY <1>3, <1>4, MadeFromSettings DEF IInv
<1>7. g.http_url = Target(conf[u], callback)
  BY <1>4, <1>6 DEF Target
<1>8. QED
  <2> HIDE DEF g
  <2> QED
    BY <1>5, <1>6, <1>7 DEF Agrees

(* Every request goes to the daemon, the path and the account name that    *)
(* its user's settings name when it is submitted.                          *)
THEOREM RoutingCorrect == Spec => RoutedBySettings
<1>1. IInv /\ [Next]_vars =>
        [\A s \in Slots : ~Pending(s) /\ Pending(s)' =>
            Agrees(inflight'[s], conf[inflight'[s].user])]_vars
  BY StepRoutes
<1>2. QED
  BY <1>1, Inductive, PTL DEF Spec, RoutedBySettings

(* Cleanup, from a logout or from unloading, drops no request.              *)
THEOREM CleanupIsLossless == Spec => CleanupLosesNothing
<1>1. ASSUME IInv, [Next]_vars, xaps_global # NULL, xaps_global' = NULL
      PROVE  NothingPending
  <2>1. CASE \E u \in Users : push_notification_driver_xaps_deinit(u)
    BY <1>1, <2>1 DEF push_notification_driver_xaps_deinit, DeinitWaits, WaitIsOver,
                      IInv, QuietInv, NothingPending
  <2>2. CASE xaps_imap_plugin_deinit
    <3>1. \A s \in Slots : Pending(s) => inflight[s].user \in Users
      BY <1>1 DEF IInv, TypeOK, Pending, Requests
    <3>2. QED
      BY <1>1, <2>2, <3>1 DEF xaps_imap_plugin_deinit, IInv, QuietInv, Owns, NothingPending
  <2>3. ASSUME NEW u \in Users, xaps_notify(u) \/ cmd_xapplepushservice(u)
        PROVE  FALSE
    <3>1. UNCHANGED crashed
      BY <1>1, <2>3, CrashFacts
    <3>2. PICK path \in Paths, ok \in ClientInits :
            /\ ~ReadsNull(xaps_global, conf[u])
            /\ xaps_global' = xaps_init(xaps_global, conf[u], path, ok)
      BY <1>1, <2>3, <3>1, HandlerFacts DEF IInv
    <3>3. QED
      BY <1>1, <3>2, InitType, SentinelAssumption DEF IInv, TypeOK
  <2>4. ASSUME NEW s \in Slots, NEW resp \in Responses, Respond(s, resp)
        PROVE  FALSE
    <3>1. xaps_register_callback(xaps_global, resp) \in Configs
      BY <1>1 DEF xaps_register_callback, IInv, TypeOK, Configs
    <3>2. QED
      BY <1>1, <2>4, <3>1, SentinelAssumption DEF Respond
  <2>5. QED
    BY <1>1, <2>1, <2>2, <2>3, <2>4 DEF Next, vars, BeginDeinit, LogOut, LogIn, Reload,
                                        register_client
<1>2. QED
  BY <1>1, Inductive, PTL DEF Spec, CleanupLosesNothing

(* A message for a user whose settings are usable is announced, whatever   *)
(* the process has been through, as soon as there is an HTTP client.       *)
THEOREM UsableNotifies == Spec => UsableIsNotified
<1>1. ASSUME IInv, NEW u \in Users, xaps_notify(u), ~crashed',
             Usable(conf[u]), xaps_global'.http_client
      PROVE  \E s \in Slots : /\ ~Pending(s) /\ Pending(s)'
                              /\ inflight'[s].user = u
  <2>1. PICK ok \in ClientInits :
          LET g == xaps_init(xaps_global, conf[u], "/notify", ok) IN
          /\ ~ReadsNull(xaps_global, conf[u])
          /\ xaps_global' = g
          /\ IF Configured(g) THEN \E s \in Slots : Submit(s, "notify", g, u)
                              ELSE UNCHANGED inflight
    BY <1>1 DEF xaps_notify, Crash
  <2>2. EndpointOf(Current(xaps_global))
    BY <1>1 DEF IInv, EndpointInv, EndpointOf, Current, FreshConfig
  <2>3. xaps_global' \in Configs /\ xaps_global'.http_url # NULL
    BY <1>1, <2>1, <2>2, InitFacts, InitType DEF IInv, TypeOK, Paths, LeftBehind
  <2>4. Configured(xaps_global')
    BY <1>1, <2>3 DEF Configured
  <2>5. PICK s \in Slots : Submit(s, "notify", xaps_global', u)
    BY <2>1, <2>4
  <2>6. ~Pending(s) /\ inflight'[s].user = u /\ inflight'[s] # NULL
    <3>1. inflight'[s] = [callback |-> "notify", user |-> u,
                          url |-> xaps_global'.http_url,
                          name |-> get_real_mbox_user(xaps_global', u)]
      BY <1>1, <2>5 DEF Submit, IInv, TypeOK
    <3>2. xaps_global'.http_url \in HttpUrls
      BY <2>3 DEF Configs
    <3>3. get_real_mbox_user(xaps_global', u) \in Names
      BY <2>3, NameType
    <3>4. inflight'[s] \in Requests
      BY <3>1, <3>2, <3>3 DEF Requests
    <3>5. QED
      BY <2>5, <3>1, <3>4, SentinelAssumption DEF Submit
  <2>7. QED
    BY <2>6 DEF Pending
<1>2. IInv /\ [Next]_vars =>
        [\A u \in Users :
            /\ xaps_notify(u) /\ ~crashed'
            /\ Usable(conf[u]) /\ xaps_global'.http_client
            => \E s \in Slots : /\ ~Pending(s) /\ Pending(s)'
                                /\ inflight'[s].user = u]_vars
  BY <1>1
<1>3. QED
  BY <1>2, Inductive, PTL DEF Spec, UsableIsNotified

(* A handler that reads a setting through a null pointer has a usable      *)
(* xaps_url and no xaps_user_lookup.                                       *)
LEMMA CrashReason ==
    ASSUME IInv, NEW u \in Users, Crash(u)
    PROVE  /\ conf[u].url \notin {NULL, EMPTY}
           /\ Parse[conf[u].url] # NULL
           /\ conf[u].lookup = NULL
<1>1. conf[u] \in SettingsType /\ xaps_global \in Configs \cup {NULL}
  BY SettingsAssumption DEF IInv, TypeOK
<1>2. conf[u].url \in Urls /\ xaps_settings_get(conf[u])
  BY <1>1 DEF Crash, ReadsNull, xaps_settings_get, SettingsType
<1>3. /\ RefreshUrl(Current(xaps_global), conf[u]).http_url # NULL
      /\ conf[u].lookup = NULL
  BY <1>2, SentinelAssumption DEF Crash, ReadsNull
<1>4. EndpointOf(Current(xaps_global))
  BY DEF IInv, EndpointInv, EndpointOf, Current, FreshConfig
<1>5. Parse[conf[u].url] # NULL
  <2>1. CASE NeedsParse(Current(xaps_global), conf[u])
    BY <1>3, <2>1 DEF RefreshUrl
  <2>2. CASE ~NeedsParse(Current(xaps_global), conf[u])
    <3>1. /\ Current(xaps_global).http_url # NULL
          /\ Current(xaps_global).http_url_setting = conf[u].url
      BY <2>2 DEF NeedsParse
    <3>2. Current(xaps_global) = xaps_global /\ xaps_global \in Configs
      BY <1>1, <3>1 DEF Current, FreshConfig
    <3>3. xaps_global.http_url.host \in Endpoints
      BY <3>1, <3>2 DEF Configs, HttpUrls
    <3>4. xaps_global.http_url.host = Parse[conf[u].url]
      BY <1>4, <3>1, <3>2 DEF EndpointOf
    <3>5. QED
      BY <3>3, <3>4, SentinelAssumption
  <2>3. QED
    BY <2>1, <2>2
<1>6. QED
  BY <1>2, <1>3, <1>5, SentinelAssumption

(* The process crashes only on a usable xaps_url without xaps_user_lookup; *)
(* whatever else is missing or wrong in the settings is survived.          *)
THEOREM CrashesOnlyWithoutLookup == Spec => []CrashNeedsAbsentLookup
<1>1. Init => CrashNeedsAbsentLookup
  BY DEF Init, CrashNeedsAbsentLookup
<1>2. IInv /\ CrashNeedsAbsentLookup /\ [Next]_vars => CrashNeedsAbsentLookup'
  <2> SUFFICES ASSUME IInv, CrashNeedsAbsentLookup, [Next]_vars
               PROVE  CrashNeedsAbsentLookup'
    OBVIOUS
  <2>1. CASE \E u \in Users : Crash(u)
    <3>1. PICK u \in Users : Crash(u)
      BY <2>1
    <3>2. UNCHANGED conf
      BY <3>1 DEF Crash
    <3>3. QED
      BY <3>1, <3>2, CrashReason DEF CrashNeedsAbsentLookup
  <2>2. CASE ~\E u \in Users : Crash(u)
    <3>1. UNCHANGED crashed /\ (crashed => UNCHANGED conf)
      BY <2>2 DEF Next, vars, xaps_notify, cmd_xapplepushservice, BeginDeinit, LogIn,
                  Reload, register_client, push_notification_driver_xaps_deinit,
                  Respond, LogOut, xaps_imap_plugin_deinit
    <3>2. QED
      BY <3>1 DEF CrashNeedsAbsentLookup
  <2>3. QED
    BY <2>1, <2>2
<1>3. QED
  BY <1>1, <1>2, Inductive, PTL DEF Spec

(* The Dovecot 2.4 build never crashes: its settings framework has no      *)
(* absent settings, and nothing else makes xaps_init() read a null pointer. *)
THEOREM NeverCrashesOn24 == Spec => [](Framework => NoCrash)
<1>1. TypeOK /\ CrashNeedsAbsentLookup => (Framework => NoCrash)
  BY SettingsAssumption DEF TypeOK, CrashNeedsAbsentLookup, NoCrash
<1>2. QED
  BY <1>1, TypeCorrect, CrashesOnlyWithoutLookup, PTL

-----------------------------------------------------------------------------
(* Every step of the plugin is a step of Registration or leaves the        *)
(* client's view alone.                                                    *)
LEMMA StepServes ==
    ASSUME IInv, IInv', [Next]_vars
    PROVE  [Client!Next]_(Client!vars)
<1> USE DEF Client!Next, Client!vars
<1>1. ASSUME NEW u \in Users, cmd_xapplepushservice(u)
      PROVE  [Client!Next]_(Client!vars)
  <2>1. CASE Crash(u)
    BY <2>1 DEF Crash
  <2>2. CASE ~Crash(u)
    <3>1. cmd = NULL /\ answer' = NULL
      BY <1>1, <2>2 DEF cmd_xapplepushservice, Idle
    <3>2. PICK args \in Arguments :
            RejectCommand(args, xaps_global') \/ SubmitRegistration(u, args, xaps_global')
      BY <1>1, <2>2 DEF cmd_xapplepushservice
    <3>3. CASE RejectCommand(args, xaps_global')
      BY <3>1, <3>3 DEF RejectCommand, Client!Refuse
    <3>4. CASE SubmitRegistration(u, args, xaps_global')
      BY <3>1, <3>4, SentinelAssumption DEF SubmitRegistration, Client!Ask
    <3>5. QED
      BY <3>2, <3>3, <3>4
  <2>3. QED
    BY <2>1, <2>2
<1>2. CASE register_client
  <2>1. answer # NULL /\ reply' = answer
    <3>1. answer # NULL
      BY <1>2 DEF register_client, WaitIsOver, NothingPending, Registers, IInv, WaitInv
    <3>2. QED
      BY <1>2, <3>1, SentinelAssumption DEF register_client, IInv, WaitInv, TypeOK
  <2>2. QED
    BY <1>2, <2>1 DEF register_client, Client!Answer
<1>3. ASSUME NEW s \in Slots, NEW resp \in Responses, Respond(s, resp)
      PROVE  [Client!Next]_(Client!vars)
  <2>1. CASE inflight[s].callback = "register"
    <3>1. cmd # NULL /\ answer = NULL
      BY <1>3, <2>1 DEF Respond, IInv, WaitInv, Registers
    <3>2. answer' \in Topics \cup {REFUSED} /\ UNCHANGED <<cmd, reply>>
      BY <1>3, <2>1 DEF Respond
    <3>3. QED
      BY <3>1, <3>2 DEF Client!Decide
  <2>2. CASE inflight[s].callback # "register"
    BY <1>3, <2>2 DEF Respond
  <2>3. QED
    BY <2>1, <2>2
<1>4. CASE \/ \E u \in Users : \/ xaps_notify(u)
                              \/ BeginDeinit(u)
                              \/ push_notification_driver_xaps_deinit(u)
                              \/ LogOut(u)
                              \/ LogIn(u)
                              \/ Reload(u)
           \/ xaps_imap_plugin_deinit
           \/ UNCHANGED vars
  BY <1>4 DEF xaps_notify, Crash, BeginDeinit, push_notification_driver_xaps_deinit,
              LogOut, LogIn, Reload, xaps_imap_plugin_deinit, vars
<1>5. QED
  BY <1>1, <1>2, <1>3, <1>4 DEF Next

(* The plugin implements the safety part of Registration: whatever happens *)
(* in the process, a client sees its command refused on the spot, or put   *)
(* to the daemon and answered with the daemon's decision.                  *)
THEOREM Serves == Spec => Client!Init /\ [][Client!Next]_(Client!vars)
<1>1. Init => Client!Init
  BY DEF Init, Client!Init
<1>2. IInv /\ IInv' /\ [Next]_vars => [Client!Next]_(Client!vars)
  BY StepServes
<1>3. QED
  BY <1>1, <1>2, Inductive, PTL DEF Spec

-----------------------------------------------------------------------------
(* Refinement of Uncached: the plugin without the shared record. *)

LEMMA UsableAlike ==
    ASSUME NEW s \in Settings
    PROVE  Without!Usable(s) <=> Usable(s)
<1>1. s \in SettingsType /\ (~Framework => s.readable)
  BY SettingsAssumption
<1>2. s.url \notin {NULL, EMPTY} <=> s.url \in Urls
  BY <1>1, SentinelAssumption DEF SettingsType
<1>3. s.readable \in BOOLEAN
  BY <1>1 DEF SettingsType
<1>4. QED
  BY <1>1, <1>2, <1>3 DEF Without!Usable, Usable, xaps_settings_get

(* The HTTP client, and whether there is anything to send to.              *)
LEMMA ClientAlike ==
    ASSUME TypeOK, EndpointInv, NEW u \in Users, NEW path \in Paths, NEW ok \in ClientInits,
           ~ReadsNull(xaps_global, conf[u]),
           xaps_global' = xaps_init(xaps_global, conf[u], path, ok)
    PROVE  /\ Without!MakeClient(u)
           /\ Configured(xaps_global') <=> Without!Ready(u)
<1>1. EndpointOf(Current(xaps_global))
  BY DEF EndpointInv, EndpointOf, Current, FreshConfig
<1>2. conf[u] \in Settings /\ xaps_global \in Configs \cup {NULL}
  BY DEF TypeOK
<1>3. /\ xaps_global'.http_client <=>
            Current(xaps_global).http_client \/ (Usable(conf[u]) /\ ok)
      /\ Usable(conf[u]) <=> xaps_global'.http_url # NULL
  <2>1. LeftBehind(xaps_global, conf[u], path, ok, xaps_global')
    BY <1>1, <1>2, InitFacts
  <2>2. QED
    BY <2>1 DEF LeftBehind
<1>4. xaps_global' \in Configs /\ xaps_global' # NULL
  BY <1>2, InitType, SentinelAssumption
<1>5. HasClient' <=> xaps_global'.http_client
  BY <1>4 DEF HasClient
<1>6. HasClient <=> Current(xaps_global).http_client
  BY DEF HasClient, Current, FreshConfig
<1>7. Without!Usable(conf[u]) <=> Usable(conf[u])
  BY <1>2, UsableAlike
<1>8. HasClient \in BOOLEAN /\ HasClient' \in BOOLEAN
  BY <1>2, <1>4 DEF HasClient, Configs
<1>9. ok \in IF Framework THEN BOOLEAN ELSE {TRUE}
  BY DEF ClientInits
<1>10. Without!MakeClient(u)
  <2>1. CASE HasClient \/ ~Usable(conf[u])
    <3>1. HasClient' = HasClient
      BY <1>3, <1>5, <1>6, <1>8, <2>1
    <3>2. QED
      BY <1>7, <2>1, <3>1 DEF Without!MakeClient
  <2>2. CASE ~HasClient /\ Usable(conf[u])
    <3>1. HasClient' = ok
      BY <1>3, <1>5, <1>6, <1>8, <1>9, <2>2
    <3>2. QED
      BY <1>7, <1>9, <2>2, <3>1 DEF Without!MakeClient
  <2>3. QED
    BY <1>8, <2>1, <2>2
<1>11. QED
  BY <1>3, <1>5, <1>7, <1>10 DEF Without!Ready, Configured

LEMMA SendAlike ==
    ASSUME NEW s \in Slots, NEW callback, NEW path, NEW g, NEW u, Submit(s, callback, g, u),
           g.http_url = [host |-> Parse[conf[u].url], path |-> path],
           conf[u].lookup # NULL, get_real_mbox_user(g, u) = NameUnder(conf[u], u)
    PROVE  Without!Send(Without!Request(callback, path, u))
<1>1. get_real_mbox_user(g, u) = Without!Account(u, conf[u].lookup)
  BY DEF NameUnder, Without!Account
<1>2. QED
  BY <1>1 DEF Submit, Pending, Without!Send, Without!Request

LEMMA NotifyAlike ==
    ASSUME IInv, NEW u \in Users, xaps_notify(u), ~Crash(u)
    PROVE  Without!Notify(u)
<1>1. PICK ok \in ClientInits :
        /\ xaps_global' = xaps_init(xaps_global, conf[u], "/notify", ok)
        /\ IF Configured(xaps_global')
           THEN \E s \in Slots : Submit(s, "notify", xaps_global', u)
           ELSE UNCHANGED inflight
  BY DEF xaps_notify
<1>2. /\ ~ReadsNull(xaps_global, conf[u])
      /\ Idle /\ users[u] = "active"
      /\ UNCHANGED <<conf, users, cmd, reply, answer>>
  BY DEF xaps_notify
<1>3. TypeOK /\ EndpointInv /\ "/notify" \in Paths
  BY DEF IInv, Paths
<1>4. Without!MakeClient(u) /\ (Configured(xaps_global') <=> Without!Ready(u))
  BY <1>1, <1>2, <1>3, ClientAlike
<1>5. IF Without!Ready(u) THEN Without!Send(Without!Request("notify", "/notify", u))
                          ELSE UNCHANGED inflight
  <2>1. CASE Configured(xaps_global')
    <3>1. PICK s \in Slots : Submit(s, "notify", xaps_global', u)
      BY <1>1, <2>1
    <3>2. /\ xaps_global'.http_url = [host |-> Parse[conf[u].url], path |-> "/notify"]
          /\ conf[u].lookup # NULL
          /\ get_real_mbox_user(xaps_global', u) = NameUnder(conf[u], u)
      BY <1>1, <1>2, <1>3, <2>1, MadeFromSettings
    <3>3. QED
      BY <1>4, <2>1, <3>1, <3>2, SendAlike
  <2>2. CASE ~Configured(xaps_global')
    BY <1>1, <1>4, <2>2
  <2>3. QED
    BY <2>1, <2>2
<1>6. QED
  BY <1>2, <1>4, <1>5 DEF Idle, Without!Idle, Without!Notify

LEMMA CommandAlike ==
    ASSUME IInv, NEW u \in Users, cmd_xapplepushservice(u), ~Crash(u)
    PROVE  Without!Command(u)
<1>1. PICK args \in Arguments, ok \in ClientInits :
        /\ xaps_global' = xaps_init(xaps_global, conf[u], "/register", ok)
        /\ RejectCommand(args, xaps_global') \/ SubmitRegistration(u, args, xaps_global')
  BY DEF cmd_xapplepushservice
<1>2. /\ ~ReadsNull(xaps_global, conf[u])
      /\ Idle /\ users[u] \in {"active", "plain"}
      /\ answer' = NULL /\ UNCHANGED <<conf, users>>
  BY DEF cmd_xapplepushservice
<1>3. TypeOK /\ EndpointInv /\ "/register" \in Paths
  BY DEF IInv, Paths
<1>4. Without!MakeClient(u) /\ (Configured(xaps_global') <=> Without!Ready(u))
  BY <1>1, <1>2, <1>3, ClientAlike
<1>5. \/ reply' = REFUSED /\ UNCHANGED <<inflight, cmd>>
      \/ /\ Without!Ready(u) /\ Without!Send(Without!Request("register", "/register", u))
         /\ cmd' = u /\ reply' = NULL
  <2>1. CASE RejectCommand(args, xaps_global')
    BY <2>1 DEF RejectCommand
  <2>2. CASE SubmitRegistration(u, args, xaps_global')
    <3>1. Configured(xaps_global') /\ cmd' = u /\ reply' = NULL
      BY <2>2 DEF SubmitRegistration
    <3>2. PICK s \in Slots : Submit(s, "register", xaps_global', u)
      BY <2>2 DEF SubmitRegistration
    <3>3. /\ xaps_global'.http_url = [host |-> Parse[conf[u].url], path |-> "/register"]
          /\ conf[u].lookup # NULL
          /\ get_real_mbox_user(xaps_global', u) = NameUnder(conf[u], u)
      BY <1>1, <1>2, <1>3, <3>1, MadeFromSettings
    <3>4. QED
      BY <1>4, <3>1, <3>2, <3>3, SendAlike
  <2>3. QED
    BY <1>1, <2>1, <2>2
<1>6. QED
  BY <1>2, <1>4, <1>5 DEF Idle, Without!Idle, Without!Command

(* The rest of the steps, and all of them. *)
LEMMA StepAlike ==
    ASSUME IInv, IInv', [Next]_vars
    PROVE  [Without!Next]_(Without!vars)
<1> USE DEF Without!Next, Without!vars
<1>1. ASSUME NEW u \in Users, xaps_notify(u) \/ cmd_xapplepushservice(u)
      PROVE  [Without!Next]_(Without!vars)
  <2>1. CASE Crash(u)
    BY <2>1 DEF Crash, HasClient
  <2>2. CASE ~Crash(u)
    BY <1>1, <2>2, NotifyAlike, CommandAlike
  <2>3. QED
    BY <2>1, <2>2
<1>2. ASSUME NEW u \in Users, BeginDeinit(u) \/ LogOut(u) \/ LogIn(u)
      PROVE  [Without!Next]_(Without!vars)
  <2>1. Without!Idle /\ UNCHANGED <<conf, xaps_global, inflight, cmd, reply, answer>>
    BY <1>2 DEF BeginDeinit, LogOut, LogIn, Idle, Without!Idle
  <2>2. \/ users[u] = "gone" /\ (Without!Become(u, "active") \/ Without!Become(u, "plain"))
        \/ users[u] = "plain" /\ Without!Become(u, "gone")
        \/ users[u] = "active" /\ Without!Become(u, "deinit")
    BY <1>2 DEF BeginDeinit, LogOut, LogIn, Without!Become
  <2>3. UNCHANGED HasClient
    BY <2>1 DEF HasClient
  <2>4. QED
    BY <2>1, <2>2, <2>3 DEF Without!ComeOrGo
<1>3. ASSUME NEW u \in Users, push_notification_driver_xaps_deinit(u)
      PROVE  [Without!Next]_(Without!vars)
  <2>1. NothingPending
    BY <1>3 DEF push_notification_driver_xaps_deinit, DeinitWaits, WaitIsOver,
                IInv, QuietInv, NothingPending
  <2>2. Without!NothingPending
    BY <2>1 DEF NothingPending, Pending, Without!NothingPending
  <2>3. UNCHANGED inflight
    BY <1>3, <2>1 DEF push_notification_driver_xaps_deinit, NothingPending, Pending,
                      push_notification_driver_xaps_cleanup, IInv, TypeOK
  <2>4. HasClient' \in {HasClient, FALSE}
    <3>1. xaps_global' \in {xaps_global, NULL}
      BY <1>3 DEF push_notification_driver_xaps_deinit, push_notification_driver_xaps_cleanup
    <3>2. QED
      BY <3>1 DEF HasClient
  <2>5. users[u] = "deinit" /\ Without!Become(u, "gone")
        /\ UNCHANGED <<conf, cmd, reply, answer>>
    BY <1>3 DEF push_notification_driver_xaps_deinit, Without!Become
  <2>6. QED
    BY <2>2, <2>3, <2>4, <2>5 DEF Without!ComeOrGo
<1>4. ASSUME NEW u \in Users, Reload(u)
      PROVE  [Without!Next]_(Without!vars)
  BY <1>4 DEF Reload, Without!Reload, HasClient
<1>5. CASE register_client
  <2>1. answer # NULL /\ reply' = answer
    <3>1. answer # NULL
      BY <1>5 DEF register_client, WaitIsOver, NothingPending, Registers, IInv, WaitInv
    <3>2. QED
      BY <1>5, <3>1, SentinelAssumption DEF register_client, IInv, WaitInv, TypeOK
  <2>2. Without!Answer
    BY <1>5, <2>1 DEF register_client, WaitIsOver, NothingPending, Pending, HasClient,
                      Without!NothingPending, Without!Answer
  <2>3. QED
    BY <2>2
<1>6. ASSUME NEW s \in Slots, NEW resp \in Responses, Respond(s, resp)
      PROVE  [Without!Next]_(Without!vars)
  <2>1. UNCHANGED HasClient
    <3>1. xaps_global # NULL /\ xaps_global \in Configs
      BY <1>6 DEF Respond, IInv, QuietInv, TypeOK
    <3>2. LET c == xaps_register_callback(xaps_global, resp) IN
          c \in Configs /\ c.http_client = xaps_global.http_client
      BY <3>1 DEF xaps_register_callback, Configs
    <3>3. xaps_global' \in {xaps_global, xaps_register_callback(xaps_global, resp)}
      BY <1>6, <3>1 DEF Respond
    <3>4. QED
      BY <3>1, <3>2, <3>3, SentinelAssumption DEF HasClient
  <2>2. Without!End(s)
    BY <1>6, <2>1 DEF Respond, Pending, Without!End
  <2>3. QED
    BY <2>2
<1>7. CASE xaps_imap_plugin_deinit
  <2>1. \A v \in Users : users[v] = "gone"
    BY <1>7 DEF xaps_imap_plugin_deinit
  <2>2. \A s \in Slots : inflight[s] = NULL
    BY <2>1 DEF IInv, QuietInv, Owns, TypeOK, Pending, Requests
  <2>3. UNCHANGED inflight
    BY <1>7, <2>2 DEF xaps_imap_plugin_deinit, push_notification_driver_xaps_cleanup,
                      IInv, TypeOK
  <2>4. HasClient' = FALSE
    BY <1>7 DEF xaps_imap_plugin_deinit, push_notification_driver_xaps_cleanup, HasClient
  <2>5. Without!Unload
    BY <1>7, <2>1, <2>2, <2>3, <2>4 DEF xaps_imap_plugin_deinit, Without!NothingPending,
                                        Without!Unload
  <2>6. QED
    BY <2>5
<1>8. CASE UNCHANGED vars
  BY <1>8 DEF vars, HasClient
<1>9. QED
  BY <1>1, <1>2, <1>3, <1>4, <1>5, <1>6, <1>7, <1>8 DEF Next

(* The record all users share is invisible: the plugin implements Uncached *)
(* in every process, for every history of reloads, failures, logins,       *)
(* logouts and cleanups.                                                   *)
THEOREM CacheIsTransparent == Spec => CacheIsInvisible
<1>1. Init => Without!Init
  BY DEF Init, HasClient, Without!Init
<1>2. IInv /\ IInv' /\ [Next]_vars => [Without!Next]_(Without!vars)
  BY StepAlike
<1>3. QED
  BY <1>1, <1>2, Inductive, PTL DEF Spec, CacheIsInvisible, Without!Spec

=============================================================================
