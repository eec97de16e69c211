----------------------------- MODULE XapsPlugin -----------------------------
(***************************************************************************)
(* The plugin inside one Dovecot process: the configuration record shared  *)
(* by every user of the process (xaps_global), the handlers that refresh   *)
(* it and submit HTTP requests to the daemon (xaps_notify and              *)
(* XAPPLEPUSHSERVICE), the callback that stores the daemon's aps-topic in  *)
(* it, and the driver's deinit and cleanup.                                *)
(*                                                                         *)
(* The process has one thread.  A handler runs to its end, or to an        *)
(* http_client_wait() in which only HTTP callbacks run; it is one action   *)
(* up to that point and another one after it.                              *)
(***************************************************************************)
EXTENDS FiniteSets

CONSTANTS
    Users,      \* mail users this process serves, one after the other or at once
    Names,      \* user names and userdb field values
    Login,      \* Login[u]: muser->username
    Userdb,     \* Userdb[u][k]: value of u's first userdb field k, NULL if none
    Lookups,    \* non-empty values of xaps_user_lookup
    Urls,       \* non-empty values of xaps_url
    Endpoints,  \* daemons an http_url can point to
    Parse,      \* Parse[url]: what http_url_parse() makes of it, NULL if it fails
    Settings,   \* the settings a user can have (see SettingsType)
    Topics,     \* aps-topics that pass xaps_payload_str()
    Slots,      \* bound: HTTP requests submitted and not yet answered
    Framework,  \* TRUE: Dovecot 2.4 build (settings framework,
                \*       http_client_init_auto); FALSE: Dovecot 2.3 build
    NULL,       \* a C null pointer
    EMPTY,      \* the empty string, as the value of a setting
    REFUSED     \* the daemon's refusal, and the client's tagged error reply

(* Settings of one user: whether settings_get() succeeds, and the two      *)
(* values.  Only mail_user_plugin_getenv() (2.3) returns a null pointer,   *)
(* for a setting that is not there; only settings_get() (2.4) can fail.    *)
SettingsType == [readable: BOOLEAN,
                 url: Urls \cup {EMPTY, NULL},
                 lookup: Lookups \cup {EMPTY, NULL}]

Paths == {"/notify", "/register"}
HttpUrls == [host: Endpoints, path: Paths \cup {NULL}]
Configs == [http_url: HttpUrls \cup {NULL},
            http_url_setting: Urls \cup {NULL},
            user_lookup: Lookups \cup {NULL},
            http_client: BOOLEAN,
            aps_topic: Topics \cup {NULL}]
Requests == [callback: {"notify", "register"},
             user: Users, url: HttpUrls, name: Names]

ASSUME UserAssumption ==
    /\ Login \in [Users -> Names]
    /\ Userdb \in [Users -> [Lookups -> Names \cup {NULL}]]

ASSUME UrlAssumption == Parse \in [Urls -> Endpoints \cup {NULL}]

ASSUME SettingsAssumption ==
    /\ Framework \in BOOLEAN
    /\ Settings \subseteq SettingsType
    /\ \A s \in Settings : IF Framework THEN NULL \notin {s.url, s.lookup}
                                        ELSE s.readable

ASSUME SentinelAssumption ==
    /\ NULL \notin Urls \cup Lookups \cup Topics \cup Users
    /\ NULL \notin Names \cup Endpoints \cup Paths
    /\ NULL \notin HttpUrls /\ NULL \notin Configs /\ NULL \notin Requests
    /\ EMPTY \notin Urls \cup Lookups
    /\ EMPTY # NULL
    /\ REFUSED \notin Topics \cup {NULL}

VARIABLES
    conf,         \* conf[u]: u's settings, as settings_get()/getenv() finds them
    xaps_global,  \* the shared struct xaps_config, NULL before the first handler
    inflight,     \* inflight[s]: a submitted, unanswered request, or NULL
    users,        \* users[u]: "active", or "plain" (logged in without the push
                  \* driver), "deinit" (in the driver's deinit), "gone"
    cmd,          \* the user whose XAPPLEPUSHSERVICE is in http_client_wait(), or NULL
    reply,        \* the tagged reply to the last command: a topic (OK) or REFUSED
    answer,       \* history: the daemon's answer to the last command's registration
    crashed       \* the process has dereferenced a null pointer

vars == <<conf, xaps_global, inflight, users, cmd, reply, answer, crashed>>

Pending(s) == inflight[s] # NULL
NothingPending == \A s \in Slots : ~Pending(s)

(* The thread is not inside an http_client_wait(), so a handler may start. *)
Idle == /\ ~crashed
        /\ cmd = NULL
        /\ \A u \in Users : users[u] # "deinit"

-----------------------------------------------------------------------------
(* xaps_settings_get(): does it succeed on settings s?  Both builds reject *)
(* an absent or empty xaps_url; neither looks at xaps_user_lookup.  The    *)
(* mutant accepts an absent xaps_url.                                      *)
AcceptsNullUrl(s) == (Framework => s.readable) /\ s.url # EMPTY

xaps_settings_get(s) == /\ Framework => s.readable
                        /\ s.url \notin {NULL, EMPTY}

(* A zeroed struct xaps_config: i_new() in xaps_init(). *)
FreshConfig == [http_url |-> NULL, http_url_setting |-> NULL,
                user_lookup |-> NULL, http_client |-> FALSE, aps_topic |-> NULL]

(* Settings could not be read: drop the endpoint, its setting, the lookup. *)
(* The mutant drops the lookup alone.                                      *)
KeepsEndpoint(g) == [g EXCEPT !.user_lookup = NULL]

FailClosed(g) ==
    [g EXCEPT !.http_url = NULL, !.http_url_setting = NULL, !.user_lookup = NULL]

(* Must xaps_url be parsed (again)?  The mutants keep the first endpoint,  *)
(* and parse every time.                                                   *)
ParsesOnce(g, s) == g.http_url = NULL
ParsesAlways(g, s) == TRUE

NeedsParse(g, s) == \/ g.http_url = NULL
                    \/ g.http_url_setting = NULL
                    \/ g.http_url_setting # s.url

RefreshUrl(g, s) ==
    IF ~NeedsParse(g, s) THEN g
    ELSE IF Parse[s.url] = NULL
    THEN [g EXCEPT !.http_url = NULL, !.http_url_setting = NULL]
    ELSE [g EXCEPT !.http_url = [host |-> Parse[s.url], path |-> NULL],
                   !.http_url_setting = s.url]

(* The callers' path literal goes into the shared http_url. *)
SetPath(g, path) == [g EXCEPT !.http_url = [host |-> @.host, path |-> path]]

(* Must the lookup key be copied into the config pool?  The mutant copies  *)
(* an unchanged one again.                                                 *)
CopiesEveryLookup(g, s) == s.lookup # EMPTY

NeedsLookup(g, s) == s.lookup # EMPTY /\ g.user_lookup # s.lookup

(* A cleared setting clears the key; the mutant stores the empty string.   *)
CopiesEmptyLookup(g, s) == [g EXCEPT !.user_lookup = s.lookup]

RefreshLookup(g, s) ==
    [g EXCEPT !.user_lookup = IF s.lookup = EMPTY THEN NULL
                              ELSE IF NeedsLookup(g, s) THEN s.lookup ELSE @]

(* http_client_init() (2.3) cannot fail; http_client_init_auto() (2.4) can. *)
ClientInits == IF Framework THEN BOOLEAN ELSE {TRUE}
EnsureClient(g, ok) == [g EXCEPT !.http_client = @ \/ ok]

Current(g) == IF g = NULL THEN FreshConfig ELSE g

(* Does xaps_init() read a setting through a null pointer?  xaps_url is    *)
(* compared and parsed, *xaps_user_lookup is read if that succeeded.       *)
ReadsNull(g, s) ==
    /\ xaps_settings_get(s)
    /\ \/ s.url = NULL
       \/ /\ s.url # NULL /\ RefreshUrl(Current(g), s).http_url # NULL
          /\ s.lookup = NULL

(* xaps_init(): the shared configuration after a handler of a user with    *)
(* settings s has called it with this path.                                *)
xaps_init(g, s, path, ok) ==
    LET parsed == RefreshUrl(Current(g), s) IN
    IF ~xaps_settings_get(s) THEN FailClosed(Current(g))
    ELSE IF parsed.http_url = NULL THEN parsed
    ELSE EnsureClient(RefreshLookup(SetPath(parsed, path), s), ok)

(* May a request be submitted?  The mutant also asks for a lookup key.     *)
NeedsKeyToo(g) == g.http_url # NULL /\ g.http_client /\ g.user_lookup # NULL

Configured(g) == g.http_url # NULL /\ g.http_client

get_real_mbox_user(g, u) ==
    IF g.user_lookup \in {NULL, EMPTY} \/ Userdb[u][g.user_lookup] = NULL
    THEN Login[u]
    ELSE Userdb[u][g.user_lookup]

(* http_client_request_url(), which copies the URL and remembers the        *)
(* callback, and http_client_request_submit().                             *)
Submit(s, callback, g, u) ==
    /\ ~Pending(s)
    /\ inflight' = [inflight EXCEPT ![s] =
                        [callback |-> callback, user |-> u, url |-> g.http_url,
                         name |-> get_real_mbox_user(g, u)]]

-----------------------------------------------------------------------------
(* The null pointer is dereferenced inside xaps_init(). *)
Crash(u) ==
    /\ ReadsNull(xaps_global, conf[u])
    /\ crashed' = TRUE
    /\ UNCHANGED <<conf, xaps_global, inflight, users, cmd, reply, answer>>

(* xaps_notify(): a message arrived for user u. *)
xaps_notify(u) ==
    /\ Idle /\ users[u] = "active"
    /\ \/ Crash(u)
       \/ /\ ~ReadsNull(xaps_global, conf[u])
          /\ \E ok \in ClientInits :
                LET g == xaps_init(xaps_global, conf[u], "/notify", ok) IN
                /\ xaps_global' = g
                /\ IF Configured(g) THEN \E s \in Slots : Submit(s, "notify", g, u)
                                    ELSE UNCHANGED inflight
          /\ UNCHANGED <<conf, users, cmd, reply, answer, crashed>>

(* What parse_xapplepush() and the loop over the mailbox list make of the  *)
(* client's arguments.                                                     *)
Arguments == {"invalid", "bad_mailbox", "valid"}

(* XAPPLEPUSHSERVICE answered with a tagged error on the spot: the         *)
(* arguments are refused, the plugin is not configured, or an element of   *)
(* the mailbox list is not a string.                                       *)
RejectCommand(args, g) ==
    /\ args # "valid" \/ ~Configured(g)
    /\ reply' = REFUSED
    /\ UNCHANGED <<inflight, cmd>>

(* XAPPLEPUSHSERVICE submits its registration and enters http_client_wait(). *)
SubmitRegistration(u, args, g) ==
    /\ args = "valid" /\ Configured(g)
    /\ \E s \in Slots : Submit(s, "register", g, u)
    /\ cmd' = u
    /\ reply' = NULL

(* cmd_xapplepushservice(), up to http_client_wait() when it gets there. *)
cmd_xapplepushservice(u) ==
    /\ Idle /\ users[u] \in {"active", "plain"}
    /\ \/ Crash(u)
       \/ /\ ~ReadsNull(xaps_global, conf[u])
          /\ \E args \in Arguments, ok \in ClientInits :
                LET g == xaps_init(xaps_global, conf[u], "/register", ok) IN
                /\ xaps_global' = g
                /\ \/ RejectCommand(args, g)
                   \/ SubmitRegistration(u, args, g)
          /\ answer' = NULL
          /\ UNCHANGED <<conf, users, crashed>>

(* Mutants: a wait that returns at once, one that wants a topic.           *)
NeverWaits == TRUE
WaitsForTopic == NothingPending /\ xaps_global.aps_topic # NULL

(* http_client_wait() returns when the client has no request left. *)
WaitIsOver == NothingPending

(* register_client(), after http_client_wait(). *)
register_client ==
    /\ cmd # NULL /\ WaitIsOver
    /\ reply' = IF xaps_global.aps_topic = NULL THEN REFUSED
                                                ELSE xaps_global.aps_topic
    /\ cmd' = NULL
    /\ UNCHANGED <<conf, xaps_global, inflight, users, answer, crashed>>

-----------------------------------------------------------------------------
(* How a request ends: 2xx with a topic, 2xx with a payload that           *)
(* xaps_payload_str() refuses, or any other status.  The last includes the *)
(* statuses the HTTP client makes up for a timeout or a lost connection.   *)
Responses == Topics \cup {"bad_payload", "error_status"}

(* The mutant leaves the topic of an earlier registration in place. *)
KeepsTopicOnError(g, resp) ==
    IF resp = "error_status" THEN g
    ELSE [g EXCEPT !.aps_topic = IF resp \in Topics THEN resp ELSE NULL]

(* xaps_register_callback(). *)
xaps_register_callback(g, resp) ==
    [g EXCEPT !.aps_topic = IF resp \in Topics THEN resp ELSE NULL]

(* The HTTP client ends a request and calls its callback, from the         *)
(* process's I/O loop or from an http_client_wait().  The notification     *)
(* callback only logs.                                                     *)
Respond(s, resp) ==
    /\ ~crashed
    /\ Pending(s)
    /\ IF inflight[s].callback = "register"
       THEN /\ xaps_global' = IF xaps_global = NULL THEN NULL
                              ELSE xaps_register_callback(xaps_global, resp)
            /\ answer' = IF resp \in Topics THEN resp ELSE REFUSED
       ELSE UNCHANGED <<xaps_global, answer>>
    /\ inflight' = [inflight EXCEPT ![s] = NULL]
    /\ UNCHANGED <<conf, users, cmd, reply, crashed>>

-----------------------------------------------------------------------------
(* The mutant returns with the requests outstanding. *)
LeavesRequests == FALSE

(* push_notification_driver_xaps_deinit() waits only if there is a client. *)
DeinitWaits == xaps_global # NULL /\ xaps_global.http_client

(* The framework logs a user out: the driver's deinit starts ... *)
BeginDeinit(u) ==
    /\ Idle /\ users[u] = "active"
    /\ users' = [users EXCEPT ![u] = "deinit"]
    /\ UNCHANGED <<conf, xaps_global, inflight, cmd, reply, answer, crashed>>

(* Deinitialising the HTTP client drops its requests without calling their *)
(* callbacks.                                                              *)
push_notification_driver_xaps_cleanup ==
    IF xaps_global = NULL THEN UNCHANGED <<xaps_global, inflight>>
    ELSE xaps_global' = NULL /\ inflight' = [s \in Slots |-> NULL]

(* ... and returns.  The framework may call the driver's cleanup right     *)
(* after it, whoever else is logged in.                                    *)
push_notification_driver_xaps_deinit(u) ==
    /\ users[u] = "deinit"
    /\ DeinitWaits => WaitIsOver
    /\ users' = [users EXCEPT ![u] = "gone"]
    /\ \/ UNCHANGED <<xaps_global, inflight>>
       \/ push_notification_driver_xaps_cleanup
    /\ UNCHANGED <<conf, cmd, reply, answer, crashed>>

(* A user without the driver goes: nothing of the plugins is called.       *)
LogOut(u) ==
    /\ Idle /\ users[u] = "plain"
    /\ users' = [users EXCEPT ![u] = "gone"]
    /\ UNCHANGED <<conf, xaps_global, inflight, cmd, reply, answer, crashed>>

(* The plugins are unloaded once no user is left. *)
xaps_imap_plugin_deinit ==
    /\ Idle /\ \A u \in Users : users[u] = "gone"
    /\ push_notification_driver_xaps_cleanup
    /\ UNCHANGED <<conf, users, cmd, reply, answer, crashed>>

(* Environment: a user logs in, with the push driver or without it; a      *)
(* user's settings change, at any moment.                                  *)
LogIn(u) ==
    /\ Idle /\ users[u] = "gone"
    /\ users' \in {[users EXCEPT ![u] = how] : how \in {"active", "plain"}}
    /\ UNCHANGED <<conf, xaps_global, inflight, cmd, reply, answer, crashed>>

Reload(u) ==
    /\ ~crashed
    /\ \E s \in Settings : conf' = [conf EXCEPT ![u] = s]
    /\ UNCHANGED <<xaps_global, inflight, users, cmd, reply, answer, crashed>>

-----------------------------------------------------------------------------
Init ==
    /\ conf \in [Users -> Settings]
    /\ xaps_global = NULL
    /\ inflight = [s \in Slots |-> NULL]
    /\ users = [u \in Users |-> "gone"]
    /\ cmd = NULL
    /\ reply = NULL
    /\ answer = NULL
    /\ crashed = FALSE

Next ==
    \/ \E u \in Users : \/ xaps_notify(u)
                        \/ cmd_xapplepushservice(u)
                        \/ BeginDeinit(u)
                        \/ push_notification_driver_xaps_deinit(u)
                        \/ LogOut(u)
                        \/ LogIn(u)
                        \/ Reload(u)
    \/ register_client
    \/ \E s \in Slots, resp \in Responses : Respond(s, resp)
    \/ xaps_imap_plugin_deinit

Spec == Init /\ [][Next]_vars

(* The HTTP client ends every request, by an answer or by its own timeout, *)
(* and an http_client_wait() that can return does.  Nothing is assumed of  *)
(* the clients, of the message flow, or of the administrator.              *)
Fairness ==
    /\ \A s \in Slots : WF_vars(\E resp \in Responses : Respond(s, resp))
    /\ WF_vars(register_client)
    /\ \A u \in Users : WF_vars(push_notification_driver_xaps_deinit(u))

FairSpec == Spec /\ Fairness

-----------------------------------------------------------------------------
TypeOK ==
    /\ conf \in [Users -> Settings]
    /\ xaps_global \in Configs \cup {NULL}
    /\ inflight \in [Slots -> Requests \cup {NULL}]
    /\ users \in [Users -> {"active", "plain", "deinit", "gone"}]
    /\ cmd \in Users \cup {NULL}
    /\ reply \in Topics \cup {REFUSED, NULL}
    /\ answer \in Topics \cup {REFUSED, NULL}
    /\ crashed \in BOOLEAN

(* The reply to XAPPLEPUSHSERVICE is the daemon's answer to that very      *)
(* command: "OK" with topic t exactly if the daemon returned t for its     *)
(* registration.  The reply is read from xaps_global, which outlives the   *)
(* command, is shared by all users and is written by another callback.     *)
ReplyIsTheAnswer ==
    cmd = NULL /\ {reply, answer} \cap Topics # {} => reply = answer

(* The request a settings record calls for, whatever the process has       *)
(* cached of this or of another user's settings.                           *)
Target(s, callback) ==
    [host |-> Parse[s.url],
     path |-> IF callback = "notify" THEN "/notify" ELSE "/register"]
NameUnder(s, u) ==
    IF s.lookup = EMPTY \/ Userdb[u][s.lookup] = NULL THEN Login[u]
                                                      ELSE Userdb[u][s.lookup]
Agrees(q, s) == /\ xaps_settings_get(s)
                /\ q.url = Target(s, q.callback)
                /\ q.name = NameUnder(s, q.user)

(* A request goes to the daemon, the path and the account name its user's  *)
(* settings name at the moment it is submitted: never to an endpoint left  *)
(* over from before a reload, or from another user of the process, and     *)
(* nowhere while the settings cannot be read (xaps_init()'s cache).        *)
RoutedBySettings ==
    [][\A s \in Slots :
          ~Pending(s) /\ Pending(s)' => Agrees(inflight'[s], conf[inflight'[s].user])]_vars

(* No request of a user who is gone is outstanding, so no callback runs    *)
(* for one: a user with the driver goes after its deinit has waited, and   *)
(* one without it, for whom nothing waits, leaves none behind.             *)
GoneUsersAreQuiet ==
    \A s \in Slots : Pending(s) => users[inflight[s].user] # "gone"

(* Cleanup frees the record and drops its client's requests, after every   *)
(* logout or at unloading: it never drops one, of whichever user, because  *)
(* whatever called it has waited for all of them.                          *)
CleanupLosesNothing ==
    [][xaps_global # NULL /\ xaps_global' = NULL => NothingPending]_vars

(* A usable configuration is always enough: whatever failed before, for    *)
(* this user or another one, and whatever a cleanup has freed, the next    *)
(* message is announced as soon as the client can be created (xaps_init()  *)
(* fails closed, but not for good).                                        *)
Usable(s) == xaps_settings_get(s) /\ Parse[s.url] # NULL

UsableIsNotified ==
    [][\A u \in Users :
          /\ xaps_notify(u) /\ ~crashed'
          /\ Usable(conf[u]) /\ xaps_global'.http_client
          => \E s \in Slots : /\ ~Pending(s) /\ Pending(s)'
                              /\ inflight'[s].user = u]_vars

(* Missing settings never bring the process down (xaps_settings_get()).    *)
NoCrash == ~crashed

(* An absent, empty or unusable xaps_url never brings it down: what does   *)
(* is a usable one without xaps_user_lookup, whose value xaps_init() reads *)
(* unasked.                                                                *)
CrashNeedsAbsentLookup ==
    crashed => \E u \in Users : /\ conf[u].url \notin {NULL, EMPTY}
                               /\ Parse[conf[u].url] # NULL
                               /\ conf[u].lookup = NULL

(* XAPPLEPUSHSERVICE as one client sees it.  The plugin implements it: its *)
(* commands take only the steps Registration allows, and every command     *)
(* gets its tagged reply, although its wait is for the requests of all     *)
(* users.                                                                  *)
Client == INSTANCE Registration WITH asked <- cmd # NULL, decision <- answer
ServesClient == Client!Spec

(* The shared record is only a cache.  Whatever reloads, failures, logins, *)
(* logouts and cleanups it goes through, and whoever's handler wrote it    *)
(* last, the process behaves as if there were none: each request is made   *)
(* of its own user's settings, and each command gets its own answer.  A    *)
(* handler that crashes changes nothing more.                              *)
HasClient == xaps_global # NULL /\ xaps_global.http_client
Without == INSTANCE Uncached WITH client <- HasClient
CacheIsInvisible == Without!Spec

(* http_client_wait() in the driver's deinit returns, also when no handler *)
(* ever created a client.                                                  *)
DeinitEnds == \A u \in Users : users[u] = "deinit" ~> users[u] = "gone"

-----------------------------------------------------------------------------
(* The inductive invariant behind the safety properties above. *)
Registers(s) == Pending(s) /\ inflight[s].callback = "register"

(* While a command waits, the only registration pending is its own, until  *)
(* the daemon has answered; from then on aps_topic holds that answer.      *)
WaitInv ==
    /\ cmd # NULL => xaps_global # NULL /\ \A u \in Users : users[u] # "deinit"
    /\ \A s \in Slots : Registers(s) => cmd # NULL /\ answer = NULL
    /\ \A r, s \in Slots : Registers(r) /\ Registers(s) => r = s
    /\ cmd # NULL /\ answer = NULL => \E s \in Slots : Registers(s)
    /\ cmd # NULL /\ answer # NULL =>
          xaps_global.aps_topic = IF answer \in Topics THEN answer ELSE NULL
    /\ ReplyIsTheAnswer

(* A pending request is in a client that the driver's deinit would find    *)
(* and wait for, and a notification belongs to a user who has the driver.  *)
Owns(u, callback) ==
    users[u] \in IF callback = "notify" THEN {"active", "deinit"}
                                       ELSE {"active", "plain"}

QuietInv ==
    \A s \in Slots :
       Pending(s) => /\ xaps_global # NULL /\ xaps_global.http_client
                     /\ Owns(inflight[s].user, inflight[s].callback)

(* The cached endpoint is the one its recorded setting stands for. *)
EndpointInv ==
    xaps_global # NULL /\ xaps_global.http_url # NULL =>
        /\ xaps_global.http_url_setting # NULL
        /\ xaps_global.http_url.host = Parse[xaps_global.http_url_setting]

(* The waiting command, the shared record and the pending requests agree   *)
(* at every moment, between any two handlers and callbacks.                *)
IInv == TypeOK /\ WaitInv /\ QuietInv /\ EndpointInv

=============================================================================
