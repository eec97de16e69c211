-------------------------- MODULE PluginLifecycle --------------------------
(***************************************************************************)
(* The two plugins as modules of a Dovecot process: what their init and    *)
(* deinit enter into Dovecot's tables (the command table, the chain of     *)
(* client_created hooks, the registry of push-notification drivers, and on *)
(* Dovecot 2.4 the registry of settings), and what a new IMAP client makes *)
(* of it.                                                                  *)
(*                                                                         *)
(* Dovecot loads a module when the first user needs it and unloads all of  *)
(* them in reverse order when the last user is gone.  Other plugins hook   *)
(* client creation as xaps_imap does.                                      *)
(***************************************************************************)
EXTENDS Integers, Sequences

CONSTANTS
    Users,
    IMAP, PUSH,     \* xaps_imap and xaps_push_notification
    NOTIFY,         \* push_notification, which owns the driver registry
    Others,         \* other plugins that set the client_created hook
    Framework,      \* XAPS_HAVE_SETTINGS_FRAMEWORK: the Dovecot 2.4 build
    NULL

Setters == Others \cup {IMAP}
Plugins == Setters \cup {PUSH, NOTIFY}

ASSUME PluginAssumption ==
    /\ IMAP \notin Others /\ IMAP \notin {PUSH, NOTIFY}
    /\ {PUSH, NOTIFY} \cap Others = {} /\ PUSH # NOTIFY
    /\ Framework \in BOOLEAN
    /\ NULL \notin Users \cup Plugins /\ \A ps \in SUBSET Plugins : ps # NULL

VARIABLES
    loaded,      \* the loaded modules, in the order of loading
    hook,        \* Dovecot's client_created hook, named by its plugin, or NULL
    next_hook,   \* next_hook[p]: the hook p found when it set its own
    commands,    \* the plugins whose command is in the command table
    drivers,     \* the plugins whose driver is in the registry
    infos,       \* the plugins whose xaps_setting_parser_info is registered
    users,       \* users[u]: u's mail_plugins, NULL when not logged in
    capability,  \* the users whose client is told of XAPPLEPUSHSERVICE
    creating,    \* the user whose client is being created, or NULL
    at,          \* the hook that runs next for it, or NULL
    visited      \* history: the hooks that have run for it, or for the last one

tables == <<loaded, hook, next_hook, commands, drivers, infos>>
client == <<capability, creating, at, visited>>
vars == <<tables, users, client>>

Loaded == {loaded[n] : n \in DOMAIN loaded}
NoUsers == \A u \in Users : users[u] = NULL

-----------------------------------------------------------------------------
(* imap_client_created_hook_set() by a plugin that remembers what it finds *)
(* (next_hook_client_created).  The mutant forgets it.                     *)
ForgetsNext(p) == hook' = p /\ UNCHANGED next_hook
SetHook(p) == hook' = p /\ next_hook' = [next_hook EXCEPT ![p] = hook]

(* The mutant leaves the hook. *)
LeavesHook(p) == UNCHANGED hook
RestoreHook(p) == hook' = next_hook[p]

(* settings_info_register(), on Dovecot 2.4.  No deinit takes it back. *)
RegisterInfo(p) == infos' = IF Framework THEN infos \cup {p} ELSE infos

xaps_imap_plugin_init ==
    /\ RegisterInfo(IMAP)
    /\ commands' = commands \cup {IMAP}
    /\ SetHook(IMAP)
    /\ UNCHANGED drivers

xaps_imap_plugin_deinit ==
    /\ RestoreHook(IMAP)
    /\ commands' = commands \ {IMAP}
    /\ UNCHANGED <<next_hook, drivers, infos>>

xaps_push_notification_plugin_init ==
    /\ RegisterInfo(PUSH)
    /\ drivers' = drivers \cup {PUSH}
    /\ UNCHANGED <<hook, next_hook, commands>>

xaps_push_notification_plugin_deinit ==
    /\ drivers' = drivers \ {PUSH}
    /\ UNCHANGED <<hook, next_hook, commands, infos>>

other_init(p) == SetHook(p) /\ UNCHANGED <<commands, drivers, infos>>
other_deinit(p) == hook' = next_hook[p] /\ UNCHANGED <<next_hook, commands, drivers, infos>>

(* What p's init cannot run without: push_notification_driver_register()   *)
(* is a function of NOTIFY's module, and PUSH is linked with no library    *)
(* that has it.  (xaps_plugin_dependencies names the same module; its own  *)
(* name is not formed from the module's, as that of the init is, so        *)
(* nothing here assumes that Dovecot reads it.)                            *)
Needs(p) == IF p = PUSH THEN {NOTIFY} ELSE {}

Load(p) ==
    /\ creating = NULL
    /\ p \notin Loaded /\ Needs(p) \subseteq Loaded
    /\ loaded' = Append(loaded, p)
    /\ \/ p = IMAP /\ xaps_imap_plugin_init
       \/ p = PUSH /\ xaps_push_notification_plugin_init
       \/ p \in Others /\ other_init(p)
       \/ p = NOTIFY /\ UNCHANGED <<hook, next_hook, commands, drivers, infos>>
    /\ UNCHANGED <<users, client>>

Unload(p) ==
    /\ creating = NULL /\ NoUsers
    /\ loaded # <<>> /\ p = loaded[Len(loaded)]
    /\ loaded' = SubSeq(loaded, 1, Len(loaded) - 1)
    /\ \/ p = IMAP /\ xaps_imap_plugin_deinit
       \/ p = PUSH /\ xaps_push_notification_plugin_deinit
       \/ p \in Others /\ other_deinit(p)
       \/ p = NOTIFY /\ UNCHANGED <<hook, next_hook, commands, drivers, infos>>
    /\ UNCHANGED <<users, client>>

-----------------------------------------------------------------------------
(* A user logs in, with some of the modules in mail_plugins, and the       *)
(* client is created: the hooks run, each calling the next.                *)
LogIn(u) ==
    /\ creating = NULL /\ users[u] = NULL
    /\ \E ps \in SUBSET Loaded : users' = [users EXCEPT ![u] = ps]
    /\ creating' = u /\ at' = hook /\ visited' = <<>>
    /\ UNCHANGED <<tables, capability>>

(* The mutants advertise to every client, and end the chain at a client    *)
(* that is not advertised to.                                              *)
AdvertisesToAll(u) == TRUE
Advertises(u) == IMAP \in users[u]
StopsIfNotLoaded(p) == IF p = IMAP /\ IMAP \notin users[creating] THEN NULL
                                                                  ELSE next_hook[p]
NextHook(p) == next_hook[p]

(* xaps_client_created(), or the hook of another plugin. *)
xaps_client_created ==
    /\ creating # NULL /\ at # NULL
    /\ capability' = IF at = IMAP /\ Advertises(creating)
                     THEN capability \cup {creating} ELSE capability
    /\ visited' = Append(visited, at)
    /\ at' = NextHook(at)
    /\ UNCHANGED <<tables, users, creating>>

ClientCreated ==
    /\ creating # NULL /\ at = NULL
    /\ creating' = NULL
    /\ UNCHANGED <<tables, users, capability, at, visited>>

LogOut(u) ==
    /\ creating = NULL /\ users[u] # NULL
    /\ users' = [users EXCEPT ![u] = NULL]
    /\ capability' = capability \ {u}
    /\ UNCHANGED <<tables, creating, at, visited>>

-----------------------------------------------------------------------------
Init ==
    /\ loaded = <<>> /\ hook = NULL
    /\ next_hook = [p \in Setters |-> NULL]
    /\ commands = {} /\ drivers = {} /\ infos = {}
    /\ users = [u \in Users |-> NULL]
    /\ capability = {} /\ creating = NULL /\ at = NULL /\ visited = <<>>

Next ==
    \/ \E p \in Plugins : Load(p) \/ Unload(p)
    \/ \E u \in Users : LogIn(u) \/ LogOut(u)
    \/ xaps_client_created
    \/ ClientCreated

Spec == Init /\ [][Next]_vars

-----------------------------------------------------------------------------
LifecycleTypeOK ==
    /\ loaded \in Seq(Plugins)
    /\ hook \in Setters \cup {NULL}
    /\ next_hook \in [Setters -> Setters \cup {NULL}]
    /\ commands \subseteq {IMAP} /\ drivers \subseteq {PUSH}
    /\ infos \subseteq {IMAP, PUSH}
    /\ users \in [Users -> {NULL} \cup SUBSET Plugins]
    /\ capability \subseteq Users
    /\ creating \in Users \cup {NULL}
    /\ at \in Setters \cup {NULL}
    /\ visited \in Seq(Setters)

(* Whatever Dovecot may call next is in a loaded module: the head of the   *)
(* hook chain and every hook behind it, the command, the driver, and the   *)
(* registry that the driver's deinit unregisters it from.  Of the settings *)
(* registry, which is read and not called, the same does not hold: no      *)
(* deinit takes an info back (infos).                                      *)
CalledIsLoaded ==
    /\ \A p \in Loaded \cap Setters : next_hook[p] \in Loaded \cup {NULL}
    /\ hook \in Loaded \cup {NULL} /\ at \in Loaded \cup {NULL}
    /\ commands \subseteq Loaded
    /\ drivers \subseteq Loaded /\ (PUSH \in Loaded => NOTIFY \in Loaded)

(* A new client passes the hook of every loaded plugin, once, the plugin   *)
(* loaded last first, whichever plugins were loaded and unloaded before    *)
(* and whether or not the user has them (xaps_client_created() calls the   *)
(* next hook in either case).                                              *)
EveryHookRuns ==
    creating # NULL /\ at = NULL =>
        /\ \A p \in Loaded \cap Setters : \E n \in DOMAIN visited : visited[n] = p
        /\ \A i, j \in DOMAIN visited : i < j =>
              \E m, n \in DOMAIN loaded : /\ m > n /\ loaded[m] = visited[i]
                                          /\ loaded[n] = visited[j]

(* XAPPLEPUSHSERVICE is advertised to the clients of exactly the users who *)
(* have the plugin, and the command stays in the table as long as a client *)
(* it was advertised to is connected.                                      *)
AdvertisedIsServed ==
    /\ \A u \in Users \ {creating} :
          u \in capability <=> users[u] # NULL /\ IMAP \in users[u]
    /\ capability # {} => IMAP \in commands

-----------------------------------------------------------------------------
(* The inductive invariant.  h is the hook of the last plugin among the    *)
(* first n of s that sets one.                                             *)
LastSetter(s, h, n) ==
    \/ h = NULL /\ \A j \in 1..n : s[j] \notin Setters
    \/ \E m \in 1..n : /\ s[m] = h /\ h \in Setters
                       /\ \A j \in (m + 1)..n : s[j] \notin Setters

(* The chain of hooks is the list of the loaded plugins, backwards.        *)
ChainInv ==
    /\ \A m, n \in DOMAIN loaded : loaded[m] = loaded[n] => m = n
    /\ LastSetter(loaded, hook, Len(loaded))
    /\ \A n \in DOMAIN loaded :
          loaded[n] \in Setters => LastSetter(loaded, next_hook[loaded[n]], n - 1)

(* A client being created has passed the hooks behind some place in it.    *)
Passed(n) ==
    /\ LastSetter(loaded, at, n)
    /\ \A j \in (n + 1)..Len(loaded) :
          loaded[j] \in Setters => \E i \in DOMAIN visited : visited[i] = loaded[j]
    /\ \A i \in DOMAIN visited : \E j \in (n + 1)..Len(loaded) : loaded[j] = visited[i]
    /\ \A h, i \in DOMAIN visited : h < i =>
          \E j, k \in (n + 1)..Len(loaded) : /\ j > k /\ loaded[j] = visited[h]
                                            /\ loaded[k] = visited[i]
VisitInv == creating # NULL => \E n \in 0..Len(loaded) : Passed(n)

TableInv ==
    /\ at = NULL \/ creating # NULL
    /\ IMAP \in commands <=> IMAP \in Loaded
    /\ drivers \subseteq Loaded
    /\ IF Framework THEN Loaded \cap {IMAP, PUSH} \subseteq infos ELSE infos = {}
    /\ \A n \in DOMAIN loaded :
          loaded[n] = PUSH => \E m \in 1..(n - 1) : loaded[m] = NOTIFY

UserInv ==
    /\ \A u \in Users : users[u] # NULL => users[u] \subseteq Loaded
    /\ \A u \in capability : users[u] # NULL /\ IMAP \in users[u]
    /\ \A u \in Users \ {creating} :
          users[u] # NULL /\ IMAP \in users[u] => u \in capability
    /\ creating # NULL =>
          /\ users[creating] # NULL
          /\ IMAP \in users[creating] =>
                ((\E i \in DOMAIN visited : visited[i] = IMAP) => creating \in capability)

(* Tables, hook chain, users and the client being created agree, after any *)
(* sequence of loading, unloading, logins and logouts; on Dovecot 2.4 the  *)
(* command and the driver, which read settings, find theirs registered.    *)
LifecycleInv == LifecycleTypeOK /\ ChainInv /\ VisitInv /\ TableInv /\ UserInv

=============================================================================
