# Verification of the Dovecot XAPS plugins

TLA+ models of the plugins under `src/src`, the TLC runs that check them, and
TLAPS proofs about them. Paths below are relative to the repository
(`src/xaps-utils.c` is the C file of that name).

    tlc -config core24.cfg MCXapsPlugin      # a run: module and cfg as in PROJECT.json
    tlapm XapsPluginProofs.tla               # the proofs

## 1. The system

Two Dovecot plugins are loaded into the IMAP, LDA and LMTP processes. On new
mail, `xaps_push_notification` posts user, mailbox and events to a helper
daemon (`/notify`). `xaps_imap` adds the command `XAPPLEPUSHSERVICE`, by which
an iOS client registers its device; it posts the registration to the daemon
(`/register`), waits, and answers with the *aps-topic* the daemon returned.

| Component | State | Operations | Correct when |
|---|---|---|---|
| Shared configuration, `xaps-utils.c` | `xaps_global`: parsed URL and the setting it came from, lookup key, HTTP client, topic, an alloc-only pool; one per process | `xaps_init()` refreshes it from one user's settings, before every notification and command; `get_real_mbox_user()`; driver `deinit` (a user goes) and `cleanup` (at a logout or at unloading) | no request uses another user's or an outdated endpoint, path or account; no request outlives its user; the pool does not grow for want of a change; nothing crashes |
| Settings, `xaps-settings.c` | none | `xaps_settings_get()`, one implementation per Dovecot series | absent or broken settings are an error, never a crash |
| Registration, `xaps-imap-plugin.c` | the waiting command; the topic in `xaps_global` | `cmd_xapplepushservice()`, `xaps_register()`, `register_client()`, `xaps_register_callback()` | the tagged reply is the daemon's answer to that very command, and it comes |
| Topic reader, `xaps_payload_str()` | a short-lived buffer | reads the response, checks size and characters | the topic is the whole response, and safe to send to the client |
| Argument parser, `parse_xapplepush()` | `struct xaps_attr` | one pass over five pairs | accepts exactly the well-formed commands, reads no further than the arguments |
| Notification driver, `xaps-push-notification-plugin.c` | the subscriptions of each open transaction | `begin_txn`, `process_msg` (`xaps_notify()`), HTTP callback, `deinit`, `cleanup` | each message is announced with the events that happened to it, if the plugin is configured when its turn comes |
| Plugin lifecycle, both plugins | command table, `client_created` hook chain, driver registry and, on 2.4, settings registry (all Dovecot's) | plugin `init`/`deinit` | after any loading and unloading no hook, command or driver that Dovecot may call is in unloaded code, every plugin's hook runs, the capability is shown where the command is |

How they interact. A Dovecot process has one thread. Handlers (a new message,
a command, a logout) run to the end, except that `register_client()` and the
driver's `deinit` call `http_client_wait()`, inside which HTTP callbacks run,
those of other users' requests too. Every handler reads and writes
`xaps_global`, and the registration callback hands its result to the waiting
command only through it. The hard parts are therefore: state shared between
users and plugins, and kept across configuration reloads; several open
transactions; tables of Dovecot that outlive the code they name; a result
passed through a global; waits for requests of others; logouts and cleanup
with requests outstanding; failures half way through `xaps_init()`; responses that arrive in pieces.
There is no persistence, hence no crash recovery, and no second thread.
`PROJECT.json` lists every hazard at its line with the properties that cover
it.

## 2. The modules

| Module | Models | Lines |
|---|---|---|
| `XapsPlugin` | shared configuration, settings, handlers, registration, deinit, cleanup | core |
| `Registration` | what `XAPPLEPUSHSERVICE` promises one client | abstract specification, implemented by `XapsPlugin` |
| `Uncached` | the plugin without the record its handlers share | abstract specification, implemented by `XapsPlugin` |
| `XapsPool` | extends `XapsPlugin` with history of what was put into the pool | no step changed |
| `PluginLifecycle` | both plugins' `init` and `deinit`, the hook chain, command table, driver and settings registries, new clients | with the plugins of others |
| `PushTransaction` | `begin_txn`, and which events `xaps_notify()` finds | with the push-notification framework |
| `XapsTopic` | `xaps_payload_str()` and the stream it reads | algorithm |
| `Payload` | the response read and judged at once | abstract specification, implemented by `XapsTopic` |
| `XapsParse` | `parse_xapplepush()` | algorithm |
| `XapsPluginProofs`, `XapsPoolProofs`, `PluginLifecycleProofs`, `PushTransactionProofs`, `XapsTopicProofs`, `XapsParseProofs` | theorems and proofs | |
| `MCXapsPlugin`, `MCXapsPool`, `MCPluginLifecycle`, `MCPushTransaction`, `MCXapsTopic`, `MCXapsParse` | constants for TLC | |

### XapsPlugin

| Variable | Code |
|---|---|
| `xaps_global` | the global; a record with the C fields, or `NULL`. The pool is left to `XapsPool` |
| `conf` | the settings Dovecot returns for each user; changes at any moment (`Reload`) |
| `inflight` | requests submitted to the HTTP client and not answered, with callback, user, and the URL and name that were copied into them |
| `users` | logged in with the push driver (`active`) or with `xaps_imap` alone (`plain`), inside the driver's `deinit`, or gone |
| `cmd` | the user whose command is inside `http_client_wait()` |
| `reply` | the last tagged reply |
| `answer` | history: what the daemon said to the last registration |
| `crashed` | a null pointer was dereferenced |

Each action is a whole handler up to its end or its wait: `xaps_notify` and
`cmd_xapplepushservice` call the operator `xaps_init`, which is the C function
step by step (`FailClosed`, `NeedsParse`/`RefreshUrl`, `SetPath`,
`RefreshLookup`, `EnsureClient`) with its early returns, then test
`Configured` and `Submit`. `register_client` is what follows the wait.
`Respond` is an HTTP callback; it may happen at any moment, in particular
inside either wait. `BeginDeinit` and `push_notification_driver_xaps_deinit`
are the entry and the return of the driver's `deinit`. A plain user has no
driver, and `LogOut` calls nothing. `cleanup` drops requests as
`http_client_deinit()` does; when Dovecot calls the driver's is not in `src/`,
so the model lets it follow any user's `deinit`, others being active, or not;
`xaps_imap_plugin_deinit` calls it at unloading. The
constant `Framework` chooses the build: with the 2.4 settings framework
`settings_get()` can fail and so can `http_client_init_auto()`; on 2.3 a
setting can be an absent one, a null pointer.

Abstracted: payload text and JSON escaping, logging, HTTP headers; a URL is a
model value and `Parse` says which daemon it stands for, if any. External, and
modelled from the calls the plugin makes: Dovecot's users and settings, its
HTTP client (submits, calls back, waits until no request is left, drops
requests at deinit) and `istream`. A request that was created but never
submitted (the early return at `xaps-imap-plugin.c:213`) is not in
`inflight`: `http_client_wait()` counts submitted requests.

A registration needs two of the code's functions to be right together:
`ReplyIsTheAnswer` would fail if another registration could start during the
wait, if the callback left the topic alone on any of its error paths, or if
the wait could return early.

Two abstract specifications say what the module amounts to. `Registration` is
one client's view: `cmd # NULL` is its `asked`, `answer` its `decision`.
`Uncached` is the whole process without `xaps_global`: a request is built from
its user's own settings at the moment it is submitted, a reply is the daemon's
answer itself, and of the record only "there is an HTTP client" is left
(`client`, which the refinement mapping reads from `xaps_global`). That
`XapsPlugin` implements it (`CacheIsInvisible`) says that nothing of the cached
URL, setting, lookup key or topic ever shows outside. A handler that does
nothing visible, or crashes, is a stutter of both: that a message is announced
at all is `UsableIsNotified`.

### XapsPool

Two histories judge what goes into the pool. `seen` is what the last handler
found, whichever user it served: nothing is stored that `seen` has already
(`GrowsOnDifference`), which is what comparing with the shared record comes
to. `own` is what each user's own last handler found, and `GrowsOnChange`,
that nothing is stored that `own` has, is what the comments of `xaps_init()`
promise ("per-user override", "doesn't grow on every
notification/registration"). The two are the same with one user
(run `pool`); with two whose settings differ the second fails (finding
2). The daemon's topic is no user's setting, so it has no `own`.

### PluginLifecycle

| Variable | Code |
|---|---|
| `loaded` | Dovecot's list of loaded modules, in order |
| `hook`, `next_hook` | `hook_client_created`, and each plugin's `next_hook_client_created` |
| `commands`, `drivers` | what `command_register()` and `push_notification_driver_register()` have entered |
| `infos` | the plugins whose `xaps_setting_parser_info` is registered (`settings_info_register()`, 2.4 only: `Framework`) |
| `users`, `capability` | each user's `mail_plugins`; the clients told of the command |
| `creating`, `at`, `visited` | the client being created: whose, the hook to run next, those that have run |

`Load` and `Unload` do what the module's `init` or `deinit` does, whole. Dovecot
loads a module when a user needs it and unloads in reverse order, when no user
is left: that order is external, it is what makes
restoring the hook seen at loading right, and `ChainInv` says how.
`xaps_push_notification` is loaded only with `push_notification` there
(`Needs`), because its `init` calls a function of that module. The model takes
this from the call, not from the array `xaps_plugin_dependencies`
(`xaps-push-notification-plugin.c:181`): the `init` and `deinit` symbols are
formed from the module's name, `xaps_push_notification_plugin`, and the
array's is not, so that Dovecot may well not find it.
No `deinit` takes `settings_info_register()` back, hence none changes `infos`:
`CalledIsLoaded` is about what Dovecot calls and excludes that registry. The hooks
of other plugins are external; they set and restore the hook as `xaps_imap`
does. A hook is one action, so the chain is walked step by step.

### PushTransaction

`xaps_plugin_begin_txn` subscribes, with the config the driver builds, to the
event types registered at that moment (`events`). `Happens` is the framework:
an event of an open transaction is recorded for its message (`eventdata`) if
it is subscribed to and, for `MessageNew` and `MessageAppend`, the config asks
for something. `Commit` hands the messages to `xaps_notify`, which runs
`xaps_init()` for each and announces it with what was recorded if that leaves
a URL and a client. Which messages find the plugin configured is chosen message
by message, because the HTTP client that cannot be created for one may be there
for the next: a transaction can be announced in part. `Rollback` forgets the
transaction. Three histories remember what is needed to judge a notification:
the types registered when its transaction began (`known`), the messages whose
turn found the plugin configured (`configured`), and what `happened` to each
message, recorded or not. `TellsWhatHappened` compares: `Due` is
the set of event types that happened and were registered when the transaction
began, and a list `Reports` them if it has exactly these, each once, in the
order in which they first happened.
`xaps_notify` of `XapsPlugin` is the same function seen from the shared
configuration; here whether that lets a request out is the parameter
`ready`, there which events it has makes no difference.

### XapsTopic

`body` is the response; `arrived` grows with the network; `buffered` is what
`i_stream_read()` has moved to the stream's buffer. The two nested loops are
`OuterRead` and `TakeChunk`/`InnerRead`; `Check` is the code after them. With
`blocking` a read never finds the stream open and empty; both kinds of stream
start in `Init`. `Payload` has neither loops nor buffer: in one step some first
`n` bytes of the response are refused, because they are too many or have a
control character, or accepted, and if reads block they are accepted only when
the stream has ended and they are all of it. The chunks, and the moments at
which the loops look at the stream, are what the refinement hides.
`XapsPlugin` uses the result as `Topics \cup {"bad_payload"}`.

### XapsParse

One step per iteration of the loop, with `fields` as `struct xaps_attr`.
`WellFormed` says in one formula, over all arguments at once, which commands
are legal; the parser looks at one pair at a time.

## 3. The runs

| Run | Shows |
|---|---|
| `core24` | 2.4 build: type, reply, logout, cleanup and routing properties, every usable configuration is used, the plugin implements `Registration` and `Uncached`, every `deinit` returns, and the inductive invariant of the proofs |
| `core23` | 2.3 build with absent settings and two usable daemons: replies, logout and routing, and `CrashNeedsAbsentLookup`. The process may crash, hence no deadlock check |
| `packaged23` | **violation** of `NoCrash`: finding 1 |
| `pool` | with one user and URLs that parse, the pool grows only when that user's settings or the topic change |
| `pool_two_users` | **violation**: finding 2 |
| `pool_topic` | **violation**: finding 3 |
| `lifecycle` | Dovecot calls nothing in unloaded code, every hook runs, the capability is shown where the command is |
| `txn` | each message whose turn finds the plugin configured is announced, with exactly the events the driver could subscribe to; also the inductive invariant of the proof |
| `topic` | the topic is safe, and the whole legal response or an error if reads block; the reading implements `Payload` |
| `topic_partial` | **violation**: finding 4 |
| `parse` | the parser accepts exactly the well-formed commands, and a key in the fifth slot takes no stale value |
| `parse_empty` | **violation**: finding 5 |

The algorithm runs (topic, parse) end in a final state and have no deadlock
check.

Bounds. Two users, because every hazard of the shared record is between the
user of this handler and one other; one of the two has the userdb field.
Two daemons and an unusable URL, so that an endpoint can be stale or lost.
Two topics, so that one can be the topic of an earlier registration. Two
slots for pending requests (one in the pool's violation runs, which are about
handlers one after the other): a registration waits with a notification
outstanding. `pool` has one user, the hypothesis of the property it is about;
what holds of `GrowsOnDifference` with more is proved.
`lifecycle` has two users, so that one client can be created while another was
told of the command, and two other plugins, so that one can be loaded before
and one after `xaps_imap`. `txn` has two transactions, so that an event can
be registered between their beginnings, two messages in one and one in the
other, and three event types: one of each kind that needs a config, and one
that does not. `XapsTopic` has responses of up to five bytes against a limit
of three, so that a response can be below, at and above the limit, in up to
five chunks, with a control character anywhere. `XapsParse` has five good
pairs in every order with repetitions, every single fault at every place,
every length from 0 to 13.
Symmetry is used for the two messages of one transaction in `txn`, and nowhere
else: users and URLs differ by the constants.

Fairness (`FairSpec`, the specification of `core24`). Every submitted request
is ended, because the HTTP client answers a request itself when it times out; an `http_client_wait()` whose
condition holds returns, because it is the loop the process is in. Weak
fairness suffices for both: requests stay pending, and a wait, once over,
stays over, because no handler runs in it that could submit another. Nothing is
assumed of clients, mail flow, logins, reloads or unloading.

## 4. Findings

1. `xaps-utils.c:141`: on Dovecot 2.3 `xaps_settings_get()` passes on the null
   pointer of an absent `xaps_user_lookup`, and `xaps_init()` dereferences it.
   The packaged configuration ships the setting commented out, as optional.
2. `xaps-utils.c:109`: the comparison is with what the last handler of *any*
   user left, so that two users whose settings differ and do not change have
   their URLs parsed and stored again by every handler that follows one of the
   other. The comment ("per-user override", "doesn't grow on every
   notification/registration") excludes it. The comparison has a second gap, for
   which one user is enough: a URL that does not parse leaves nothing to compare
   with and is parsed again by every handler (`SettingsFew` in the cfg, in
   place of `SettingsTwo`, shows it).
3. `xaps-imap-plugin.c:370`: after a failed registration has cleared the
   topic the same topic is stored again; the comment excludes it.
4. `xaps-imap-plugin.c:343`: `i_stream_read()` returning 0 (nothing there yet)
   is taken for the end of the response: part of a topic can be adopted, or
   the response be called empty.
5. `xaps-imap-plugin.c:167`: an empty mailbox list passes, although the error
   message says that it is refused.

## 5. The proofs

For any finite or infinite sets of users, settings, URLs, topics and slots,
under the named assumptions of `XapsPlugin` (`UserAssumption`, `UrlAssumption`,
`SettingsAssumption`: types; `SentinelAssumption`: `NULL`, `EMPTY` and
`REFUSED` are none of the values they stand beside); in the other modules under
`PluginAssumption` (the plugins differ from one another and from `NULL`; either build),
`TxnAssumption` (which transaction a message belongs to, `NULL` is no list of
events), `TopicAssumption` (types of the bytes and the limit) and `ParseAssumption` (the
texts include the keys, `NULL` is no value):

| Theorem | Says |
|---|---|
| `Inductive` | `IInv` is an invariant |
| `TypeCorrect` | `TypeOK` is |
| `ReplyCorrect` | `ReplyIsTheAnswer` is |
| `DeinitQuiets` | `GoneUsersAreQuiet` is |
| `RoutingCorrect` | the action property `RoutedBySettings` holds |
| `CrashesOnlyWithoutLookup` | `CrashNeedsAbsentLookup` is an invariant |
| `CleanupIsLossless` | the action property `CleanupLosesNothing` holds |
| `UsableNotifies` | the action property `UsableIsNotified` holds |
| `Serves` | every step is a step of `Registration` or leaves it unchanged |
| `CacheIsTransparent` | every behaviour is one of `Uncached` (`CacheIsInvisible`) |
| `NeverCrashesOn24` | with `Framework`, `NoCrash` is an invariant: finding 1 is confined to Dovecot 2.3 |
| `PoolGrowsOnDifference` (`XapsPool`) | `GrowsOnDifference` is an invariant if every URL in use parses and no lookup key is absent (`AllUsable`) |
| `PoolGrowsOnChange` | `GrowsOnChange` is if moreover there is one user (`OneUser`) |
| `LifecycleInductive` (`PluginLifecycle`) | `LifecycleInv` is an invariant, for any users and any other plugins |
| `NothingDangles`, `HooksRun`, `AdvertisementHolds` | `CalledIsLoaded`, `EveryHookRuns`, `AdvertisedIsServed` are |
| `TxnInductive` (`PushTransaction`) | `TxnInv` is an invariant, for any transactions, messages and event types |
| `ToldExactly` | `TellsWhatHappened` is |
| `TopicSafe` (`XapsTopic`) | `TopicIsSafe` is an invariant, for any limit and any response |
| `TopicComplete`, `TopicTypeCorrect` | `TopicIsWhole` and `TopicTypeOK` are |
| `ChunksAreInvisible` | every behaviour is one of `Payload` (`ReadsAtOnce`) |
| `ParserExact` (`XapsParse`) | `AcceptsWellFormed` is an invariant, for any commands, texts and lists |
| `FifthIsReset` | `FifthValueIsReset` is |
| `ParserStaysInArgs`, `ParseTypeCorrect` | `StaysInArgs` and `ParseTypeOK` are |

The properties are not inductive alone. A reply is right because, while a
command waits, *its* registration is the only one pending, until it is
answered, and from then on the shared `aps_topic` is that answer: `WaitInv`.
A logout leaves nothing behind because a pending request implies a client that
the wait finds, and a user that is not gone: `QuietInv`. A request is routed
by the current settings because a cached endpoint is always the one its
recorded setting stands for, so that comparing settings is enough to know
that it is current: `EndpointInv`. `IInv` is their conjunction with `TypeOK`;
run `core24` checks it too. The proof that steps preserve it has one lemma
per part and one case per action; `StepRoutes`, `StepServes` and the proofs of
the two other action properties then use it for one step. Cleanup loses
nothing because a `deinit` before it has waited for every request or has found
no client, and at unloading every user is gone: in the last two cases
`QuietInv` leaves no request pending.

`CacheIsTransparent` takes the same invariant step by step. A handler maps to
`Notify` or `Command` because of what `xaps_init()` leaves behind (`InitFacts`):
an endpoint exactly if the settings are usable, then with their daemon, the
caller's path and their lookup key, and a client if there was one or one could be
made (`ClientAlike`, `MadeFromSettings`). `register_client` maps to `Answer`
by `WaitInv`, `deinit` and unloading to `ComeOrGo` and `Unload` because by
`QuietInv` nothing is pending then, so that dropping the requests drops none.

`XapsPool` is proved from the same invariant: its steps are steps of
`XapsPlugin`, and `SeenInv` says that the record still has what the last
handler found, which is all that the comparisons in `xaps_init()` and
`xaps_payload_str()` look at. With one user `own` is `seen` (`OwnInv`), which
gives the second theorem. Both hypotheses are needed: `pool_two_users` is the
counterexample without `OneUser`, and finding 2 names the one without
`AllUsable`.

`PluginLifecycle`: `ChainInv` says that the list of hooks *is* the list of
loaded modules read backwards, `LastSetter` naming the last setter before
a place. Loading extends and unloading shortens the list at its end, where
both change only what hangs on the last module. `VisitInv` says that a client
being created has passed exactly the hooks behind some place of it.

`PushTransaction`: `SubscribedInv` says that every type registered when a
transaction began is subscribed to in it in a way that the framework records,
so that what is recorded for a message and what has happened to it grow
together: the record of each message is at any moment what is due, and what was
sent is that record, for the messages whose turn found the plugin configured
(`TxnInv`; that these belong to committed transactions is a conjunct of its
own). The lemmas `DueWith` and `EarlierWith` say what
one more event does to the set and the order of those due.

`XapsTopic`: `BufferInv`, the buffer is safe and within the limit before each
chunk, and a chunk only extends it; `WholeInv`, the buffer is the part of the
response that was skipped, so that with blocking reads the loops end behind
its last byte, and a refused chunk refuses the response. `ChunksAreInvisible`
follows from the two: the bytes in the buffer are an acceptable first part of
the response (`BufferIsPrefix`), and a chunk refused makes the part that ends
with it unacceptable (`RefusedIsUnacceptable`).

`XapsParse`: `PairsInv` says what the loop knows of the pairs before the i-th:
a set field has its value from one of them, and in a well-formed command each
of them has set its field. A command that passes has four different keys in
four pairs, hence each once, which leaves the fifth pair for the mailboxes.

Only model-checked: liveness (`DeinitEnds`, and the part of `ServesClient` that
says that every command is answered; `Serves` proves the rest of it), which is
beyond the prover.

## 6. Not modelled

- JSON escaping, payload text and the order of JSON fields; logging;
  `str_free_i()`; the tables of setting definitions; the symbol exported by
  `xaps-settings-plugin.c`; `xaps-json.h`: data and names without control.
- A registration whose mailbox list has an element that is not a string leaves
  a created request unsubmitted (`xaps-imap-plugin.c:213`), and
  `client_read_args()` may be FALSE for want of input (`:89`): what follows is
  decided by Dovecot's HTTP client and command loop, of which `src/` has
  nothing. The same holds of the first user's `http_client_*` settings, which
  the one client of the process keeps (`xaps-utils.c:155`). `PROJECT.json`
  lists the three as hazards without a property.
- What becomes of the parser info that stays in the settings registry of
  Dovecot 2.4 after unloading (`xaps-imap-plugin.c:440`,
  `xaps-push-notification-plugin.c:231`): the model leaves it there (`infos`),
  as the code does; whether Dovecot drops it with the module is not in `src/`.
  It is a hazard without a property in `PROJECT.json` too.
- Whether Dovecot finds `xaps_plugin_dependencies`
  (`xaps-push-notification-plugin.c:181`), see `PluginLifecycle` above, and
  whether the two modules, which link `xaps-utils.c` each, share one
  `xaps_global`: the dynamic linker decides. `XapsPlugin` has one, the case
  with more interference.
- The tests and Dovecot stubs; build, packaging and release configuration.
- `.github/workflows` (merge and review gates): what they do depends on events,
  branch protection and a merge queue that belong to GitHub.
- `scripts/`: they read and edit text files; no state outlives a call and
  nothing runs concurrently.

`XapsTopic` and `XapsPlugin` are not composed. The loops of
`xaps_payload_str()` run inside one HTTP callback, during which no other code
of the process runs, and `ChunksAreInvisible` says that they amount to one step;
that step is the choice of `resp` in `Respond`.
