------------------------------ MODULE Uncached ------------------------------
(***************************************************************************)
(* The plugin as it would be without the record its handlers share: every  *)
(* request is made from the settings of its own user, read when it is      *)
(* submitted, and a command is answered with the daemon's answer itself.   *)
(* All the users have in common is the HTTP client.                        *)
(***************************************************************************)
CONSTANTS Users, Login, Userdb, Urls, Parse, Settings, Topics, Slots,
          Framework, NULL, EMPTY, REFUSED

VARIABLES
    conf,      \* conf[u]: u's settings
    client,    \* there is an HTTP client
    inflight,  \* inflight[s]: an unanswered request, or NULL
    users,     \* users[u]: "active" or "plain" (without the push driver),
               \* "deinit" (logging out), "gone"
    cmd,       \* the user whose command waits for its answer, or NULL
    reply,     \* the tagged reply to the last command: a topic or REFUSED
    answer     \* the daemon's answer to it

vars == <<conf, client, inflight, users, cmd, reply, answer>>

NothingPending == \A s \in Slots : inflight[s] = NULL
Idle == cmd = NULL /\ \A u \in Users : users[u] # "deinit"

-----------------------------------------------------------------------------
Usable(s) == s.readable /\ s.url \in Urls /\ Parse[s.url] # NULL

Account(u, key) ==
    IF key \in {NULL, EMPTY} \/ Userdb[u][key] = NULL THEN Login[u] ELSE Userdb[u][key]

Request(callback, path, u) ==
    [callback |-> callback, user |-> u,
     url |-> [host |-> Parse[conf[u].url], path |-> path],
     name |-> Account(u, conf[u].lookup)]

(* The first usable settings make the client, if that does not fail. *)
MakeClient(u) ==
    client' \in IF client \/ ~Usable(conf[u]) THEN {client}
                ELSE IF Framework THEN BOOLEAN ELSE {TRUE}

Ready(u) == Usable(conf[u]) /\ client'

Send(request) == \E s \in Slots : /\ inflight[s] = NULL
                                  /\ inflight' = [inflight EXCEPT ![s] = request]

(* A message arrives for u. *)
Notify(u) ==
    /\ Idle /\ users[u] = "active"
    /\ MakeClient(u)
    /\ IF Ready(u) THEN Send(Request("notify", "/notify", u)) ELSE UNCHANGED inflight
    /\ UNCHANGED <<conf, users, cmd, reply, answer>>

(* XAPPLEPUSHSERVICE is refused on the spot, or put to the daemon. *)
Command(u) ==
    /\ Idle /\ users[u] \in {"active", "plain"}
    /\ MakeClient(u)
    /\ \/ reply' = REFUSED /\ UNCHANGED <<inflight, cmd>>
       \/ /\ Ready(u) /\ Send(Request("register", "/register", u))
          /\ cmd' = u /\ reply' = NULL
    /\ answer' = NULL
    /\ UNCHANGED <<conf, users>>

(* A request ends; only the answer to a registration is of interest. *)
End(s) ==
    /\ inflight[s] # NULL
    /\ inflight' = [inflight EXCEPT ![s] = NULL]
    /\ IF inflight[s].callback = "register" THEN answer' \in Topics \cup {REFUSED}
                                            ELSE UNCHANGED answer
    /\ UNCHANGED <<conf, client, users, cmd, reply>>

Answer ==
    /\ cmd # NULL /\ NothingPending
    /\ cmd' = NULL /\ reply' = answer
    /\ UNCHANGED <<conf, client, inflight, users, answer>>

(* A user comes or goes.  With the push driver, going takes until nothing  *)
(* is pending, and may take the client along.                              *)
Become(u, how) == users' = [users EXCEPT ![u] = how]

ComeOrGo(u) ==
    /\ \/ /\ Idle
          /\ \/ users[u] = "gone" /\ (Become(u, "active") \/ Become(u, "plain"))
             \/ users[u] = "plain" /\ Become(u, "gone")
             \/ users[u] = "active" /\ Become(u, "deinit")
          /\ UNCHANGED client
       \/ /\ users[u] = "deinit" /\ NothingPending /\ Become(u, "gone")
          /\ client' \in {client, FALSE}
    /\ UNCHANGED <<conf, inflight, cmd, reply, answer>>

Unload ==
    /\ NothingPending /\ \A u \in Users : users[u] = "gone"
    /\ client' = FALSE
    /\ UNCHANGED <<conf, inflight, users, cmd, reply, answer>>

Reload(u) ==
    /\ \E s \in Settings : conf' = [conf EXCEPT ![u] = s]
    /\ UNCHANGED <<client, inflight, users, cmd, reply, answer>>

-----------------------------------------------------------------------------
Init ==
    /\ conf \in [Users -> Settings]
    /\ client = FALSE
    /\ inflight = [s \in Slots |-> NULL]
    /\ users = [u \in Users |-> "gone"]
    /\ cmd = NULL /\ reply = NULL /\ answer = NULL

Next ==
    \/ \E u \in Users : Notify(u) \/ Command(u) \/ ComeOrGo(u) \/ Reload(u)
    \/ \E s \in Slots : End(s)
    \/ Answer
    \/ Unload

Spec == Init /\ [][Next]_vars

=============================================================================
