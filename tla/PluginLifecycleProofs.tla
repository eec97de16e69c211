----------------------- MODULE PluginLifecycleProofs -----------------------
(***************************************************************************)
(* The invariants of PluginLifecycle, for any users and any other plugins. *)
(***************************************************************************)
EXTENDS PluginLifecycle, SequenceTheorems, TLAPS

(* The last setter among the first n depends on the first n alone.         *)
LEMMA SetterAgree ==
    ASSUME NEW s, NEW t, NEW n \in Nat, \A j \in 1..n : t[j] = s[j], NEW h
    PROVE  LastSetter(t, h, n) <=> LastSetter(s, h, n)
<1>1. \A m \in 1..n : \A j \in (m + 1)..n : t[j] = s[j]
  OBVIOUS
<1>2. QED
  BY <1>1 DEF LastSetter

(* Loading: the chain of the modules loaded before, and of the new one.    *)
LEMMA SetterAppend ==
    ASSUME NEW s \in Seq(Plugins), NEW p \in Plugins, NEW h
    PROVE  LET t == Append(s, p) IN
           /\ \A n \in 0..Len(s) : LastSetter(t, h, n) <=> LastSetter(s, h, n)
           /\ p \in Setters => LastSetter(t, p, Len(t))
           /\ p \notin Setters /\ LastSetter(s, h, Len(s)) => LastSetter(t, h, Len(t))
<1> DEFINE t == Append(s, p)
<1>1. /\ t \in Seq(Plugins) /\ Len(t) = Len(s) + 1 /\ Len(s) \in Nat
      /\ t[Len(t)] = p /\ \A j \in 1..Len(s) : t[j] = s[j]
  OBVIOUS
<1> HIDE DEF t
<1>2. ASSUME NEW n \in 0..Len(s)
      PROVE  LastSetter(t, h, n) <=> LastSetter(s, h, n)
  BY <1>1, SetterAgree
<1>3. p \in Setters => LastSetter(t, p, Len(t))
  BY <1>1 DEF LastSetter
<1>4. ASSUME p \notin Setters, LastSetter(s, h, Len(s))
      PROVE  LastSetter(t, h, Len(t))
  <2>1. LastSetter(t, h, Len(s))
    BY <1>1, <1>2, <1>4
  <2>2. QED
    BY <1>1, <1>4, <2>1 DEF LastSetter
<1>5. QED
  BY <1>2, <1>3, <1>4 DEF t

(* Unloading: what is left of the chain when the last module goes.         *)
LEMMA SetterFront ==
    ASSUME NEW s \in Seq(Plugins), s # <<>>, NEW h
    PROVE  LET t == SubSeq(s, 1, Len(s) - 1) IN
           /\ t \in Seq(Plugins) /\ Len(t) = Len(s) - 1
           /\ \A j \in 1..Len(t) : t[j] = s[j]
           /\ \A n \in 0..Len(t) : LastSetter(t, h, n) <=> LastSetter(s, h, n)
           /\ s[Len(s)] \notin Setters /\ LastSetter(s, h, Len(s)) =>
                 LastSetter(t, h, Len(t))
<1> DEFINE t == SubSeq(s, 1, Len(s) - 1)
<1>1. Len(s) \in Nat /\ Len(s) > 0 /\ \A j \in 1..Len(s) - 1 : s[j] \in Plugins
  OBVIOUS
<1>2. t \in Seq(Plugins) /\ Len(t) = Len(s) - 1 /\ \A j \in 1..Len(t) : t[j] = s[j]
  <2> DEFINE k == Len(s) - 1
  <2>1. k \in Nat /\ 1 \in Int /\ \A j \in 1..k : s[j] \in Plugins
    BY <1>1
  <2> HIDE DEF k
  <2>2. /\ SubSeq(s, 1, k) \in Seq(Plugins)
        /\ Len(SubSeq(s, 1, k)) = IF 1 <= k THEN k - 1 + 1 ELSE 0
        /\ \A j \in 1..k - 1 + 1 : SubSeq(s, 1, k)[j] = s[1 + j - 1]
    BY <2>1, SubSeqProperties, Z3
  <2>3. /\ Len(SubSeq(s, 1, k)) = k
        /\ \A j \in 1..k : SubSeq(s, 1, k)[j] = s[j]
    BY <2>1, <2>2
  <2>4. QED
    BY <2>2, <2>3 DEF k
<1> HIDE DEF t
<1>4. ASSUME NEW n \in 0..Len(t)
      PROVE  LastSetter(t, h, n) <=> LastSetter(s, h, n)
  <2>1. n \in Nat /\ \A j \in 1..n : t[j] = s[j]
    BY <1>1, <1>2
  <2>2. QED
    BY <2>1, SetterAgree
<1>5. ASSUME s[Len(s)] \notin Setters, LastSetter(s, h, Len(s))
      PROVE  LastSetter(t, h, Len(t))
  <2>1. LastSetter(s, h, Len(s) - 1)
    BY <1>1, <1>5 DEF LastSetter
  <2>2. QED
    BY <1>1, <1>2, <1>4, <2>1
<1>6. QED
  BY <1>2, <1>4, <1>5 DEF t

-----------------------------------------------------------------------------
LEMMA LoadInv ==
    ASSUME LifecycleInv, NEW p \in Plugins, Load(p)
    PROVE  LifecycleInv'
<1> USE PluginAssumption DEF Plugins
<1>1. /\ loaded \in Seq(Plugins) /\ loaded' = Append(loaded, p)
      /\ loaded' \in Seq(Plugins) /\ Len(loaded') = Len(loaded) + 1
      /\ Len(loaded) \in Nat /\ loaded'[Len(loaded')] = p
      /\ \A j \in 1..Len(loaded) : loaded'[j] = loaded[j]
  BY DEF Load, LifecycleInv, LifecycleTypeOK
<1>7. ASSUME NEW h, NEW n \in 0..Len(loaded), LastSetter(loaded, h, n)
      PROVE  LastSetter(loaded', h, n)
  BY <1>1, <1>7, SetterAppend
<1>2. p \notin Loaded /\ Loaded' = Loaded \cup {p}
  BY <1>1 DEF Load, Loaded
<1>3. UNCHANGED <<users, client>> /\ creating = NULL /\ at = NULL
  BY DEF Load, LifecycleInv, TableInv
<1>4. CASE p \in Setters
  <2>1. hook' = p /\ next_hook' = [next_hook EXCEPT ![p] = hook]
    BY <1>4 DEF Load, xaps_imap_plugin_init, other_init, SetHook, Setters
  <2>2. /\ commands' = IF p = IMAP THEN commands \cup {IMAP} ELSE commands
        /\ drivers' = drivers
        /\ infos' = IF Framework /\ p = IMAP THEN infos \cup {IMAP} ELSE infos
    BY <1>4 DEF Load, xaps_imap_plugin_init, other_init, Setters, RegisterInfo
  <2>3. LifecycleTypeOK'
    BY <1>1, <1>3, <1>4, <2>1, <2>2 DEF LifecycleInv, LifecycleTypeOK, client
  <2>4. ChainInv'
    <3>1. LastSetter(loaded', hook', Len(loaded'))
      BY <1>1, <1>4, <2>1, SetterAppend
    <3>2. ASSUME NEW n \in DOMAIN loaded', loaded'[n] \in Setters
          PROVE  LastSetter(loaded', next_hook'[loaded'[n]], n - 1)
      <4>1. CASE n = Len(loaded')
        <5>1. next_hook'[loaded'[n]] = hook
          BY <1>1, <1>4, <2>1, <4>1 DEF LifecycleInv, LifecycleTypeOK
        <5>2. LastSetter(loaded, hook, Len(loaded))
          BY DEF LifecycleInv, ChainInv
        <5>3. n - 1 = Len(loaded) /\ Len(loaded) \in 0..Len(loaded)
          BY <1>1, <4>1
        <5>4. LastSetter(loaded', hook, Len(loaded))
          BY <1>7, <5>2, <5>3
        <5>5. QED
          BY <5>1, <5>3, <5>4
      <4>2. CASE n # Len(loaded')
        <5>1. n \in 1..Len(loaded) /\ loaded'[n] = loaded[n] /\ loaded[n] # p
          BY <1>1, <1>2, <4>2 DEF Loaded
        <5>2. next_hook'[loaded'[n]] = next_hook[loaded[n]]
          BY <2>1, <3>2, <5>1 DEF LifecycleInv, LifecycleTypeOK
        <5>3. LastSetter(loaded, next_hook[loaded[n]], n - 1)
          BY <3>2, <5>1 DEF LifecycleInv, ChainInv
        <5>4. n - 1 \in 0..Len(loaded)
          BY <1>1, <5>1
        <5>5. QED
          BY <1>7, <5>2, <5>3, <5>4
      <4>3. QED
        BY <4>1, <4>2
    <3>3. \A m, n \in DOMAIN loaded' : loaded'[m] = loaded'[n] => m = n
      BY <1>1, <1>2 DEF LifecycleInv, ChainInv, Loaded
    <3>4. QED
      BY <3>1, <3>2, <3>3 DEF ChainInv
  <2>5. TableInv'
    BY <1>1, <1>2, <1>3, <1>4, <2>2 DEF LifecycleInv, TableInv, Setters, client
  <2>6. UserInv' /\ VisitInv'
    BY <1>2, <1>3 DEF LifecycleInv, UserInv, VisitInv, client
  <2>7. QED
    BY <2>3, <2>4, <2>5, <2>6 DEF LifecycleInv
<1>5. CASE p \notin Setters
  <2>1. /\ UNCHANGED <<hook, next_hook, commands>>
        /\ drivers' = IF p = PUSH THEN drivers \cup {PUSH} ELSE drivers
        /\ infos' = IF Framework /\ p = PUSH THEN infos \cup {PUSH} ELSE infos
    <3>1. CASE p = PUSH
      <4>1. xaps_push_notification_plugin_init
        BY <1>5, <3>1 DEF Load, Setters
      <4>2. QED
        BY <3>1, <4>1 DEF xaps_push_notification_plugin_init, RegisterInfo
    <3>2. CASE p # PUSH
      <4>1. UNCHANGED <<hook, next_hook, commands, drivers, infos>>
        BY <1>5, <3>2 DEF Load, Setters
      <4>2. QED
        BY <3>2, <4>1
    <3>3. QED
      BY <3>1, <3>2
  <2>2. LifecycleTypeOK'
    <3>1. commands' \subseteq {IMAP} /\ drivers' \subseteq {PUSH} /\ infos' \subseteq {IMAP, PUSH}
      BY <2>1 DEF LifecycleInv, LifecycleTypeOK
    <3>2. QED
      BY <1>1, <1>3, <2>1, <3>1 DEF LifecycleInv, LifecycleTypeOK, client
  <2>3. ChainInv'
    <3>1. LastSetter(loaded', hook, Len(loaded'))
      BY <1>1, <1>5, SetterAppend DEF LifecycleInv, ChainInv
    <3>2. ASSUME NEW n \in DOMAIN loaded', loaded'[n] \in Setters
          PROVE  LastSetter(loaded', next_hook[loaded'[n]], n - 1)
      <4>1. n \in 1..Len(loaded) /\ loaded'[n] = loaded[n]
        BY <1>1, <1>5, <3>2
      <4>2. LastSetter(loaded, next_hook[loaded[n]], n - 1)
        BY <3>2, <4>1 DEF LifecycleInv, ChainInv
      <4>3. n - 1 \in 0..Len(loaded)
        BY <1>1, <4>1
      <4>4. QED
        BY <1>7, <4>1, <4>2, <4>3
    <3>3. \A m, n \in DOMAIN loaded' : loaded'[m] = loaded'[n] => m = n
      BY <1>1, <1>2 DEF LifecycleInv, ChainInv, Loaded
    <3>4. QED
      BY <2>1, <3>1, <3>2, <3>3 DEF ChainInv
  <2>4. TableInv'
    <3>1. p = PUSH => NOTIFY \in Loaded
      BY DEF Load, Needs
    <3>2. \A n \in DOMAIN loaded' :
            loaded'[n] = PUSH => \E m \in 1..(n - 1) : loaded'[m] = NOTIFY
      BY <1>1, <3>1 DEF LifecycleInv, TableInv, Loaded
    <3>3. (IF Framework THEN Loaded \cap {IMAP, PUSH} \subseteq infos ELSE infos = {})'
      BY <1>2, <1>5, <2>1 DEF LifecycleInv, TableInv, Setters
    <3>4. /\ (IMAP \in commands <=> IMAP \in Loaded)'
          /\ (drivers \subseteq Loaded)'
      BY <1>2, <1>5, <2>1 DEF LifecycleInv, TableInv, Setters
    <3>5. QED
      BY <1>3, <3>2, <3>3, <3>4 DEF TableInv, client
  <2>5. UserInv' /\ VisitInv'
    BY <1>2, <1>3 DEF LifecycleInv, UserInv, VisitInv, client
  <2>6. QED
    BY <2>2, <2>3, <2>4, <2>5 DEF LifecycleInv
<1>6. QED
  BY <1>4, <1>5

LEMMA UnloadInv ==
    ASSUME LifecycleInv, NEW p \in Plugins, Unload(p)
    PROVE  LifecycleInv'
<1> USE PluginAssumption DEF Plugins
<1>1. /\ loaded \in Seq(Plugins) /\ loaded # <<>> /\ p = loaded[Len(loaded)]
      /\ loaded' = SubSeq(loaded, 1, Len(loaded) - 1)
      /\ Len(loaded) \in Nat /\ Len(loaded) > 0
  BY DEF Unload, LifecycleInv, LifecycleTypeOK
<1>2. /\ loaded' \in Seq(Plugins) /\ Len(loaded') = Len(loaded) - 1
      /\ \A j \in 1..Len(loaded') : loaded'[j] = loaded[j]
  BY <1>1, SetterFront
<1>3. Loaded' = Loaded \ {p}
  <2>1. \A m, n \in DOMAIN loaded : loaded[m] = loaded[n] => m = n
    BY DEF LifecycleInv, ChainInv
  <2>2. DOMAIN loaded = 1..Len(loaded) /\ DOMAIN loaded' = 1..Len(loaded')
    BY <1>1, <1>2
  <2>3. ASSUME NEW q \in Loaded'
        PROVE  q \in Loaded \ {p}
    <3>1. PICK n \in 1..Len(loaded') : loaded'[n] = q
      BY <2>2 DEF Loaded
    <3>2. n \in 1..Len(loaded) /\ n # Len(loaded) /\ loaded[n] = q
      BY <1>1, <1>2, <3>1
    <3>3. QED
      <4>1. n \in DOMAIN loaded /\ Len(loaded) \in DOMAIN loaded
        <5>1. Len(loaded) \in 1..Len(loaded)
          BY <1>1
        <5>2. QED
          BY <2>2, <3>2, <5>1
      <4>2. q # p
        BY <1>1, <2>1, <3>2, <4>1
      <4>3. QED
        BY <3>2, <4>1, <4>2 DEF Loaded
  <2>4. ASSUME NEW q \in Loaded \ {p}
        PROVE  q \in Loaded'
    <3>1. PICK n \in 1..Len(loaded) : loaded[n] = q
      BY <2>2 DEF Loaded
    <3>2. n \in 1..Len(loaded') /\ loaded'[n] = q
      BY <1>1, <1>2, <2>4, <3>1
    <3>3. QED
      BY <2>2, <3>2 DEF Loaded
  <2>5. QED
    BY <2>3, <2>4
<1>4. /\ UNCHANGED <<users, client, next_hook, infos>> /\ creating = NULL /\ at = NULL
      /\ \A u \in Users : users[u] = NULL
  BY DEF Unload, LifecycleInv, TableInv, NoUsers, xaps_imap_plugin_deinit,
         xaps_push_notification_plugin_deinit, other_deinit
<1>5. /\ hook' = IF p \in Setters THEN next_hook[p] ELSE hook
      /\ commands' = IF p = IMAP THEN commands \ {IMAP} ELSE commands
      /\ drivers' = IF p = PUSH THEN drivers \ {PUSH} ELSE drivers
  BY DEF Unload, xaps_imap_plugin_deinit, RestoreHook, Setters,
         xaps_push_notification_plugin_deinit, other_deinit
<1>6. LifecycleTypeOK'
  BY <1>2, <1>4, <1>5 DEF LifecycleInv, LifecycleTypeOK, client
<1>7. ChainInv'
  <2>1. LastSetter(loaded', hook', Len(loaded'))
    <3>1. CASE p \in Setters
      <4>1. LastSetter(loaded, next_hook[p], Len(loaded) - 1)
        BY <1>1, <3>1 DEF LifecycleInv, ChainInv
      <4>2. Len(loaded') \in 0..Len(loaded')
        BY <1>1, <1>2
      <4>3. \A n \in 0..Len(loaded') :
              LastSetter(loaded', next_hook[p], n) <=> LastSetter(loaded, next_hook[p], n)
        <5>1. \A n \in 0..Len(SubSeq(loaded, 1, Len(loaded) - 1)) :
                LastSetter(SubSeq(loaded, 1, Len(loaded) - 1), next_hook[p], n)
                  <=> LastSetter(loaded, next_hook[p], n)
          BY <1>1, SetterFront
        <5>2. QED
          BY <1>1, <5>1
      <4>4. QED
        BY <1>2, <1>5, <3>1, <4>1, <4>2, <4>3
    <3>2. CASE p \notin Setters
      BY <1>1, <1>5, <3>2, SetterFront DEF LifecycleInv, ChainInv
    <3>3. QED
      BY <3>1, <3>2
  <2>2. ASSUME NEW n \in DOMAIN loaded', loaded'[n] \in Setters
        PROVE  LastSetter(loaded', next_hook'[loaded'[n]], n - 1)
    <3>1. n \in DOMAIN loaded /\ loaded'[n] = loaded[n] /\ n - 1 \in 0..Len(loaded')
      BY <1>1, <1>2
    <3>2. LastSetter(loaded, next_hook[loaded[n]], n - 1)
      BY <2>2, <3>1 DEF LifecycleInv, ChainInv
    <3>3. QED
      BY <1>1, <1>4, <3>1, <3>2, SetterFront
  <2>3. \A m, n \in DOMAIN loaded' : loaded'[m] = loaded'[n] => m = n
    BY <1>1, <1>2 DEF LifecycleInv, ChainInv
  <2>4. QED
    BY <2>1, <2>2, <2>3 DEF ChainInv
<1>8. TableInv'
  <2>1. \A n \in DOMAIN loaded' :
          loaded'[n] = PUSH => \E m \in 1..(n - 1) : loaded'[m] = NOTIFY
    BY <1>1, <1>2 DEF LifecycleInv, TableInv
  <2>2. (at = NULL \/ creating # NULL)'
    BY <1>4 DEF client
  <2>3. (IMAP \in commands <=> IMAP \in Loaded)'
    BY <1>3, <1>5 DEF LifecycleInv, TableInv
  <2>4. (drivers \subseteq Loaded)'
    BY <1>3, <1>5 DEF LifecycleInv, LifecycleTypeOK, TableInv
  <2>5. (IF Framework THEN Loaded \cap {IMAP, PUSH} \subseteq infos ELSE infos = {})'
    BY <1>3, <1>4 DEF LifecycleInv, TableInv
  <2>6. QED
    BY <2>1, <2>2, <2>3, <2>4, <2>5 DEF TableInv
<1>9. UserInv' /\ VisitInv'
  BY <1>4 DEF LifecycleInv, LifecycleTypeOK, UserInv, VisitInv, client
<1>10. QED
  BY <1>6, <1>7, <1>8, <1>9 DEF LifecycleInv

-----------------------------------------------------------------------------
LEMMA LogInInv ==
    ASSUME LifecycleInv, NEW u \in Users, LogIn(u)
    PROVE  LifecycleInv'
<1> USE PluginAssumption
<1>1. /\ UNCHANGED <<loaded, hook, next_hook, commands, drivers, infos, capability>>
      /\ creating' = u /\ at' = hook /\ visited' = <<>>
      /\ creating = NULL /\ users[u] = NULL /\ u # NULL
  BY DEF LogIn, tables
<1>2. PICK ps \in SUBSET Loaded : users' = [users EXCEPT ![u] = ps]
  BY DEF LogIn
<1>3. Loaded \subseteq Plugins /\ Loaded' = Loaded
  BY <1>1 DEF LifecycleInv, LifecycleTypeOK, Loaded
<1>4. LifecycleTypeOK'
  BY <1>1, <1>2, <1>3 DEF LifecycleInv, LifecycleTypeOK
<1>5. ChainInv' /\ TableInv'
  BY <1>1, <1>3 DEF LifecycleInv, ChainInv, TableInv
<1>6. VisitInv'
  <2>1. DOMAIN visited' = {} /\ Len(loaded) \in Nat
    BY <1>1 DEF LifecycleInv, LifecycleTypeOK
  <2>2. Passed(Len(loaded))'
    BY <1>1, <2>1 DEF LifecycleInv, ChainInv, Passed
  <2>3. QED
    BY <1>1, <2>1, <2>2 DEF VisitInv
<1>7. UserInv'
  <2>1. \A v \in Users : users'[v] = IF v = u THEN ps ELSE users[v]
    BY <1>2 DEF LifecycleInv, LifecycleTypeOK
  <2>2. u \notin capability /\ ps # NULL /\ capability \subseteq Users
    BY <1>1, <1>3 DEF LifecycleInv, LifecycleTypeOK, UserInv
  <2>3. ~\E i \in DOMAIN visited' : visited'[i] = IMAP
    BY <1>1
  <2>4. QED
    BY <1>1, <1>3, <2>1, <2>2, <2>3 DEF LifecycleInv, UserInv
<1>8. QED
  BY <1>4, <1>5, <1>6, <1>7 DEF LifecycleInv

(* One more hook has run: the place in the chain moves back to it.         *)
LEMMA HookInv ==
    ASSUME LifecycleInv, xaps_client_created
    PROVE  LifecycleInv'
<1> USE PluginAssumption
<1>1. /\ UNCHANGED <<loaded, hook, next_hook, commands, drivers, infos, users, creating>>
      /\ creating # NULL /\ at # NULL
      /\ at' = next_hook[at] /\ visited' = Append(visited, at)
      /\ capability' = IF at = IMAP /\ IMAP \in users[creating]
                       THEN capability \cup {creating} ELSE capability
  BY DEF xaps_client_created, tables, NextHook, Advertises
<1>2. /\ at \in Setters /\ visited \in Seq(Setters) /\ creating \in Users
      /\ loaded \in Seq(Plugins) /\ Len(loaded) \in Nat
  BY <1>1 DEF LifecycleInv, LifecycleTypeOK
<1>3. /\ visited' \in Seq(Setters) /\ Len(visited') = Len(visited) + 1
      /\ Len(visited) \in Nat /\ visited'[Len(visited')] = at
      /\ \A i \in 1..Len(visited) : visited'[i] = visited[i]
  BY <1>1, <1>2
<1>4. Loaded' = Loaded
  BY <1>1 DEF Loaded
<1>5. LifecycleTypeOK'
  BY <1>1, <1>2, <1>3 DEF LifecycleInv, LifecycleTypeOK
<1>6. ChainInv' /\ TableInv'
  BY <1>1, <1>4 DEF LifecycleInv, ChainInv, TableInv
<1>7. VisitInv'
  <2>1. PICK n \in 0..Len(loaded) : Passed(n)
    BY <1>1 DEF LifecycleInv, VisitInv
  <2>2. PICK m \in 1..n : /\ loaded[m] = at
                          /\ \A j \in (m + 1)..n : loaded[j] \notin Setters
    BY <1>1, <2>1 DEF Passed, LastSetter
  <2>3. LastSetter(loaded, next_hook[at], m - 1)
    BY <1>2, <2>2 DEF LifecycleInv, ChainInv
  <2>4. ASSUME NEW j \in m..Len(loaded), loaded[j] \in Setters
        PROVE  \E i \in DOMAIN visited' : visited'[i] = loaded[j]
    <3>1. CASE j = m
      BY <1>3, <2>2, <3>1
    <3>2. CASE j > n
      <4>1. PICK i \in DOMAIN visited : visited[i] = loaded[j]
        BY <2>1, <2>4, <3>2 DEF Passed
      <4>2. QED
        BY <1>2, <1>3, <4>1
    <3>3. QED
      BY <2>2, <2>4, <3>1, <3>2
  <2>5. ASSUME NEW i \in DOMAIN visited'
        PROVE  \E j \in m..Len(loaded) : loaded[j] = visited'[i]
    <3>1. CASE i = Len(visited')
      BY <1>3, <2>2, <3>1
    <3>2. CASE i # Len(visited')
      <4>1. i \in DOMAIN visited /\ visited'[i] = visited[i]
        BY <1>2, <1>3, <2>5, <3>2
      <4>2. PICK j \in (n + 1)..Len(loaded) : loaded[j] = visited[i]
        BY <2>1, <4>1 DEF Passed
      <4>3. j \in m..Len(loaded)
        BY <1>2, <2>2
      <4>4. QED
        BY <4>1, <4>2, <4>3
    <3>3. QED
      BY <3>1, <3>2
  <2>6. ASSUME NEW h \in DOMAIN visited', NEW i \in DOMAIN visited', h < i
        PROVE  \E j, k \in m..Len(loaded) : /\ j > k /\ loaded[j] = visited'[h]
                                            /\ loaded[k] = visited'[i]
    <3>1. h \in 1..Len(visited) /\ visited'[h] = visited[h]
      BY <1>3, <2>6
    <3>2. CASE i = Len(visited')
      <4>1. PICK j \in (n + 1)..Len(loaded) : loaded[j] = visited[h]
        BY <1>2, <2>1, <3>1 DEF Passed
      <4>2. QED
        BY <1>3, <2>2, <3>1, <3>2, <4>1
    <3>3. CASE i # Len(visited')
      <4>1. i \in 1..Len(visited) /\ visited'[i] = visited[i]
        BY <1>3, <2>6, <3>3
      <4>2. \A a, b \in DOMAIN visited : a < b =>
              \E j, k \in (n + 1)..Len(loaded) : /\ j > k /\ loaded[j] = visited[a]
                                                /\ loaded[k] = visited[b]
        BY <2>1 DEF Passed
      <4>3. h \in DOMAIN visited /\ i \in DOMAIN visited
        BY <1>2, <3>1, <4>1
      <4>4. PICK j, k \in (n + 1)..Len(loaded) : /\ j > k /\ loaded[j] = visited[h]
                                                /\ loaded[k] = visited[i]
        BY <2>6, <4>2, <4>3
      <4>5. j \in m..Len(loaded) /\ k \in m..Len(loaded)
        BY <2>2
      <4>6. QED
        BY <3>1, <4>1, <4>4, <4>5
    <3>4. QED
      BY <3>2, <3>3
  <2>7. Passed(m - 1)'
    <3>1. (m - 1) + 1 = m
      OBVIOUS
    <3>2. loaded' = loaded /\ at' = next_hook[at]
      BY <1>1
    <3>3. LastSetter(loaded, at, m - 1)'
      BY <2>3, <3>2 DEF LastSetter
    <3>4. (\A j \in ((m - 1) + 1)..Len(loaded) :
            loaded[j] \in Setters => \E i \in DOMAIN visited : visited[i] = loaded[j])'
      BY <2>4, <3>1, <3>2
    <3>5. (\A i \in DOMAIN visited : \E j \in ((m - 1) + 1)..Len(loaded) : loaded[j] = visited[i])'
      BY <2>5, <3>1, <3>2
    <3>6. (\A h, i \in DOMAIN visited : h < i =>
             \E j, k \in ((m - 1) + 1)..Len(loaded) : /\ j > k /\ loaded[j] = visited[h]
                                           /\ loaded[k] = visited[i])'
      BY <2>6, <3>1, <3>2
    <3>7. QED
      BY <3>3, <3>4, <3>5, <3>6, Zenon DEF Passed
  <2>8. QED
    BY <1>1, <2>7 DEF VisitInv
<1>8. UserInv'
  <2>1. (\E i \in DOMAIN visited' : visited'[i] = IMAP) =>
            at = IMAP \/ \E i \in DOMAIN visited : visited[i] = IMAP
    BY <1>2, <1>3
  <2>2. QED
    BY <1>1, <1>2, <1>4, <2>1 DEF LifecycleInv, UserInv
<1>9. QED
  BY <1>5, <1>6, <1>7, <1>8 DEF LifecycleInv

(* When the chain is at its end every loaded hook has run, IMAP's too.     *)
LEMMA ChainEnd ==
    ASSUME LifecycleInv, creating # NULL, at = NULL
    PROVE  /\ EveryHookRuns
           /\ IMAP \in Loaded => \E i \in DOMAIN visited : visited[i] = IMAP
<1>1. PICK n \in 0..Len(loaded) : Passed(n)
  BY DEF LifecycleInv, VisitInv
<1>2. Len(loaded) \in Nat /\ loaded \in Seq(Plugins)
  BY DEF LifecycleInv, LifecycleTypeOK
<1>3. \A j \in 1..n : loaded[j] \notin Setters
  BY <1>1, PluginAssumption DEF Passed, LastSetter, Plugins
<1>4. ASSUME NEW p \in Loaded \cap Setters
      PROVE  \E i \in DOMAIN visited : visited[i] = p
  <2>1. PICK j \in 1..Len(loaded) : loaded[j] = p
    BY <1>2 DEF Loaded
  <2>2. j \in (n + 1)..Len(loaded)
    BY <1>2, <1>3, <2>1
  <2>3. QED
    BY <1>1, <2>1, <2>2 DEF Passed
<1>5. ASSUME NEW i \in DOMAIN visited, NEW j \in DOMAIN visited, i < j
      PROVE  \E l, m \in DOMAIN loaded : /\ l > m /\ loaded[l] = visited[i]
                                         /\ loaded[m] = visited[j]
  <2>1. PICK l, m \in (n + 1)..Len(loaded) : /\ l > m /\ loaded[l] = visited[i]
                                            /\ loaded[m] = visited[j]
    BY <1>1, <1>5 DEF Passed
  <2>2. l \in DOMAIN loaded /\ m \in DOMAIN loaded
    BY <1>2
  <2>3. QED
    BY <2>1, <2>2
<1>6. QED
  BY <1>4, <1>5 DEF EveryHookRuns, Setters

LEMMA ClientInv ==
    ASSUME LifecycleInv, ClientCreated
    PROVE  LifecycleInv'
<1>1. /\ UNCHANGED <<loaded, hook, next_hook, commands, drivers, infos, users, capability, at, visited>>
      /\ creating # NULL /\ at = NULL /\ creating' = NULL
  BY DEF ClientCreated, tables
<1>2. users[creating] # NULL /\ users[creating] \subseteq Loaded
  BY <1>1 DEF LifecycleInv, LifecycleTypeOK, UserInv
<1>3. IMAP \in users[creating] => creating \in capability
  BY <1>1, <1>2, ChainEnd DEF LifecycleInv, UserInv
<1>4. Loaded' = Loaded
  BY <1>1 DEF Loaded
<1>5. LifecycleTypeOK' /\ ChainInv' /\ VisitInv' /\ TableInv'
  BY <1>1, <1>4 DEF LifecycleInv, LifecycleTypeOK, ChainInv, VisitInv, TableInv
<1>6. UserInv'
  BY <1>1, <1>3, <1>4 DEF LifecycleInv, UserInv
<1>7. QED
  BY <1>5, <1>6 DEF LifecycleInv

LEMMA LogOutInv ==
    ASSUME LifecycleInv, NEW u \in Users, LogOut(u)
    PROVE  LifecycleInv'
<1>1. /\ UNCHANGED <<loaded, hook, next_hook, commands, drivers, infos, creating, at, visited>>
      /\ creating = NULL /\ capability' = capability \ {u}
      /\ users' = [users EXCEPT ![u] = NULL]
  BY DEF LogOut, tables
<1>2. Loaded' = Loaded
  BY <1>1 DEF Loaded
<1>3. \A v \in Users : users'[v] = IF v = u THEN NULL ELSE users[v]
  BY <1>1 DEF LifecycleInv, LifecycleTypeOK
<1>4. LifecycleTypeOK'
  BY <1>1 DEF LifecycleInv, LifecycleTypeOK
<1>7. ChainInv' /\ VisitInv' /\ TableInv'
  BY <1>1, <1>2 DEF LifecycleInv, ChainInv, VisitInv, TableInv
<1>5. UserInv'
  BY <1>1, <1>2, <1>3 DEF LifecycleInv, LifecycleTypeOK, UserInv
<1>6. QED
  BY <1>4, <1>5, <1>7 DEF LifecycleInv

-----------------------------------------------------------------------------
(* LifecycleInv holds in every reachable state.                            *)
THEOREM LifecycleInductive == Spec => []LifecycleInv
<1>1. Init => LifecycleInv
  <2> SUFFICES ASSUME Init
               PROVE  LifecycleInv
    OBVIOUS
  <2>1. DOMAIN loaded = {} /\ Loaded = {} /\ Len(loaded) = 0
    BY DEF Init, Loaded
  <2>2. LifecycleTypeOK
    <3>1. << >> \in Seq(Plugins) /\ << >> \in Seq(Setters)
      OBVIOUS
    <3>2. /\ loaded = << >> /\ visited = << >> /\ commands = {} /\ drivers = {}
          /\ infos = {} /\ hook = NULL /\ at = NULL /\ creating = NULL /\ capability = {}
          /\ next_hook = [q \in Setters |-> NULL] /\ users = [u \in Users |-> NULL]
      BY DEF Init
    <3>3. /\ next_hook \in [Setters -> Setters \cup {NULL}]
          /\ users \in [Users -> {NULL} \cup SUBSET Plugins]
      BY <3>2
    <3>4. QED
      BY <3>1, <3>2, <3>3 DEF LifecycleTypeOK
  <2>3. ChainInv
    BY <2>1 DEF Init, ChainInv, LastSetter
  <2>4. QED
    BY <2>1, <2>2, <2>3 DEF Init, LifecycleInv, VisitInv, TableInv, UserInv
<1>2. LifecycleInv /\ [Next]_vars => LifecycleInv'
  <2> SUFFICES ASSUME LifecycleInv, [Next]_vars
               PROVE  LifecycleInv'
    OBVIOUS
  <2>1. ASSUME NEW p \in Plugins, Load(p) \/ Unload(p)
        PROVE  LifecycleInv'
    BY <2>1, LoadInv, UnloadInv
  <2>2. ASSUME NEW u \in Users, LogIn(u) \/ LogOut(u)
        PROVE  LifecycleInv'
    BY <2>2, LogInInv, LogOutInv
  <2>3. CASE xaps_client_created \/ ClientCreated
    BY <2>3, HookInv, ClientInv
  <2>4. CASE UNCHANGED vars
    <3>1. UNCHANGED <<loaded, hook, next_hook, commands, drivers, infos, users, capability,
                      creating, at, visited>>
      BY <2>4 DEF vars, tables, client
    <3>2. QED
      BY <3>1 DEF LifecycleInv, LifecycleTypeOK, ChainInv, VisitInv, Passed, TableInv,
                  UserInv, Loaded
  <2>5. QED
    BY <2>1, <2>2, <2>3, <2>4 DEF Next
<1>3. QED
  BY <1>1, <1>2, PTL DEF Spec

(* Nothing Dovecot may call is in a module that has been unloaded: the     *)
(* hooks, the command and the driver, not the data in the settings         *)
(* registry.                                                               *)
THEOREM NothingDangles == Spec => []CalledIsLoaded
<1>1. ASSUME LifecycleInv
      PROVE  CalledIsLoaded
  <2>1. /\ loaded \in Seq(Plugins) /\ Len(loaded) \in Nat
        /\ DOMAIN loaded = 1..Len(loaded)
    BY <1>1 DEF LifecycleInv, LifecycleTypeOK
  <2>2. ASSUME NEW h, NEW n \in 0..Len(loaded), LastSetter(loaded, h, n)
        PROVE  h \in Loaded \cup {NULL}
    BY <2>1, <2>2 DEF LastSetter, Loaded
  <2>3. hook \in Loaded \cup {NULL}
    BY <1>1, <2>1, <2>2 DEF LifecycleInv, ChainInv
  <2>4. ASSUME NEW p \in Loaded \cap Setters
        PROVE  next_hook[p] \in Loaded \cup {NULL}
    <3>1. PICK n \in 1..Len(loaded) : loaded[n] = p
      BY <2>1 DEF Loaded
    <3>2. LastSetter(loaded, next_hook[p], n - 1) /\ n - 1 \in 0..Len(loaded)
      BY <1>1, <2>1, <3>1 DEF LifecycleInv, ChainInv
    <3>3. QED
      BY <2>2, <3>2
  <2>5. at \in Loaded \cup {NULL}
    <3>1. CASE creating # NULL
      BY <1>1, <2>2, <3>1 DEF LifecycleInv, VisitInv, Passed
    <3>2. QED
      BY <1>1, <3>1 DEF LifecycleInv, TableInv
  <2>6. commands \subseteq Loaded /\ drivers \subseteq Loaded
    BY <1>1 DEF LifecycleInv, LifecycleTypeOK, TableInv
  <2>7. PUSH \in Loaded => NOTIFY \in Loaded
    BY <1>1, <2>1 DEF LifecycleInv, TableInv, Loaded
  <2>8. QED
    BY <2>3, <2>4, <2>5, <2>6, <2>7 DEF CalledIsLoaded
<1>2. QED
  BY <1>1, LifecycleInductive, PTL

(* Every new client passes the hook of every loaded plugin, once, in the   *)
(* reverse order of loading.                                               *)
THEOREM HooksRun == Spec => []EveryHookRuns
<1>1. LifecycleInv => EveryHookRuns
  BY ChainEnd DEF EveryHookRuns
<1>2. QED
  BY <1>1, LifecycleInductive, PTL

(* The capability is shown to exactly the users who have the plugin, and   *)
(* the command behind it is there.                                         *)
THEOREM AdvertisementHolds == Spec => []AdvertisedIsServed
<1>1. ASSUME LifecycleInv
      PROVE  AdvertisedIsServed
  <2>1. capability # {} => IMAP \in commands
    BY <1>1 DEF LifecycleInv, LifecycleTypeOK, UserInv, TableInv
  <2>2. QED
    BY <1>1, <2>1 DEF LifecycleInv, UserInv, AdvertisedIsServed
<1>2. QED
  BY <1>1, LifecycleInductive, PTL

=============================================================================
