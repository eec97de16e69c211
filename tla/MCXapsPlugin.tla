---------------------------- MODULE MCXapsPlugin ----------------------------
(* Values of the constants of XapsPlugin for TLC. *)
EXTENDS XapsPlugin

CONSTANTS u1, u2, urlA, urlB, urlBad, hostA, hostB, k, t1, t2, n1, n2, nk

(* u2's userdb has the field k; u1's has not. *)
McLogin == [u \in Users |-> IF u = u1 THEN n1 ELSE n2]
McUserdb == [u \in Users |-> [x \in Lookups |-> IF u = u1 THEN NULL ELSE nk]]
McParse == [url \in Urls |-> CASE url = urlA -> hostA
                               [] url = urlB -> hostB
                               [] OTHER -> NULL]

Set(url, lookup) == [readable |-> TRUE, url |-> url, lookup |-> lookup]

(* Dovecot 2.4: two endpoints, with and without a lookup key, an unusable  *)
(* URL, and settings that cannot be read.                                  *)
Settings24 == {Set(urlA, EMPTY), Set(urlB, k), Set(urlBad, EMPTY),
               [readable |-> FALSE, url |-> urlA, lookup |-> k]}

(* The same without the unusable URL, and with the key under either URL. *)
SettingsUsable == {Set(urlA, EMPTY), Set(urlA, k), Set(urlB, k),
                   [readable |-> FALSE, url |-> urlA, lookup |-> k]}

(* Dovecot 2.3: two endpoints, with and without a lookup key, and a URL    *)
(* that is absent; the key absent for some users, whose unusable URL comes *)
(* before the absent key and whose usable one does not.                    *)
Settings23Mixed == {Set(urlA, NULL), Set(urlBad, NULL), Set(urlB, k),
                    Set(urlA, EMPTY), Set(NULL, EMPTY)}

(* Dovecot 2.3 as packaged: xaps_user_lookup is commented out. *)
Settings23Packaged == {Set(urlA, NULL)}

(* Two usable endpoints, and no lookup key. *)
SettingsTwo == {Set(urlA, EMPTY), Set(urlB, EMPTY)}

(* One endpoint, one unusable URL, and no lookup key. *)
SettingsFew == {Set(urlA, EMPTY), Set(urlBad, EMPTY)}

=============================================================================
