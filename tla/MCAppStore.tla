----------------------------- MODULE MCAppStore -----------------------------
(* Instances of AppStore for TLC. *)
EXTENDS AppStore

Package(n, v, payload, sha, sig) ==
    [name |-> n, version |-> v, len |-> Len(payload), payload |-> payload, sha |-> sha, sig |-> sig]

Vendor(n, v, payload) == Package(n, v, payload, payload, SigningMessage(n, v, Len(payload), payload))

(* apppack --corrupt: a piece of the payload is flipped. *)
Corrupt == Package("a", 4, <<"a4", "flip">>, <<"a4", "tail">>,
                   SigningMessage("a", 4, 2, <<"a4", "tail">>))

(* Signed with another key. *)
Foreign == Package("a", 4, <<"other">>, <<"other">>, Forged)

(* Three versions: the third replaces the first in its slot. *)
OneApp == {Vendor("a", 1, <<"a1", "tail">>), Vendor("a", 2, <<"a2">>), Vendor("a", 3, <<"a3">>)}

OneAppAndBad == OneApp \cup {Corrupt, Foreign}

TwoApps == {Vendor("a", v, <<"a">>) : v \in 1..3} \cup {Vendor("b", 1, <<"b">>)}
=============================================================================
