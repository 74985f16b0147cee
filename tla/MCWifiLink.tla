----------------------------- MODULE MCWifiLink -----------------------------
(* For TLC: two networks, credentials of none, DHCP on both networks and a   *)
(* static address that one of them carries, and a user who changes both at   *)
(* once; MCBoot has the others.                                              *)
EXTENDS WifiLink

CONSTANTS home, away, wrong, dhcp, fixed, bad

\* fixed is an address of home; DHCP always gives a good one
MCReaches == ({home, away} \X {dhcp}) \cup {<<home, fixed>>}

Form(c, a) == [blank |-> c = None, cred |-> c, address |-> a]
MCBoth == {[offline_ok |-> FALSE, forms |-> {Form(away, dhcp), Form(wrong, bad)},
            portal |-> {}, improv |-> {}]}
=============================================================================
