------------------------------ MODULE MCPrefs ------------------------------
(* For TLC: a group whose keys moved, out of one that still lives and out  *)
(* of one that does not, the group of the password and one of the network. *)
(* Beside the first the last one may come out of a legacy file, for any    *)
(* other group that does.                                                  *)
EXTENDS Prefs, TLC

MCOrder == <<"sys", "counter", "net">>
MCKeys == [sys |-> {"web_pass"}, counter |-> {"ratio"}, net |-> {"ip"}]
MCMoved == <<[from |-> "input", to |-> "counter"], [from |-> "sys", to |-> "counter"]>>
MCPassRow == <<"sys", "web_pass">>
MCRebootRows == {<<"counter", "ratio">>}
MCAliases == {<<"counter", "ratio">>, <<"net", "ip">>}

NoFile == [k \in {} |-> Default]
Partial(D, R) == UNION {[S -> R] : S \in SUBSET D}

\* what the file of a group may hold; one of sys may be from before its ratio
\* moved
MCHeld == [
  sys     |-> {NoFile, [web_pass |-> "a"]}
                \cup {[web_pass |-> "a", ratio |-> v] : v \in {"a", Bad}},
  input   |-> {NoFile} \cup [{"ratio"} -> {"d", "a", Bad}],
  counter |-> {NoFile} \cup [{"ratio"} -> {"a", Bad}],
  net     |-> {NoFile, [ip |-> "a"]}]

MCFiles == {
  [f \in {x \in DOMAIN q : q[x] # NoFile} |-> q[f]] :
    q \in [sys : MCHeld.sys, input : MCHeld.input, counter : MCHeld.counter, net : MCHeld.net]}

\* the files of the firmware before this one, or the one file of the first
MCStores ==
  {[disk |-> d, json |-> NoJson] : d \in MCFiles}
  \cup {[disk |-> [f \in {} |-> NoFile], json |-> j] :
          j \in Partial(MCAliases, Values \cup {Bad})}
=============================================================================
