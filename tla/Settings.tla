------------------------------ MODULE Settings ------------------------------
(***************************************************************************)
(* What the preferences promise (Prefs/EGPrefs.h): what is saved changes   *)
(* by the save of a whole group or by a wipe, and by nothing else.  A      *)
(* power cut, a boot and the moves of keys between firmware versions keep  *)
(* it, and a device that is up works on what is saved until told else.     *)
(***************************************************************************)
CONSTANTS
  Groups,
  Keys,      \* the keys of each group
  Values,
  Default

Rows == UNION {{g} \X Keys[g] : g \in Groups}
Defaults == [r \in Rows |-> Default]

VARIABLES
  saved,     \* what the next boot finds
  ram,       \* what the device works on
  phase,     \* "off", "on" or "wipe"
  usable,    \* the file system is mounted
  spared     \* the groups that a wipe leaves alone

vars == <<saved, ram, phase, usable, spared>>

Init ==
  /\ saved \in [Rows -> Values] /\ ram = Defaults
  /\ phase = "off" /\ usable = TRUE /\ spared = {}

\* without its file system the device runs on defaults
Boot(ok) ==
  /\ phase = "off" /\ phase' = "on"
  /\ usable' = ok
  /\ ram' = IF ok THEN saved ELSE Defaults
  /\ UNCHANGED <<saved, spared>>

Put(r, v) ==
  /\ phase = "on"
  /\ ram' = [ram EXCEPT ![r] = v]
  /\ UNCHANGED <<saved, phase, usable, spared>>

Save(g) ==
  /\ phase = "on" /\ usable
  /\ saved' = [r \in Rows |-> IF r[1] = g THEN ram[r] ELSE saved[r]]
  /\ UNCHANGED <<ram, phase, usable, spared>>

Wipe(kept) ==
  /\ phase = "on" /\ phase' = "wipe"
  /\ spared' = kept
  /\ UNCHANGED <<saved, ram, usable>>

\* while it lasts, a wipe may leave anything of the groups it erases
Erase ==
  /\ phase = "wipe"
  /\ saved' \in [Rows -> Values] /\ ram' \in [Rows -> Values]
  /\ usable \/ saved' = saved
  /\ \A r \in Rows : r[1] \in spared => saved'[r] = saved[r] /\ ram'[r] = ram[r]
  /\ UNCHANGED <<phase, usable, spared>>

Wiped ==
  /\ phase = "wipe" /\ phase' = "on"
  /\ saved' \in [Rows -> Values]
  /\ \A r \in Rows :
       saved'[r] = IF usable /\ r[1] \notin spared THEN Default ELSE saved[r]
  /\ spared' = {}
  /\ UNCHANGED <<ram, usable>>

PowerCut ==
  /\ phase # "off" /\ phase' = "off"
  /\ ram' = Defaults /\ usable' = TRUE /\ spared' = {}
  /\ UNCHANGED saved

Next ==
  \/ \E ok \in BOOLEAN : Boot(ok)
  \/ \E r \in Rows, v \in Values : Put(r, v)
  \/ \E g \in Groups : Save(g)
  \/ \E kept \in SUBSET Groups : Wipe(kept)
  \/ Erase \/ Wiped \/ PowerCut

Spec == Init /\ [][Next]_vars
=============================================================================
