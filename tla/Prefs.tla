-------------------------------- MODULE Prefs --------------------------------
(***************************************************************************)
(* The settings of the modules (Prefs/EGPrefs and EGPrefsStorage): one     *)
(* file per group of keys, a copy of all of them in RAM, and the handlers  *)
(* of the loop task that put, commit, import and reset them.  A power cut  *)
(* may come between any two steps on the file system.                      *)
(*                                                                         *)
(* A key is a row of its group.  Which values a key takes is data: a value *)
(* of a file that validate() refuses is Bad, and one it refuses to put     *)
(* changes nothing.  The file .new of writeGroup is read by the rename     *)
(* that follows and by nothing else, so staged only says that it is there. *)
(***************************************************************************)
EXTENDS Naturals, Sequences, SequencesExt

CONSTANTS
  Order,       \* the groups as begin() finds them
  Keys,        \* the keys of each group
  Values,      \* the values that the keys may take
  Default,
  Bad,         \* a value in a file that is refused
  Moved,       \* MOVED: [from, to], the old and the new group of keys
  NetGroups,   \* the groups that an import leaves alone
  PassRow,     \* the row that an import keeps
  RebootRows,  \* EGP_REBOOT
  Aliases,     \* the rows that a legacy file may hold
  Restarters,  \* the groups whose on_prefs_saved() may ask for a restart
  OldStores,   \* what an older firmware may have left, files and legacy file
  LegacyKept,  \* TRUE: an import may come while a legacy file is left
  BootFails,   \* TRUE: begin() may fail to write a group
  CommitFails  \* TRUE: commit() may fail to write a group

Groups == ToSet(Order)
Rows == UNION {{g} \X Keys[g] : g \in Groups}
Defaults == [r \in Rows |-> Default]
OldGroups == {Moved[i].from : i \in DOMAIN Moved}
Aliased == {g \in Groups : \E k \in Keys[g] : <<g, k>> \in Aliases}
NoJson == [r \in {} |-> Default]

ASSUME GroupAssumption ==
  /\ Order \in Seq(Groups) /\ IsInjective(Order)
  /\ \A g \in Groups : g \in DOMAIN Keys
  /\ Moved \in Seq([from : OldGroups, to : {Moved[i].to : i \in DOMAIN Moved}])
  /\ PassRow \in Rows /\ RebootRows \subseteq Rows /\ Aliases \subseteq Rows
ASSUME MovedAssumption ==
  /\ \A i, j \in DOMAIN Moved : Moved[i].to # Moved[j].from
  /\ \A i \in DOMAIN Moved :
       Moved[i].from \in Groups /\ Moved[i].to \in Groups =>
         /\ Keys[Moved[i].from] \cap Keys[Moved[i].to] = {}
         /\ Moved[i].from \in Aliased => Moved[i].to \notin Aliased
  /\ NetGroups \subseteq Groups /\ NetGroups \cap OldGroups = {}
ASSUME ValueAssumption == Default \in Values /\ Bad \notin Values
ASSUME StoreAssumption ==
  \A old \in OldStores :
    /\ DOMAIN old.disk \subseteq Groups \cup OldGroups
    /\ \A f \in DOMAIN old.disk : \A k \in DOMAIN old.disk[f] :
         old.disk[f][k] \in Values \cup {Bad}
    /\ DOMAIN old.json \subseteq Aliases
    /\ \A r \in DOMAIN old.json : old.json[r] \in Values \cup {Bad}

VARIABLES
  disk,             \* the files /prefs/<group>.bin
  json,             \* the legacy file; one without a row of ours is no file
  shadow,           \* GroupShadow.values
  dirty,            \* the groups whose GroupShadow.dirty is set
  restart_pending, reboot_put,
  mounted,          \* EGPrefsStorage._started
  pc,               \* where the loop task is
  at,               \* the group or the line of MOVED that its loop is at
  staged,           \* the file .new of that group is written
  imported,         \* import_legacy has something to drop
  keep,             \* reset_all's keep_network, until the import is done
  fire,             \* commit's fire_callbacks
  failed            \* history: a commit of this boot could not write a group

vars == <<disk, json, shadow, dirty, restart_pending, reboot_put, mounted,
          pc, at, staged, imported, keep, fire, failed>>
flags == <<restart_pending, reboot_put, failed>>
job == <<imported, keep, fire>>

----------------------------------------------------------------------------
(* Files *)

Has(f) == f \in DOMAIN disk

\* f has a value for k that load_record_cb takes
Readable(f, k) == Has(f) /\ k \in DOMAIN disk[f] /\ disk[f][k] # Bad

\* mutant: stored values are not checked
StoredUnchecked(r, base) ==
  IF Has(r[1]) /\ r[2] \in DOMAIN disk[r[1]] THEN disk[r[1]][r[2]] ELSE base

Stored(r, base) == IF Readable(r[1], r[2]) THEN disk[r[1]][r[2]] ELSE base

\* the lines of MOVED that a file of an old group serves
Sources(g) == {i \in DOMAIN Moved : Moved[i].to = g /\ Has(Moved[i].from)}

\* first listed wins
Taken(r, base) ==
  LET S == {i \in Sources(r[1]) : Readable(Moved[i].from, r[2])}
  IN  IF S = {} THEN base
      ELSE disk[Moved[Min(S)].from][r[2]]

InJson(g) == {r \in DOMAIN json : r[1] = g /\ json[r] # Bad}

Legacy(r, base) == IF r \in InJson(r[1]) THEN json[r] ELSE base

Without(f) == [x \in DOMAIN disk \ {f} |-> disk[x]]

\* the group that the loop of add_group, import_legacy, commit or reset_all is at
Here == Order[at]

----------------------------------------------------------------------------
(* write_group.  Full or worn flash, short memory or a group too large fail *)
(* it at either step; a rename replaces the file in one.                    *)

Stage == ~staged /\ staged' = TRUE

Renamed(g) ==
  /\ staged /\ staged' = FALSE
  /\ disk' = [x \in DOMAIN disk \cup {g} |->
                IF x = g THEN [k \in Keys[g] |-> shadow[<<g, k>>]] ELSE disk[x]]

NotWritten(mayFail) ==
  /\ ~mounted \/ mayFail
  /\ staged' = FALSE
  /\ UNCHANGED disk

----------------------------------------------------------------------------
(* EGPrefs::begin *)

Boot(ok) ==
  /\ pc = "off"
  /\ mounted' = ok
  /\ shadow' = [r \in Rows |-> IF ok THEN Stored(r, Default) ELSE Default]
  /\ pc' = (IF ok THEN "adopt" ELSE "idle") /\ at' = 1
  /\ UNCHANGED <<disk, json, dirty, flags, staged, job>>

\* adopt_moved: a group without a file takes what its old groups hold
AdoptRead ==
  /\ pc = "adopt" /\ at \in DOMAIN Moved
  /\ LET g == Moved[at].to
     IN  /\ g \in Groups /\ ~Has(g) /\ Sources(g) # {}
         /\ shadow' = [r \in Rows |->
                         IF r[1] = g THEN Taken(r, shadow[r]) ELSE shadow[r]]
  /\ pc' = "adopt_write"
  /\ UNCHANGED <<disk, json, dirty, flags, mounted, at, staged, job>>

AdoptNothing ==
  /\ pc = "adopt" /\ at \in DOMAIN Moved
  /\ LET g == Moved[at].to IN g \notin Groups \/ Has(g) \/ Sources(g) = {}
  /\ at' = at + 1
  /\ UNCHANGED <<disk, json, shadow, dirty, flags, mounted, pc, staged, job>>

AdoptStage ==
  /\ pc = "adopt_write" /\ Stage
  /\ UNCHANGED <<disk, json, shadow, dirty, flags, mounted, pc, at, job>>

AdoptWritten ==
  /\ pc = "adopt_write" /\ pc' = "adopt" /\ at' = at + 1
  /\ Renamed(Moved[at].to) \/ NotWritten(BootFails)
  /\ UNCHANGED <<json, shadow, dirty, flags, mounted, job>>

AdoptEnd ==
  /\ pc = "adopt" /\ at \notin DOMAIN Moved
  /\ pc' = "legacy"
  /\ UNCHANGED <<disk, json, shadow, dirty, flags, mounted, at, staged, job>>

\* import_legacy, when no group is missing its file: drop_stale_legacy
LegacyStale ==
  /\ pc = "legacy" /\ \A g \in Aliased : Has(g)
  /\ json' = NoJson
  /\ pc' = "idle"
  /\ UNCHANGED <<disk, shadow, dirty, flags, mounted, at, staged, job>>

LegacyMissing ==
  /\ pc = "legacy" /\ \E g \in Aliased : ~Has(g)
  /\ imported' = FALSE
  /\ pc' = "import" /\ at' = 1
  /\ UNCHANGED <<disk, json, shadow, dirty, flags, mounted, staged, keep, fire>>

ImportRead ==
  /\ pc = "import" /\ at \in DOMAIN Order
  /\ ~Has(Here) /\ InJson(Here) # {}
  /\ shadow' = [r \in Rows |->
                  IF r[1] = Here THEN Legacy(r, shadow[r]) ELSE shadow[r]]
  /\ pc' = "import_write"
  /\ UNCHANGED <<disk, json, dirty, flags, mounted, at, staged, job>>

ImportNothing ==
  /\ pc = "import" /\ at \in DOMAIN Order
  /\ Has(Here) \/ InJson(Here) = {}
  /\ at' = at + 1
  /\ UNCHANGED <<disk, json, shadow, dirty, flags, mounted, pc, staged, job>>

ImportStage ==
  /\ pc = "import_write" /\ Stage
  /\ UNCHANGED <<disk, json, shadow, dirty, flags, mounted, pc, at, job>>

ImportWritten ==
  /\ pc = "import_write" /\ pc' = "import" /\ at' = at + 1
  /\ \/ Renamed(Here) /\ imported' = TRUE
     \/ NotWritten(BootFails) /\ UNCHANGED imported
  /\ UNCHANGED <<json, shadow, dirty, flags, mounted, keep, fire>>

\* a file that served one group is dropped, then on_prefs_loaded
ImportEnd ==
  /\ pc = "import" /\ at \notin DOMAIN Order
  /\ json' = IF imported THEN NoJson ELSE json
  /\ pc' = "idle" /\ imported' = FALSE
  /\ UNCHANGED <<disk, shadow, dirty, flags, mounted, at, staged, keep, fire>>

----------------------------------------------------------------------------
(* The handlers: a form, an import or a command puts, then commits *)

\* the row a put goes to: of that group, or of the one its keys moved to
Target(m, k) ==
  IF <<m, k>> \in Rows THEN {<<m, k>>}
  ELSE LET S == {i \in DOMAIN Moved : Moved[i].from = m}
       IN  {<<Moved[i].to, k>> : i \in {j \in S : \A l \in S : j <= l}} \cap Rows

\* is_skip_pref
Skipped(m, r) == m \in NetGroups \/ r = PassRow

Put(m, k, v) ==
  /\ pc \in {"idle", "form"} /\ pc' = "form"
  /\ \E r \in Target(m, k) :
       /\ ~(keep /\ Skipped(m, r))
       /\ shadow' = [shadow EXCEPT ![r] = v]
       /\ IF v = shadow[r] THEN UNCHANGED <<dirty, reboot_put>>
          ELSE /\ dirty' = dirty \cup {r[1]}
               /\ reboot_put' = (reboot_put \/ r \in RebootRows)
  /\ UNCHANGED <<disk, json, restart_pending, failed, mounted, at, staged, job>>

Commit(callbacks) ==
  /\ pc = "form"
  /\ restart_pending' = reboot_put /\ reboot_put' = FALSE
  /\ fire' = callbacks
  /\ pc' = "commit" /\ at' = 1
  /\ UNCHANGED <<disk, json, shadow, dirty, failed, mounted, staged, imported, keep>>

CommitClean ==
  /\ pc = "commit" /\ at \in DOMAIN Order /\ Here \notin dirty
  /\ at' = at + 1
  /\ UNCHANGED <<disk, json, shadow, dirty, flags, mounted, pc, staged, job>>

CommitStage ==
  /\ pc = "commit" /\ at \in DOMAIN Order /\ Here \in dirty
  /\ mounted /\ Stage
  /\ UNCHANGED <<disk, json, shadow, dirty, flags, mounted, pc, at, job>>

\* on_prefs_saved may call request_restart
CommitWritten ==
  /\ pc = "commit" /\ at \in DOMAIN Order /\ Here \in dirty
  /\ Renamed(Here)
  /\ dirty' = dirty \ {Here}
  /\ \/ UNCHANGED restart_pending
     \/ fire /\ Here \in Restarters /\ restart_pending' = TRUE
  /\ at' = at + 1
  /\ UNCHANGED <<json, shadow, reboot_put, failed, mounted, pc, job>>

\* mutant: a group is clean after a write that failed
CommitNotWrittenClean ==
  /\ pc = "commit" /\ at \in DOMAIN Order /\ Here \in dirty
  /\ NotWritten(CommitFails)
  /\ dirty' = dirty \ {Here} /\ failed' = TRUE
  /\ at' = at + 1
  /\ UNCHANGED <<json, shadow, restart_pending, reboot_put, mounted, pc, job>>

CommitNotWritten ==
  /\ pc = "commit" /\ at \in DOMAIN Order /\ Here \in dirty
  /\ NotWritten(CommitFails)
  /\ at' = at + 1 /\ failed' = TRUE
  /\ UNCHANGED <<json, shadow, dirty, restart_pending, reboot_put, mounted, pc, job>>

CommitEnd ==
  /\ pc = "commit" /\ at \notin DOMAIN Order
  /\ pc' = "idle" /\ keep' = FALSE /\ fire' = FALSE
  /\ UNCHANGED <<disk, json, shadow, dirty, flags, mounted, at, staged, imported>>

----------------------------------------------------------------------------
(* reset_all, for an import (keep_network) and for a factory reset *)

ResetAll(keep_network) ==
  /\ pc = "idle"
  /\ keep_network => LegacyKept \/ json = NoJson
  /\ keep' = keep_network
  /\ pc' = "reset" /\ at' = 1
  /\ UNCHANGED <<disk, json, shadow, dirty, flags, mounted, staged, imported, fire>>

ResetGroup ==
  /\ pc = "reset" /\ at \in DOMAIN Order
  /\ at' = at + 1
  /\ IF keep /\ Here \in NetGroups
     THEN UNCHANGED <<disk, shadow, dirty>>
     ELSE /\ disk' = IF mounted THEN Without(Here) ELSE disk
          /\ shadow' = [r \in Rows |->
                          IF r[1] = Here /\ ~(keep /\ r = PassRow)
                            THEN Default ELSE shadow[r]]
          /\ dirty' = IF keep /\ Here = PassRow[1]
                        THEN dirty \cup {Here} ELSE dirty \ {Here}
  /\ UNCHANGED <<json, flags, mounted, pc, staged, job>>

ResetGroups ==
  /\ pc = "reset" /\ at \notin DOMAIN Order
  /\ pc' = "drop" /\ at' = 1
  /\ UNCHANGED <<disk, json, shadow, dirty, flags, mounted, staged, job>>

\* mutant: the old groups are kept
DropMovedNot ==
  /\ pc = "drop" /\ at \in DOMAIN Moved
  /\ at' = at + 1
  /\ UNCHANGED <<disk, json, shadow, dirty, flags, mounted, pc, staged, job>>

DropMoved ==
  /\ pc = "drop" /\ at \in DOMAIN Moved
  /\ at' = at + 1
  /\ disk' = IF mounted THEN Without(Moved[at].from) ELSE disk
  /\ UNCHANGED <<json, shadow, dirty, flags, mounted, pc, staged, job>>

\* an import goes on with its puts
Dropped ==
  /\ pc = "drop" /\ at \notin DOMAIN Moved
  /\ pc' = IF keep THEN "form" ELSE "unlegacy"
  /\ UNCHANGED <<disk, json, shadow, dirty, flags, mounted, at, staged, job>>

\* factoryReset removes the legacy file last
RemoveLegacy ==
  /\ pc = "unlegacy" /\ pc' = "idle"
  /\ json' = IF mounted THEN NoJson ELSE json
  /\ UNCHANGED <<disk, shadow, dirty, flags, mounted, at, staged, job>>

\* a power cut, a crash or a restart
PowerCut ==
  /\ pc # "off" /\ pc' = "off"
  /\ shadow' = Defaults /\ dirty' = {} /\ at' = 1
  /\ restart_pending' = FALSE /\ reboot_put' = FALSE /\ mounted' = FALSE
  /\ staged' = FALSE /\ imported' = FALSE /\ keep' = FALSE /\ fire' = FALSE
  /\ failed' = FALSE
  /\ UNCHANGED <<disk, json>>

Init ==
  /\ \E old \in OldStores : disk = old.disk /\ json = old.json
  /\ shadow = Defaults /\ dirty = {} /\ at = 1
  /\ restart_pending = FALSE /\ reboot_put = FALSE /\ mounted = FALSE
  /\ pc = "off"
  /\ staged = FALSE /\ imported = FALSE /\ keep = FALSE /\ fire = FALSE
  /\ failed = FALSE

Next ==
  \/ \E ok \in BOOLEAN : Boot(ok)
  \/ AdoptRead \/ AdoptNothing \/ AdoptStage \/ AdoptWritten \/ AdoptEnd
  \/ LegacyStale \/ LegacyMissing
  \/ ImportRead \/ ImportNothing \/ ImportStage \/ ImportWritten \/ ImportEnd
  \/ \E m \in Groups \cup OldGroups, k \in UNION {Keys[g] : g \in Groups}, v \in Values :
       Put(m, k, v)
  \/ \E callbacks \in BOOLEAN : Commit(callbacks)
  \/ CommitClean \/ CommitStage \/ CommitWritten \/ CommitNotWritten \/ CommitEnd
  \/ \E keep_network \in BOOLEAN : ResetAll(keep_network)
  \/ ResetGroup \/ ResetGroups \/ DropMoved \/ Dropped \/ RemoveLegacy
  \/ PowerCut

Spec == Init /\ [][Next]_vars

----------------------------------------------------------------------------
(* Properties *)

\* The files, the settings in RAM and what the loop task is doing are well
\* formed (EGPrefs.cpp).
TypeOK ==
  /\ DOMAIN disk \subseteq Groups \cup OldGroups
  /\ \A f \in DOMAIN disk : \A k \in DOMAIN disk[f] : disk[f][k] \in Values \cup {Bad}
  /\ DOMAIN json \subseteq Aliases
  /\ \A r \in DOMAIN json : json[r] \in Values \cup {Bad}
  /\ shadow \in [Rows -> Values] /\ dirty \subseteq Groups
  /\ restart_pending \in BOOLEAN /\ reboot_put \in BOOLEAN /\ mounted \in BOOLEAN
  /\ pc \in {"off", "adopt", "adopt_write", "legacy", "import", "import_write",
             "idle", "form", "commit", "reset", "drop", "unlegacy"}
  /\ at \in 1..(Len(Order) + Len(Moved) + 1)
  /\ staged \in BOOLEAN /\ imported \in BOOLEAN /\ keep \in BOOLEAN /\ fire \in BOOLEAN
  /\ failed \in BOOLEAN

\* what the next boot finds
Saved == [r \in Rows |->
            IF Has(r[1]) THEN Stored(r, Default)
            ELSE IF Sources(r[1]) # {} THEN Taken(r, Default)
            ELSE Legacy(r, Default)]

Phase == CASE pc \in {"idle", "form", "commit"} -> "on"
           [] pc \in {"reset", "drop", "unlegacy"} -> "wipe"
           [] OTHER -> "off"

Store == INSTANCE Settings WITH
  saved <- Saved, phase <- Phase,
  ram <- IF Phase = "off" THEN Defaults ELSE shadow,
  usable <- Phase = "off" \/ mounted,
  spared <- IF Phase = "wipe" /\ keep THEN NetGroups ELSE {}

\* Wherever the power is cut, and whatever write fails, the settings that
\* the next boot finds are the ones that Settings allows: a group is saved as
\* a whole or not at all, a boot and its moves of keys lose nothing, and a
\* reset that ended is not undone (writeGroup, adopt_moved, drop_moved).
KeepsSettings == Store!Spec

\* While no handler is at work, a group that commit() would skip is what the
\* next boot finds: no change in RAM is left unsaved unnoticed (gs.dirty).
CleanIsSaved ==
  pc = "idle" /\ mounted =>
    \A r \in Rows : r[1] \notin dirty => shadow[r] = Saved[r]

\* The store is well formed, and a group that no commit would write is on file as it is in RAM.
StoreIsSound == TypeOK /\ CleanIsSaved

\* An import changes the settings that it puts and no other (docs:
\* "settings not in the export are left alone").
ImportLeavesTheRest ==
  [][keep /\ pc' # "off" /\ shadow' # shadow => pc = "form"]_vars
=============================================================================
