----------------------------- MODULE PrefsProofs -----------------------------
(***************************************************************************)
(* What is proved of the preferences, for any groups, keys, values, moved  *)
(* keys and files of an older firmware, wherever the power is cut and      *)
(* whichever commit fails to write a group: nothing in RAM is left unsaved *)
(* unnoticed, and the store keeps what Settings promises.  It takes two    *)
(* things for granted, as the runs do: that a boot writes what it moves    *)
(* (BootFails) and that no import comes while a legacy file is left        *)
(* (LegacyKept); prefs_import shows what becomes of the promise without.   *)
(***************************************************************************)
EXTENDS Prefs, WellFoundedInduction, TLAPS

----------------------------------------------------------------------------
(* The inductive invariant                                                 *)

Booting == pc \in {"adopt", "adopt_write", "legacy", "import", "import_write"}
Serving == pc \in {"idle", "form", "commit"}
Wiping == pc \in {"reset", "drop", "unlegacy"}

(* Where the loops of the loop task are; a write that is begun is one of a *)
(* group that has nothing yet but from an older firmware.                  *)
PlaceInv ==
  /\ pc \in {"adopt", "drop"} => at \in 1 .. Len(Moved) + 1
  /\ pc \in {"import", "commit", "reset"} => at \in 1 .. Len(Order) + 1
  /\ pc = "adopt_write" => /\ at \in DOMAIN Moved /\ Moved[at].to \in Groups
                           /\ ~Has(Moved[at].to) /\ Sources(Moved[at].to) # {}
  /\ pc = "import_write" => at \in DOMAIN Order /\ ~Has(Here) /\ InJson(Here) # {}
  /\ pc = "unlegacy" => ~keep
  /\ staged => mounted /\ pc # "off"

(* What the file of a group says of a row, and no file the default; during *)
(* a boot RAM is that, but for the group that is written next.             *)
OnFile(r) == IF Has(r[1]) THEN Stored(r, Default) ELSE Default

Fresh(r) ==
  IF pc = "adopt_write" /\ r[1] = Moved[at].to THEN Taken(r, Default)
  ELSE IF pc = "import_write" /\ r[1] = Here THEN Legacy(r, Default)
  ELSE OnFile(r)

(* No old file has a value for a group, and neither has the legacy file.   *)
Untaken(g) ==
  \A i \in DOMAIN Moved : Moved[i].to = g => \A k \in Keys[g] : ~Readable(Moved[i].from, k)

Quiet(g) == Has(g) \/ (Untaken(g) /\ InJson(g) = {})

BootInv ==
  /\ Booting => mounted /\ \A r \in Rows : shadow[r] = Fresh(r)
  /\ pc \in {"adopt", "adopt_write"} =>
       \A i \in 1 .. at - 1 :
         Moved[i].to \in Groups => Has(Moved[i].to) \/ Sources(Moved[i].to) = {}
  /\ pc \in {"legacy", "import", "import_write"} =>
       \A g \in Groups : ~Has(g) => Untaken(g) /\ (InJson(g) # {} => Sources(g) = {})
  /\ pc \in {"import", "import_write"} =>
       \A j \in 1 .. at - 1 : Has(Order[j]) \/ InJson(Order[j]) = {}

(* While the device is up, every group is settled: it has a file or        *)
(* nothing older to come from, and RAM is on file or the group is dirty.   *)
Settled(g) ==
  /\ Quiet(g)
  /\ g \notin dirty => \A k \in Keys[g] : shadow[<<g, k>>] = OnFile(<<g, k>>)

ServeInv == Serving /\ mounted => \A g \in Groups : Settled(g)

(* A reset leaves the groups of an import's network alone, and of the      *)
(* others no file.                                                         *)
Spared(g) == keep /\ g \in NetGroups

Erased(g) ==
  /\ mounted => ~Has(g)
  /\ g \notin dirty => \A k \in Keys[g] : shadow[<<g, k>>] = Default

WipeInv ==
  /\ Wiping /\ mounted => \A g \in Groups : Spared(g) => Settled(g)
  /\ pc = "reset" => \A j \in 1 .. at - 1 : Spared(Order[j]) \/ Erased(Order[j])
  /\ pc \in {"drop", "unlegacy"} => \A g \in Groups : Spared(g) \/ Erased(g)
  /\ pc = "drop" /\ mounted => \A i \in 1 .. at - 1 : ~Has(Moved[i].from)
  /\ pc = "unlegacy" /\ mounted => \A i \in DOMAIN Moved : ~Has(Moved[i].from)
  /\ pc \in {"reset", "drop"} /\ keep => json = NoJson

PrefsInv == TypeOK /\ PlaceInv /\ BootInv /\ ServeInv /\ WipeInv

(* The steps of a boot up to the legacy file and through it, of the        *)
(* handlers and of a reset.                                                *)
AdoptNext ==
  \/ \E ok \in BOOLEAN : Boot(ok)
  \/ AdoptRead \/ AdoptNothing \/ AdoptStage \/ AdoptWritten \/ AdoptEnd

ImportNext ==
  \/ LegacyStale \/ LegacyMissing
  \/ ImportRead \/ ImportNothing \/ ImportStage \/ ImportWritten \/ ImportEnd

ServeNext ==
  \/ \E m \in Groups \cup OldGroups, k \in UNION {Keys[g] : g \in Groups}, v \in Values :
       Put(m, k, v)
  \/ \E callbacks \in BOOLEAN : Commit(callbacks)
  \/ CommitClean \/ CommitStage \/ CommitWritten \/ CommitNotWritten \/ CommitEnd
  \/ \E keep_network \in BOOLEAN : ResetAll(keep_network)

WipeNext == ResetGroup \/ ResetGroups \/ DropMoved \/ Dropped \/ RemoveLegacy

LEMMA NextIs == Next <=> AdoptNext \/ ImportNext \/ ServeNext \/ WipeNext \/ PowerCut
BY DEF Next, AdoptNext, ImportNext, ServeNext, WipeNext

----------------------------------------------------------------------------
(* Rows, files and what is taken from them                                 *)

\* A row is a key of a group.
LEMMA RowFacts ==
  /\ \A r \in Rows : r[1] \in Groups /\ r[2] \in Keys[r[1]] /\ r = <<r[1], r[2]>>
  /\ \A g \in Groups : \A k \in Keys[g] : <<g, k>> \in Rows
BY DEF Rows

\* A group is one that begin() finds, and every line of MOVED names two.
LEMMA GroupFacts ==
  /\ \A j \in DOMAIN Order : Order[j] \in Groups
  /\ \A g \in Groups : \E j \in DOMAIN Order : Order[j] = g
  /\ DOMAIN Order = 1 .. Len(Order) /\ Len(Order) \in Nat
  /\ DOMAIN Moved = 1 .. Len(Moved) /\ Len(Moved) \in Nat
  /\ \A i \in DOMAIN Moved : Moved[i].from \in OldGroups
<1>1. \A g \in Groups : \E j \in DOMAIN Order : Order[j] = g
  BY DEF Groups, ToSet
<1>2. \A j \in DOMAIN Order : Order[j] \in Groups
  BY DEF Groups, ToSet
<1>3. Order \in Seq(Groups)
  BY GroupAssumption, Zenon
<1>4. DOMAIN Order = 1 .. Len(Order) /\ Len(Order) \in Nat
  BY <1>3
<1> DEFINE R == [from : OldGroups, to : {Moved[i].to : i \in DOMAIN Moved}]
<1>5. Moved \in Seq(R)
  BY GroupAssumption, Zenon
<1> HIDE DEF R
<1>6. DOMAIN Moved = 1 .. Len(Moved) /\ Len(Moved) \in Nat
  BY <1>5
<1>7. \A i \in DOMAIN Moved : Moved[i].from \in OldGroups
  BY DEF OldGroups
<1> QED BY <1>1, <1>2, <1>4, <1>6, <1>7

\* The lines of MOVED that a row may come from; the first of them serves it.
Takers(r) == {i \in Sources(r[1]) : Readable(Moved[i].from, r[2])}

LEMMA TakenIs ==
  ASSUME NEW r, NEW base
  PROVE  Taken(r, base) = IF Takers(r) = {} THEN base
                          ELSE disk[Moved[Min(Takers(r))].from][r[2]]
BY DEF Taken, Takers

\* A set of lines that is not empty has a first one.
LEMMA FirstLine ==
  ASSUME NEW S \in SUBSET Nat, S # {}
  PROVE  Min(S) \in S
<1> DEFINE R == OpToRel(<, Nat)
<1>1. \A x, y \in Nat : y < x => <<y, x>> \in R
  BY Zenon DEF OpToRel
<1>2. IsWellFoundedOn(R, Nat)
  BY NatLessThanWellFounded, Zenon
<1> HIDE DEF R
<1>3. PICK x \in S : \A y \in S : ~(<<y, x>> \in R)
  BY <1>2, WFMin
<1>4. \A y \in S : x <= y
  <2> SUFFICES ASSUME NEW y \in S PROVE x <= y
    OBVIOUS
  <2>1. x \in Nat /\ y \in Nat /\ ~(y < x)
    BY <1>1, <1>3
  <2> QED BY <2>1
<1> QED BY <1>3, <1>4, Zenon DEF Min

\* What may be read is a value that validate() takes.
LEMMA ValueTypes ==
  ASSUME TypeOK, NEW r \in Rows
  PROVE  /\ Stored(r, Default) \in Values /\ Taken(r, Default) \in Values
         /\ Legacy(r, Default) \in Values /\ OnFile(r) \in Values
<1>1. Default \in Values
  BY ValueAssumption
<1>2. ASSUME NEW f, NEW k, Readable(f, k) PROVE disk[f][k] \in Values
  BY <1>2 DEF Readable, Has, TypeOK
<1>3. Stored(r, Default) \in Values
  BY <1>1, <1>2 DEF Stored
<1>4. Taken(r, Default) \in Values
  <2>1. CASE Takers(r) = {}
    BY <1>1, <2>1, TakenIs
  <2>2. CASE Takers(r) # {}
    <3>1. Takers(r) \in SUBSET Nat
      BY GroupFacts DEF Takers, Sources
    <3>2. Min(Takers(r)) \in Takers(r)
      BY <2>2, <3>1, FirstLine
    <3>3. Readable(Moved[Min(Takers(r))].from, r[2])
      BY <3>2 DEF Takers
    <3> QED BY <1>2, <2>2, <3>3, TakenIs
  <2> QED BY <2>1, <2>2
<1>5. Legacy(r, Default) \in Values
  BY <1>1 DEF Legacy, InJson, TypeOK
<1> QED BY <1>1, <1>3, <1>4, <1>5 DEF OnFile

\* A group that a legacy file knows has aliases.
LEMMA JsonAliased == ASSUME TypeOK, NEW g, InJson(g) # {} PROVE g \in Aliased
<1>1. PICK r \in DOMAIN json : r[1] = g
  BY DEF InJson
<1>2. r \in Aliases /\ r \in Rows
  BY GroupAssumption DEF TypeOK
<1>3. r = <<g, r[2]>> /\ g \in Groups /\ r[2] \in Keys[g]
  BY <1>1, <1>2, RowFacts
<1> QED BY <1>2, <1>3 DEF Aliased

\* What the next boot finds of a row.
LEMMA SavedIs ==
  ASSUME NEW r \in Rows
  PROVE  Saved[r] = IF Has(r[1]) THEN Stored(r, Default)
                    ELSE IF Sources(r[1]) # {} THEN Taken(r, Default)
                    ELSE Legacy(r, Default)
BY DEF Saved

\* With no old value to take, a boot takes what the legacy file has ...
LEMMA UntakenSaved ==
  ASSUME NEW r \in Rows, ~Has(r[1]), Untaken(r[1]), InJson(r[1]) # {} => Sources(r[1]) = {}
  PROVE  Saved[r] = Legacy(r, Default)
<1>1. r[2] \in Keys[r[1]]
  BY RowFacts
<1>2. Takers(r) = {}
  BY <1>1 DEF Takers, Sources, Untaken
<1>3. Taken(r, Default) = Default
  BY <1>2, TakenIs
<1>4. CASE Sources(r[1]) = {}
  BY <1>4, SavedIs
<1>5. CASE InJson(r[1]) = {}
  BY <1>3, <1>5, SavedIs DEF Legacy
<1> QED BY <1>4, <1>5

\* ... and of a quiet group what is on file.
LEMMA QuietSaved == ASSUME NEW r \in Rows, Quiet(r[1]) PROVE Saved[r] = OnFile(r)
<1>1. CASE Has(r[1])
  BY <1>1, SavedIs DEF OnFile
<1>2. CASE ~Has(r[1])
  <2>1. Untaken(r[1]) /\ InJson(r[1]) = {}
    BY <1>2 DEF Quiet
  <2>2. Saved[r] = Legacy(r, Default)
    BY <1>2, <2>1, UntakenSaved
  <2> QED BY <1>2, <2>1, <2>2 DEF OnFile, Legacy
<1> QED BY <1>1, <1>2

\* The same of the next state.
LEMMA QuietSavedNext == \A r \in Rows : Quiet(r[1])' => Saved[r]' = OnFile(r)'
<1>1. \A r \in Rows : Quiet(r[1]) => Saved[r] = OnFile(r)
  BY QuietSaved
<1>2. (\A r \in Rows : Quiet(r[1]) => Saved[r] = OnFile(r))'
  BY <1>1, PTL
<1> QED BY <1>2

LEMMA UntakenSavedNext ==
  \A r \in Rows :
    ~Has(r[1])' /\ Untaken(r[1])' /\ (InJson(r[1])' # {} => Sources(r[1])' = {})
      => Saved[r]' = Legacy(r, Default)'
<1>1. \A r \in Rows :
        ~Has(r[1]) /\ Untaken(r[1]) /\ (InJson(r[1]) # {} => Sources(r[1]) = {})
          => Saved[r] = Legacy(r, Default)
  BY UntakenSaved
<1>2. (\A r \in Rows :
        ~Has(r[1]) /\ Untaken(r[1]) /\ (InJson(r[1]) # {} => Sources(r[1]) = {})
          => Saved[r] = Legacy(r, Default))'
  BY <1>1, PTL
<1> QED BY <1>2

\* What the next boot finds stays when it does of every row.
LEMMA SavedPoints == ASSUME \A r \in Rows : Saved[r]' = Saved[r] PROVE Saved' = Saved
<1>1. Saved = [r \in Rows |-> Saved[r]] /\ Saved' = [r \in Rows |-> Saved[r]']
  BY DEF Saved
<1> QED BY <1>1

\* The settings that the next boot finds are settings.
LEMMA SavedType == ASSUME TypeOK PROVE Saved \in [Rows -> Values]
<1>1. ASSUME NEW r \in Rows PROVE Saved[r] \in Values
  BY ValueTypes, SavedIs
<1>2. Saved = [r \in Rows |-> Saved[r]]
  BY DEF Saved
<1> QED BY <1>1, <1>2

\* A rename puts the whole group on file as it is in RAM, and touches no other.
LEMMA RenamedFacts ==
  ASSUME TypeOK, NEW g \in Groups, Renamed(g)
  PROVE  /\ staged /\ ~staged'
         /\ Has(g)'
         /\ \A k \in Keys[g] : Stored(<<g, k>>, Default)' = shadow[<<g, k>>]
         /\ \A k : Readable(g, k)' => k \in Keys[g]
         /\ \A f : f # g => (Has(f)' <=> Has(f))
         /\ \A f, k : f # g => /\ (Readable(f, k)' <=> Readable(f, k))
                               /\ Has(f) => disk'[f][k] = disk[f][k]
<1> DEFINE new == [k \in Keys[g] |-> shadow[<<g, k>>]]
<1>1. /\ staged /\ ~staged'
      /\ disk' = [x \in DOMAIN disk \cup {g} |-> IF x = g THEN new ELSE disk[x]]
  BY DEF Renamed
<1>2. /\ DOMAIN new = Keys[g]
      /\ \A k \in Keys[g] : new[k] = shadow[<<g, k>>] /\ new[k] \in Values /\ new[k] # Bad
  BY RowFacts, ValueAssumption DEF TypeOK
<1> HIDE DEF new
<1>3. Has(g)' /\ disk'[g] = new
  BY <1>1 DEF Has
<1>4. \A f : f # g => (Has(f)' <=> Has(f)) /\ (Has(f) => disk'[f] = disk[f])
  BY <1>1 DEF Has
<1>5. \A k : Readable(g, k)' <=> k \in Keys[g]
  BY <1>2, <1>3 DEF Readable
<1>6. \A k \in Keys[g] : Stored(<<g, k>>, Default)' = shadow[<<g, k>>]
  BY <1>2, <1>3, <1>5 DEF Stored
<1>7. \A f, k : f # g => /\ (Readable(f, k)' <=> Readable(f, k))
                         /\ Has(f) => disk'[f][k] = disk[f][k]
  BY <1>4 DEF Readable
<1> QED BY <1>1, <1>3, <1>4, <1>5, <1>6, <1>7

\* What another group has on file stays, and a group whose keys moved out of
\* this one takes nothing of the new file.
LEMMA RenamedRest ==
  ASSUME TypeOK, NEW h \in Groups, Renamed(h), NEW g \in Groups, g # h
  PROVE  /\ Has(g)' <=> Has(g)
         /\ \A k : OnFile(<<g, k>>)' = OnFile(<<g, k>>)
         /\ Untaken(g) => Untaken(g)'
<1>1. /\ \A f : f # h => (Has(f)' <=> Has(f))
      /\ \A f, k : f # h => /\ (Readable(f, k)' <=> Readable(f, k))
                            /\ Has(f) => disk'[f][k] = disk[f][k]
      /\ \A k : Readable(h, k)' => k \in Keys[h]
  BY RenamedFacts
<1>2. \A k : OnFile(<<g, k>>)' = OnFile(<<g, k>>)
  BY <1>1 DEF OnFile, Stored
<1>3. ASSUME Untaken(g) PROVE Untaken(g)'
  <2> SUFFICES ASSUME NEW i \in DOMAIN Moved, Moved[i].to = g, NEW k \in Keys[g]
               PROVE  ~Readable(Moved[i].from, k)'
    BY DEF Untaken
  <2>1. CASE Moved[i].from = h
    <3>1. Keys[h] \cap Keys[g] = {}
      BY <2>1, MovedAssumption
    <3>2. ~Readable(h, k)'
      BY <1>1, <3>1
    <3> QED BY <2>1, <3>2
  <2>2. CASE Moved[i].from # h
    BY <1>1, <1>3, <2>2 DEF Untaken
  <2> QED BY <2>1, <2>2
<1> QED BY <1>1, <1>2, <1>3

\* A group that no line of MOVED names as an old one serves nobody.
LEMMA RenamedSources ==
  ASSUME TypeOK, NEW h \in Groups, Renamed(h),
         NEW g, \A i \in DOMAIN Moved : Moved[i].to = g => Moved[i].from # h
  PROVE  Sources(g)' = Sources(g)
<1>1. \A f : f # h => (Has(f)' <=> Has(f))
  BY RenamedFacts
<1> QED BY <1>1 DEF Sources

\* The types of the files after it.
LEMMA RenamedTypes ==
  ASSUME TypeOK, NEW g \in Groups, Renamed(g)
  PROVE  /\ DOMAIN disk' \subseteq Groups \cup OldGroups
         /\ \A f \in DOMAIN disk' : \A k \in DOMAIN disk'[f] : disk'[f][k] \in Values \cup {Bad}
         /\ staged' \in BOOLEAN
<1> DEFINE new == [k \in Keys[g] |-> shadow[<<g, k>>]]
<1>1. /\ staged' = FALSE
      /\ disk' = [x \in DOMAIN disk \cup {g} |-> IF x = g THEN new ELSE disk[x]]
  BY DEF Renamed
<1>2. \A k \in DOMAIN new : new[k] \in Values
  BY RowFacts DEF TypeOK
<1> HIDE DEF new
<1>3. DOMAIN disk' = DOMAIN disk \cup {g}
  BY <1>1
<1>4. \A f \in DOMAIN disk' : disk'[f] = IF f = g THEN new ELSE disk[f]
  BY <1>1
<1> QED BY <1>1, <1>2, <1>3, <1>4 DEF TypeOK

\* A file that is removed is gone, and the others stay.
LEMMA WithoutFacts ==
  ASSUME NEW h, disk' = Without(h)
  PROVE  /\ ~Has(h)'
         /\ \A f : f # h => (Has(f)' <=> Has(f))
         /\ \A f, k : Readable(f, k)' => Readable(f, k)
         /\ \A f, k : f # h => OnFile(<<f, k>>)' = OnFile(<<f, k>>)
<1>1. disk' = [x \in DOMAIN disk \ {h} |-> disk[x]]
  BY DEF Without
<1>2. /\ ~Has(h)'
      /\ \A f : f # h => (Has(f)' <=> Has(f))
      /\ \A f : Has(f)' => Has(f) /\ disk'[f] = disk[f]
  BY <1>1 DEF Has
<1>3. \A f, k : Readable(f, k)' => Readable(f, k)
  BY <1>2 DEF Readable
<1>4. \A f, k : f # h => (Readable(f, k)' <=> Readable(f, k))
  BY <1>2 DEF Readable
<1>5. \A f, k : f # h => OnFile(<<f, k>>)' = OnFile(<<f, k>>)
  BY <1>2, <1>4 DEF OnFile, Stored, Readable
<1> QED BY <1>2, <1>3, <1>5

\* ... as a reset removes one.
LEMMA WithoutRest ==
  ASSUME NEW h, disk' = Without(h) \/ disk' = disk, NEW g \in Groups, g # h, Settled(g),
         json' \in {json, NoJson}, g \notin dirty' => g \notin dirty,
         \A k \in Keys[g] : shadow'[<<g, k>>] = shadow[<<g, k>>]
  PROVE  /\ Settled(g)'
         /\ \A k : OnFile(<<g, k>>)' = OnFile(<<g, k>>)
<1>1. /\ Has(g)' <=> Has(g)
      /\ \A f, k : Readable(f, k)' => Readable(f, k)
      /\ \A k : OnFile(<<g, k>>)' = OnFile(<<g, k>>)
  <2>1. CASE disk' = Without(h)
    BY <2>1, WithoutFacts
  <2>2. CASE disk' = disk
    BY <2>2 DEF Has, Readable, OnFile, Stored
  <2> QED BY <2>1, <2>2
<1>2. Untaken(g) => Untaken(g)'
  BY <1>1 DEF Untaken
<1>3. InJson(g) = {} => InJson(g)' = {}
  <2>1. CASE json' = json
    BY <2>1 DEF InJson
  <2>2. CASE json' = NoJson
    BY <2>2 DEF InJson, NoJson
  <2> QED BY <2>1, <2>2
<1>4. Quiet(g) => Quiet(g)'
  BY <1>1, <1>2, <1>3 DEF Quiet
<1> QED BY <1>1, <1>4 DEF Settled

----------------------------------------------------------------------------
(* Types and places                                                        *)

\* A row that a put goes to is one.
LEMMA TargetRows == ASSUME NEW m, NEW k PROVE Target(m, k) \subseteq Rows
<1>1. CASE <<m, k>> \in Rows
  BY <1>1 DEF Target
<1>2. CASE <<m, k>> \notin Rows
  <2> DEFINE S == {i \in DOMAIN Moved : Moved[i].from = m}
             T == {<<Moved[i].to, k>> : i \in {j \in S : \A l \in S : j <= l}}
  <2>1. Target(m, k) = T \cap Rows
    BY <1>2 DEF Target
  <2> HIDE DEF T
  <2> QED BY <2>1
<1> QED BY <1>1, <1>2

\* What a boot reads into RAM are settings.
LEMMA ReadTypes ==
  ASSUME TypeOK, BootInv, AdoptRead \/ ImportRead \/ \E ok \in BOOLEAN : Boot(ok)
  PROVE  shadow' \in [Rows -> Values]
<1>1. \A r \in Rows : shadow[r] \in Values
  BY DEF TypeOK
<1>2. CASE AdoptRead
  <2>1. \A r \in Rows : shadow'[r] = IF r[1] = Moved[at].to THEN Taken(r, shadow[r]) ELSE shadow[r]
    BY <1>2 DEF AdoptRead
  <2>2. ASSUME NEW r \in Rows, r[1] = Moved[at].to PROVE Taken(r, shadow[r]) \in Values
    <3>1. ~Has(Moved[at].to) /\ pc = "adopt"
      BY <1>2 DEF AdoptRead
    <3>2. shadow[r] = Default
      BY <2>2, <3>1 DEF BootInv, Booting, Fresh, OnFile
    <3> QED BY <3>2, ValueTypes
  <2>3. \A r \in Rows : shadow'[r] \in Values
    BY <1>1, <2>1, <2>2
  <2>4. shadow' = [r \in Rows |-> IF r[1] = Moved[at].to THEN Taken(r, shadow[r]) ELSE shadow[r]]
    BY <1>2 DEF AdoptRead
  <2> QED BY <2>3, <2>4
<1>3. CASE ImportRead
  <2>1. shadow' = [r \in Rows |-> IF r[1] = Here THEN Legacy(r, shadow[r]) ELSE shadow[r]]
    BY <1>3 DEF ImportRead
  <2>2. ASSUME NEW r \in Rows PROVE Legacy(r, shadow[r]) \in Values
    BY <1>1 DEF Legacy, InJson, TypeOK
  <2>3. \A r \in Rows : shadow'[r] \in Values
    BY <1>1, <2>1, <2>2
  <2> QED BY <2>1, <2>3
<1>4. ASSUME NEW ok \in BOOLEAN, Boot(ok) PROVE shadow' \in [Rows -> Values]
  <2>1. shadow' = [r \in Rows |-> IF ok THEN Stored(r, Default) ELSE Default]
    BY <1>4 DEF Boot
  <2>2. \A r \in Rows : shadow'[r] \in Values
    BY <2>1, ValueTypes, ValueAssumption
  <2> QED BY <2>1, <2>2
<1> QED BY <1>2, <1>3, <1>4

\* Files that are unchanged, or removed, hold what they held.
LEMMA FileTypes ==
  ASSUME TypeOK, disk' = disk \/ \E h : disk' = Without(h), json' \in {json, NoJson}
  PROVE  /\ DOMAIN disk' \subseteq Groups \cup OldGroups
         /\ \A f \in DOMAIN disk' : \A k \in DOMAIN disk'[f] : disk'[f][k] \in Values \cup {Bad}
         /\ DOMAIN json' \subseteq Aliases
         /\ \A r \in DOMAIN json' : json'[r] \in Values \cup {Bad}
<1>1. /\ DOMAIN json' \subseteq Aliases
      /\ \A r \in DOMAIN json' : json'[r] \in Values \cup {Bad}
  BY DEF TypeOK, NoJson
<1>2. DOMAIN disk' \subseteq DOMAIN disk /\ \A f \in DOMAIN disk' : disk'[f] = disk[f]
  BY DEF Without
<1> QED BY <1>1, <1>2 DEF TypeOK

\* The file system fails no write of a boot.
LEMMA BootWrites ==
  ASSUME ~BootFails, PrefsInv
  PROVE  /\ AdoptWritten => Renamed(Moved[at].to) /\ Moved[at].to \in Groups
         /\ ImportWritten => Renamed(Here) /\ Here \in Groups /\ imported' = TRUE
BY GroupFacts DEF PrefsInv, PlaceInv, BootInv, Booting, AdoptWritten, ImportWritten, NotWritten, Here

\* Every step keeps the types and the places.
LEMMA TypeStep ==
  ~BootFails /\ PrefsInv /\ [Next]_vars => TypeOK' /\ PlaceInv'
<1> SUFFICES ASSUME ~BootFails, PrefsInv, [Next]_vars PROVE TypeOK' /\ PlaceInv'
  OBVIOUS
<1>1. TypeOK /\ PlaceInv /\ BootInv /\ ServeInv /\ WipeInv
  BY DEF PrefsInv
<1> DEFINE Files == /\ DOMAIN disk \subseteq Groups \cup OldGroups
                    /\ \A f \in DOMAIN disk : \A k \in DOMAIN disk[f] : disk[f][k] \in Values \cup {Bad}
                    /\ DOMAIN json \subseteq Aliases
                    /\ \A r \in DOMAIN json : json[r] \in Values \cup {Bad}
           Flags == /\ restart_pending \in BOOLEAN /\ reboot_put \in BOOLEAN /\ mounted \in BOOLEAN
                    /\ staged \in BOOLEAN /\ imported \in BOOLEAN /\ keep \in BOOLEAN
                    /\ fire \in BOOLEAN /\ failed \in BOOLEAN
           Ram == shadow \in [Rows -> Values] /\ dirty \subseteq Groups
           Loop == /\ pc \in {"off", "adopt", "adopt_write", "legacy", "import", "import_write",
                              "idle", "form", "commit", "reset", "drop", "unlegacy"}
                   /\ at \in 1 .. (Len(Order) + Len(Moved) + 1)
<1>2. Files /\ Flags /\ Ram /\ Loop
  BY <1>1 DEF TypeOK
<1>3. Files' /\ Flags' /\ Ram' /\ Loop' => TypeOK'
  BY DEF TypeOK
<1>4. /\ Len(Order) \in Nat /\ DOMAIN Order = 1 .. Len(Order)
      /\ Len(Moved) \in Nat /\ DOMAIN Moved = 1 .. Len(Moved)
      /\ \A j \in DOMAIN Order : Order[j] \in Groups
  BY GroupFacts
<1>5. Files'
  <2>1. CASE disk' = disk \/ \E h : disk' = Without(h)
    <3>1. json' \in {json, NoJson}
      BY DEF Next, vars, Boot, AdoptRead, AdoptNothing, AdoptStage, AdoptWritten, AdoptEnd,
             LegacyStale, LegacyMissing, ImportRead, ImportNothing, ImportStage, ImportWritten,
             ImportEnd, Put, Commit, CommitClean, CommitStage, CommitWritten, CommitNotWritten,
             CommitEnd, ResetAll, ResetGroup, ResetGroups, DropMoved, Dropped, RemoveLegacy,
             PowerCut
    <3> QED BY <1>1, <2>1, <3>1, FileTypes
  <2>2. ASSUME NEW g \in Groups, Renamed(g), json' = json PROVE Files'
    BY <1>1, <1>2, <2>2, RenamedTypes
  <2>3. CASE AdoptWritten \/ ImportWritten \/ CommitWritten
    <3>1. \E g \in Groups : Renamed(g)
      BY <1>4, <2>3, BootWrites DEF CommitWritten, Here
    <3> QED BY <2>2, <2>3, <3>1 DEF AdoptWritten, ImportWritten, CommitWritten
  <2>4. CASE ~(AdoptWritten \/ ImportWritten \/ CommitWritten)
    <3>1. disk' = disk \/ \E h : disk' = Without(h)
      BY <2>4
         DEF Next, vars, Boot, AdoptRead, AdoptNothing, AdoptStage, AdoptEnd, LegacyStale,
             LegacyMissing, ImportRead, ImportNothing, ImportStage, ImportEnd, Put, Commit,
             CommitClean, CommitStage, CommitNotWritten, NotWritten, CommitEnd, ResetAll,
             ResetGroup, ResetGroups, DropMoved, Dropped, RemoveLegacy, PowerCut
    <3> QED BY <2>1, <3>1
  <2> QED BY <2>3, <2>4
<1>6. Ram'
  <2>1. CASE AdoptRead \/ ImportRead \/ \E ok \in BOOLEAN : Boot(ok)
    BY <1>1, <1>2, <2>1, ReadTypes DEF AdoptRead, ImportRead, Boot
  <2>2. ASSUME NEW m, NEW k, NEW v \in Values, Put(m, k, v) PROVE Ram'
    <3>1. PICK r \in Rows : /\ shadow' = [shadow EXCEPT ![r] = v]
                            /\ dirty' \in {dirty, dirty \cup {r[1]}}
      BY <2>2, TargetRows DEF Put
    <3> QED BY <1>2, <3>1, RowFacts
  <2>3. CASE CommitWritten
    BY <1>2, <2>3 DEF CommitWritten
  <2>4. CASE ResetGroup
    <3>1. dirty' \subseteq Groups
      BY <1>2, <1>4, <2>4 DEF ResetGroup, Here
    <3>2. shadow' \in [Rows -> Values]
      <4>1. CASE keep /\ Here \in NetGroups
        BY <1>2, <2>4, <4>1 DEF ResetGroup
      <4>2. CASE ~(keep /\ Here \in NetGroups)
        <5>1. shadow' = [r \in Rows |-> IF r[1] = Here /\ ~(keep /\ r = PassRow)
                                         THEN Default ELSE shadow[r]]
          BY <2>4, <4>2 DEF ResetGroup
        <5>2. \A r \in Rows : shadow'[r] \in Values
          BY <1>2, <5>1, ValueAssumption
        <5> QED BY <5>1, <5>2
      <4> QED BY <4>1, <4>2
    <3> QED BY <3>1, <3>2
  <2>5. CASE PowerCut
    BY <2>5, ValueAssumption DEF PowerCut, Defaults
  <2>6. CASE UNCHANGED <<shadow, dirty>>
    BY <1>2, <2>6
  <2> QED
    BY <2>1, <2>2, <2>3, <2>4, <2>5, <2>6
       DEF Next, vars, AdoptNothing, AdoptStage, AdoptWritten, AdoptEnd, LegacyStale,
           LegacyMissing, ImportNothing, ImportStage, ImportWritten, ImportEnd, Commit,
           CommitClean, CommitStage, CommitNotWritten, CommitEnd, ResetAll, ResetGroups,
           DropMoved, Dropped, RemoveLegacy
<1>7. Flags'
  <2>1. CASE AdoptNext
    BY <1>2, <2>1, ZenonT(60)
       DEF AdoptNext, flags, job, Stage, Renamed, NotWritten, Boot, AdoptRead, AdoptNothing, AdoptStage, AdoptWritten, AdoptEnd
  <2>2. CASE ImportNext
    BY <1>2, <2>2, ZenonT(60)
       DEF ImportNext, flags, job, Stage, Renamed, NotWritten, LegacyStale, LegacyMissing, ImportRead, ImportNothing, ImportStage, ImportWritten,
           ImportEnd
  <2>3. CASE ServeNext
    <3>1. ASSUME NEW m, NEW k, NEW v, Put(m, k, v) PROVE Flags'
      BY <1>2, <3>1 DEF Put, job
    <3>2. ASSUME NEW callbacks \in BOOLEAN, Commit(callbacks) PROVE Flags'
      BY <1>2, <3>2 DEF Commit
    <3>3. ASSUME NEW keep_network \in BOOLEAN, ResetAll(keep_network) PROVE Flags'
      BY <1>2, <3>3 DEF ResetAll, flags
    <3>4. CASE CommitClean \/ CommitStage \/ CommitEnd
      BY <1>2, <3>4 DEF CommitClean, CommitStage, CommitEnd, Stage, flags, job
    <3>5. CASE CommitWritten
      BY <1>2, <3>5 DEF CommitWritten, Renamed, job
    <3>6. CASE CommitNotWritten
      BY <1>2, <3>6 DEF CommitNotWritten, NotWritten, job
    <3> QED BY <2>3, <3>1, <3>2, <3>3, <3>4, <3>5, <3>6 DEF ServeNext
  <2>4. CASE WipeNext
    BY <1>2, <2>4
       DEF WipeNext, flags, job, Stage, Renamed, NotWritten, ResetGroup, ResetGroups, DropMoved, Dropped, RemoveLegacy
  <2>5. CASE PowerCut
    BY <1>2, <2>5 DEF PowerCut
  <2>6. CASE UNCHANGED vars
    BY <1>2, <2>6 DEF vars, flags, job
  <2> QED BY <2>1, <2>2, <2>3, <2>4, <2>5, <2>6, NextIs
<1>8. Loop'
  <2>1. CASE AdoptNext
    <3>1. at' \in {1, at} \/ (at \in DOMAIN Moved /\ at' = at + 1)
      BY <1>1, <2>1
         DEF AdoptNext, PlaceInv, Boot, AdoptRead, AdoptNothing, AdoptStage, AdoptWritten, AdoptEnd
    <3>2. pc' \in {"adopt", "idle", "adopt_write", "legacy"}
      BY <2>1
         DEF AdoptNext, Boot, AdoptRead, AdoptNothing, AdoptStage, AdoptWritten, AdoptEnd
    <3> QED BY <1>2, <1>4, <3>1, <3>2
  <2>2. CASE ImportNext
    <3>1. at' \in {1, at} \/ (at \in DOMAIN Order /\ at' = at + 1)
      BY <1>1, <2>2
         DEF ImportNext, PlaceInv, LegacyStale, LegacyMissing, ImportRead, ImportNothing,
             ImportStage, ImportWritten, ImportEnd
    <3>2. pc' \in {"idle", "import", "import_write"}
      BY <2>2
         DEF ImportNext, LegacyStale, LegacyMissing, ImportRead, ImportNothing, ImportStage,
             ImportWritten, ImportEnd
    <3> QED BY <1>2, <1>4, <3>1, <3>2
  <2>3. CASE ServeNext
    BY <1>2, <1>4, <2>3
       DEF ServeNext, Put, Commit, CommitClean, CommitStage, CommitWritten, CommitNotWritten, CommitEnd,
           ResetAll
  <2>4. CASE WipeNext
    BY <1>2, <1>4, <2>4
       DEF WipeNext, ResetGroup, ResetGroups, DropMoved, Dropped, RemoveLegacy
  <2>5. CASE PowerCut
    BY <1>2, <1>4, <2>5 DEF PowerCut
  <2>6. CASE UNCHANGED vars
    BY <1>2, <1>4, <2>6 DEF vars, flags, job
  <2> QED BY <2>1, <2>2, <2>3, <2>4, <2>5, <2>6, NextIs
<1>9. PlaceInv'
  <2>1. CASE pc' \notin {"adopt", "drop", "import", "commit", "reset", "adopt_write",
                         "import_write", "unlegacy"} /\ ~staged'
    BY <2>1 DEF PlaceInv
  <2>2. ASSUME disk' = disk, json' = json, UNCHANGED <<pc, at, keep, mounted>>,
               staged' => mounted /\ pc # "off"
        PROVE  PlaceInv'
    <3>1. /\ Has(Moved[at].to)' <=> Has(Moved[at].to)
          /\ Sources(Moved[at].to)' = Sources(Moved[at].to)
          /\ Has(Here)' <=> Has(Here)
          /\ InJson(Here)' = InJson(Here)
      BY <2>2 DEF Has, Sources, InJson, Here
    <3> QED BY <1>1, <2>2, <3>1 DEF PlaceInv
  <2>3. CASE AdoptRead
    <3>1. /\ at \in DOMAIN Moved /\ Moved[at].to \in Groups /\ ~Has(Moved[at].to)
          /\ Sources(Moved[at].to) # {} /\ pc = "adopt" /\ pc' = "adopt_write"
          /\ UNCHANGED <<disk, at, staged, mounted, keep>>
      BY <2>3 DEF AdoptRead, job
    <3>2. /\ Has(Moved[at].to)' <=> Has(Moved[at].to)
          /\ Sources(Moved[at].to)' = Sources(Moved[at].to)
      BY <3>1 DEF Has, Sources
    <3> QED BY <1>1, <3>1, <3>2 DEF PlaceInv
  <2>4. CASE ImportRead
    <3>1. /\ at \in DOMAIN Order /\ ~Has(Here) /\ InJson(Here) # {}
          /\ pc = "import" /\ pc' = "import_write"
          /\ UNCHANGED <<disk, json, at, staged, mounted, keep>>
      BY <2>4 DEF ImportRead, job
    <3>2. /\ Has(Here)' <=> Has(Here)
          /\ InJson(Here)' = InJson(Here)
      BY <3>1 DEF Has, InJson, Here
    <3> QED BY <1>1, <3>1, <3>2 DEF PlaceInv
  <2>5. CASE AdoptStage \/ ImportStage \/ CommitStage
    <3>1. /\ disk' = disk /\ json' = json /\ UNCHANGED <<pc, at, keep, mounted>>
          /\ pc # "off" /\ mounted
      BY <1>1, <2>5 DEF AdoptStage, ImportStage, CommitStage, BootInv, Booting, job
    <3> QED BY <2>2, <3>1
  <2>6. CASE UNCHANGED vars
    BY <1>1, <2>2, <2>6 DEF vars, PlaceInv
  <2>7. CASE AdoptNothing \/ AdoptWritten \/ AdoptEnd \/ \E ok \in BOOLEAN : Boot(ok)
    <3>1. pc' \in {"adopt", "idle", "legacy"} /\ at' \in 1 .. Len(Moved) + 1
      BY <1>1, <1>4, <2>7 DEF AdoptNothing, AdoptWritten, AdoptEnd, Boot, PlaceInv
    <3>2. staged' => mounted' /\ pc' # "off"
      BY <1>1, <2>7, <3>1
         DEF AdoptNothing, AdoptWritten, AdoptEnd, Boot, PlaceInv, Renamed, NotWritten
    <3> QED BY <3>1, <3>2 DEF PlaceInv
  <2>8. CASE LegacyStale \/ LegacyMissing \/ ImportNothing \/ ImportWritten \/ ImportEnd
    <3>1. pc' \in {"import", "idle"} /\ (pc' = "import" => at' \in 1 .. Len(Order) + 1)
      BY <1>1, <1>4, <2>8
         DEF LegacyStale, LegacyMissing, ImportNothing, ImportWritten, ImportEnd, PlaceInv
    <3>2. staged' => mounted' /\ pc' # "off"
      BY <1>1, <2>8, <3>1
         DEF LegacyStale, LegacyMissing, ImportNothing, ImportWritten, ImportEnd, PlaceInv,
             Renamed, NotWritten, job
    <3> QED BY <3>1, <3>2 DEF PlaceInv
  <2>9. CASE ServeNext /\ ~CommitStage
    <3>1. pc' \in {"form", "idle", "commit", "reset"} /\ at' \in {1, at, at + 1}
          /\ (pc' \in {"commit", "reset"} => at' \in 1 .. Len(Order) + 1)
      BY <1>1, <1>2, <1>4, <2>9
         DEF ServeNext, Put, Commit, CommitClean, CommitWritten, CommitNotWritten, CommitEnd,
             ResetAll, PlaceInv
    <3>2. mounted' = mounted /\ (staged' = FALSE \/ staged' = staged)
      BY <2>9
         DEF ServeNext, Put, Commit, CommitClean, CommitWritten, CommitNotWritten, CommitEnd,
             ResetAll, Renamed, NotWritten
    <3>3. staged' => mounted' /\ pc' # "off"
      BY <1>1, <3>1, <3>2 DEF PlaceInv
    <3> QED BY <3>1, <3>3 DEF PlaceInv
  <2>10. CASE WipeNext
    <3>1. /\ pc' \in {"reset", "drop", "form", "unlegacy", "idle"}
          /\ pc' = "reset" => at' \in 1 .. Len(Order) + 1
          /\ pc' = "drop" => at' \in 1 .. Len(Moved) + 1
          /\ pc' = "unlegacy" => ~keep'
      BY <1>1, <1>4, <2>10
         DEF WipeNext, ResetGroup, ResetGroups, DropMoved, Dropped, RemoveLegacy, PlaceInv, job
    <3>2. staged' => mounted' /\ pc' # "off"
      BY <1>1, <2>10, <3>1
         DEF WipeNext, ResetGroup, ResetGroups, DropMoved, Dropped, RemoveLegacy, PlaceInv
    <3> QED BY <3>1, <3>2 DEF PlaceInv
  <2>11. CASE PowerCut
    BY <2>1, <2>11 DEF PowerCut
  <2> QED BY <2>3, <2>4, <2>5, <2>6, <2>7, <2>8, <2>9, <2>10, <2>11, NextIs
          DEF AdoptNext, ImportNext, ServeNext
<1> QED BY <1>3, <1>5, <1>6, <1>7, <1>8, <1>9

----------------------------------------------------------------------------
(* Steps that leave the files as they are                                  *)

\* What is read from files that are the same is the same.
LEMMA SameDisk ==
  ASSUME disk' = disk
  PROVE  /\ \A f : Has(f)' <=> Has(f)
         /\ \A r : Stored(r, Default)' = Stored(r, Default) /\ OnFile(r)' = OnFile(r)
         /\ \A g : Sources(g)' = Sources(g)
         /\ \A g : Untaken(g)' <=> Untaken(g)
         /\ \A r : Taken(r, Default)' = Taken(r, Default)
<1>1. \A f : Has(f)' <=> Has(f)
  BY DEF Has
<1>2. \A f, k : Readable(f, k)' <=> Readable(f, k)
  BY DEF Readable, Has
<1>3. \A r : Stored(r, Default)' = Stored(r, Default) /\ OnFile(r)' = OnFile(r)
  BY <1>1, <1>2 DEF Stored, OnFile
<1>4. \A g : Sources(g)' = Sources(g)
  BY <1>1 DEF Sources
<1>5. \A g : Untaken(g)' <=> Untaken(g)
  BY <1>2 DEF Untaken
<1>6. ASSUME NEW r PROVE Taken(r, Default)' = Taken(r, Default)
  <2>1. Takers(r)' = Takers(r)
    BY <1>2, <1>4 DEF Takers
  <2>2. Taken(r, Default)' = IF Takers(r)' = {} THEN Default
                             ELSE disk'[Moved[Min(Takers(r)')].from][r[2]]
    BY DEF Taken, Takers
  <2> QED BY <2>1, <2>2, TakenIs
<1> QED BY <1>1, <1>3, <1>4, <1>5, <1>6

LEMMA SameJson ==
  ASSUME json' = json
  PROVE  /\ \A g : InJson(g)' = InJson(g)
         /\ \A r : Legacy(r, Default)' = Legacy(r, Default)
BY DEF InJson, Legacy

\* So is what the next boot finds.
LEMMA SameSaved == ASSUME UNCHANGED <<disk, json>> PROVE Saved' = Saved
<1>1. ASSUME NEW r \in Rows PROVE Saved[r]' = Saved[r]
  <2>1. Saved[r]' = IF Has(r[1])' THEN Stored(r, Default)'
                    ELSE IF Sources(r[1])' # {} THEN Taken(r, Default)'
                    ELSE Legacy(r, Default)'
    BY DEF Saved
  <2> QED BY <2>1, SavedIs, SameDisk, SameJson
<1> QED BY <1>1, SavedPoints

\* A step that changes nothing of what the invariants speak of keeps them.
LEMMA SameInv ==
  ASSUME PrefsInv, UNCHANGED <<disk, json, shadow, dirty, pc, at, mounted, keep>>
  PROVE  BootInv' /\ ServeInv' /\ WipeInv'
<1>1. /\ \A f : Has(f)' <=> Has(f)
      /\ \A r : OnFile(r)' = OnFile(r)
      /\ \A g : Sources(g)' = Sources(g)
      /\ \A g : Untaken(g)' <=> Untaken(g)
      /\ \A r : Taken(r, Default)' = Taken(r, Default)
      /\ \A g : InJson(g)' = InJson(g)
      /\ \A r : Legacy(r, Default)' = Legacy(r, Default)
  BY SameDisk, SameJson
<1>2. BootInv /\ ServeInv /\ WipeInv
  BY DEF PrefsInv
<1>3. \A r : Fresh(r)' = Fresh(r)
  BY <1>1 DEF Fresh, Here
<1>4. BootInv'
  BY <1>1, <1>2, <1>3 DEF BootInv, Booting
<1>5. \A g : (Settled(g)' <=> Settled(g)) /\ (Erased(g)' <=> Erased(g)) /\ (Spared(g)' <=> Spared(g))
  BY <1>1 DEF Settled, Erased, Spared, Quiet
<1>6. ServeInv'
  BY <1>2, <1>5 DEF ServeInv, Serving
<1>7. WipeInv'
  BY <1>1, <1>2, <1>5 DEF WipeInv, Wiping
<1> QED BY <1>4, <1>6, <1>7

----------------------------------------------------------------------------
(* A boot                                                                  *)

\* Between the steps that write, RAM is what is on file.
LEMMA BootRam ==
  ASSUME BootInv, NEW r \in Rows, pc \in {"adopt", "legacy", "import"}
  PROVE  shadow[r] = OnFile(r)
BY DEF BootInv, Booting, Fresh

\* begin() and adopt_moved: each row comes from where the next boot finds it.
LEMMA AdoptStep ==
  ASSUME ~BootFails, PrefsInv, AdoptNext
  PROVE  BootInv' /\ ServeInv' /\ WipeInv' /\ Saved' = Saved
<1> USE DEF Booting, Serving, Wiping
<1>1. TypeOK /\ PlaceInv /\ BootInv
  BY DEF PrefsInv
<1>2. /\ Len(Moved) \in Nat /\ DOMAIN Moved = 1 .. Len(Moved)
      /\ \A i \in DOMAIN Moved : Moved[i].from \in OldGroups
  BY GroupFacts
<1>3. ASSUME NEW ok \in BOOLEAN, Boot(ok) PROVE BootInv' /\ ServeInv' /\ WipeInv' /\ Saved' = Saved
  <2>1. /\ mounted' = ok /\ UNCHANGED <<disk, json>> /\ at' = 1
        /\ pc' = IF ok THEN "adopt" ELSE "idle"
        /\ shadow' = [r \in Rows |-> IF ok THEN Stored(r, Default) ELSE Default]
    BY <1>3 DEF Boot
  <2>2. ASSUME ok, NEW r \in Rows PROVE shadow'[r] = Fresh(r)'
    <3>1. Fresh(r)' = OnFile(r)'
      BY <2>1, <2>2 DEF Fresh
    <3>2. OnFile(r)' = OnFile(r)
      BY <2>1, SameDisk
    <3>3. OnFile(r) = Stored(r, Default)
      BY DEF OnFile, Stored, Readable
    <3> QED BY <2>1, <2>2, <3>1, <3>2, <3>3
  <2>3. BootInv'
    BY <2>1, <2>2 DEF BootInv
  <2>4. ServeInv' /\ WipeInv'
    BY <2>1 DEF ServeInv, WipeInv
  <2> QED BY <2>1, <2>3, <2>4, SameSaved
<1>4. CASE AdoptRead
  <2> DEFINE g == Moved[at].to
  <2>1. /\ pc = "adopt" /\ at \in DOMAIN Moved /\ g \in Groups /\ ~Has(g)
        /\ shadow' = [r \in Rows |-> IF r[1] = g THEN Taken(r, shadow[r]) ELSE shadow[r]]
        /\ pc' = "adopt_write" /\ UNCHANGED <<disk, json, mounted, at>>
    BY <1>4 DEF AdoptRead
  <2>2. ASSUME NEW r \in Rows PROVE shadow'[r] = Fresh(r)'
    <3>1. shadow[r] = OnFile(r) /\ OnFile(r)' = OnFile(r) /\ Taken(r, Default)' = Taken(r, Default)
      BY <1>1, <2>1, BootRam, SameDisk
    <3>2. CASE r[1] = g
      <4>1. shadow[r] = Default
        BY <2>1, <3>1, <3>2 DEF OnFile
      <4> QED BY <2>1, <3>1, <3>2, <4>1 DEF Fresh
    <3>3. CASE r[1] # g
      BY <2>1, <3>1, <3>3 DEF Fresh
    <3> QED BY <3>2, <3>3
  <2>3. BootInv'
    <3>1. \A i \in 1 .. at - 1 :
            Moved[i].to \in Groups => Has(Moved[i].to)' \/ Sources(Moved[i].to)' = {}
      BY <1>1, <2>1, SameDisk DEF BootInv
    <3>2. mounted'
      BY <1>1, <2>1 DEF BootInv
    <3> QED BY <2>1, <2>2, <3>1, <3>2 DEF BootInv
  <2>4. ServeInv' /\ WipeInv'
    BY <2>1 DEF ServeInv, WipeInv
  <2> QED BY <2>1, <2>3, <2>4, SameSaved
<1>5. CASE AdoptNothing
  <2>1. /\ pc = "adopt" /\ at \in DOMAIN Moved /\ at' = at + 1
        /\ Moved[at].to \notin Groups \/ Has(Moved[at].to) \/ Sources(Moved[at].to) = {}
        /\ UNCHANGED <<disk, json, shadow, mounted, pc>>
    BY <1>5 DEF AdoptNothing
  <2>2. ASSUME NEW r \in Rows PROVE shadow'[r] = Fresh(r)'
    <3>1. shadow[r] = OnFile(r) /\ OnFile(r)' = OnFile(r)
      BY <1>1, <2>1, BootRam, SameDisk
    <3> QED BY <2>1, <3>1 DEF Fresh
  <2>3. \A i \in 1 .. at' - 1 :
          Moved[i].to \in Groups => Has(Moved[i].to)' \/ Sources(Moved[i].to)' = {}
    <3>1. \A i \in 1 .. at' - 1 : i \in 1 .. at - 1 \/ i = at
      BY <1>2, <2>1
    <3>2. \A i \in 1 .. at - 1 :
            Moved[i].to \in Groups => Has(Moved[i].to) \/ Sources(Moved[i].to) = {}
      BY <1>1, <2>1 DEF BootInv
    <3> QED BY <2>1, <3>1, <3>2, SameDisk
  <2>4. BootInv'
    <3>1. mounted'
      BY <1>1, <2>1 DEF BootInv
    <3> QED BY <2>1, <2>2, <2>3, <3>1 DEF BootInv
  <2>5. ServeInv' /\ WipeInv'
    BY <2>1 DEF ServeInv, WipeInv
  <2> QED BY <2>1, <2>4, <2>5, SameSaved
<1>6. CASE AdoptStage
  <2>1. UNCHANGED <<disk, json, shadow, dirty, pc, at, mounted, keep>>
    BY <1>6 DEF AdoptStage, job
  <2> QED BY <2>1, SameInv, SameSaved
<1>7. CASE AdoptWritten
  <2>0. PICK g \in Groups : g = Moved[at].to
    BY <1>1, <1>7 DEF AdoptWritten, PlaceInv
  <2>1. /\ pc = "adopt_write" /\ pc' = "adopt" /\ at' = at + 1
        /\ UNCHANGED <<json, shadow, mounted>>
        /\ Renamed(g) /\ g \in Groups /\ at \in DOMAIN Moved /\ ~Has(g) /\ Sources(g) # {}
    BY <1>1, <1>7, <2>0, BootWrites DEF AdoptWritten, PlaceInv
  <2>2. \A h : Sources(h)' = Sources(h)
    BY <1>1, <2>1, RenamedSources, MovedAssumption, <2>0
  <2>3. /\ Has(g)'
        /\ \A k \in Keys[g] : Stored(<<g, k>>, Default)' = shadow[<<g, k>>]
        /\ \A f : f # g => (Has(f)' <=> Has(f))
        /\ \A f, k : f # g => /\ (Readable(f, k)' <=> Readable(f, k))
                              /\ Has(f) => disk'[f][k] = disk[f][k]
    BY <1>1, <2>1, RenamedFacts
  <2>4. ASSUME NEW r \in Rows
        PROVE  /\ shadow[r] = IF r[1] = g THEN Taken(r, Default) ELSE OnFile(r)
               /\ OnFile(r)' = shadow[r]
    <3>1. shadow[r] = IF r[1] = g THEN Taken(r, Default) ELSE OnFile(r)
      BY <1>1, <2>0, <2>1 DEF BootInv, Fresh, Booting
    <3>2. CASE r[1] = g
      <4>1. r = <<g, r[2]>> /\ r[2] \in Keys[g]
        BY <3>2, RowFacts
      <4>2. Stored(r, Default)' = shadow[r]
        BY <2>3, <4>1
      <4> QED BY <2>3, <3>1, <3>2, <4>2 DEF OnFile
    <3>3. CASE r[1] # g
      <4>1. OnFile(r)' = OnFile(r)
        BY <2>3, <3>3 DEF OnFile, Stored, Readable
      <4> QED BY <3>1, <3>3, <4>1
    <3> QED BY <3>1, <3>2, <3>3
  <2>5. BootInv'
    <3>1. \A r \in Rows : shadow'[r] = Fresh(r)'
      BY <2>1, <2>4 DEF Fresh
    <3>2. \A i \in 1 .. at' - 1 :
            Moved[i].to \in Groups => Has(Moved[i].to)' \/ Sources(Moved[i].to)' = {}
      <4>1. \A i \in 1 .. at' - 1 : i \in 1 .. at - 1 \/ i = at
        BY <1>2, <2>1
      <4>2. \A i \in 1 .. at - 1 :
              Moved[i].to \in Groups => Has(Moved[i].to) \/ Sources(Moved[i].to) = {}
        BY <1>1, <2>1 DEF BootInv
      <4> QED BY <2>0, <2>2, <2>3, <4>1, <4>2
    <3>3. mounted'
      BY <1>1, <2>1 DEF BootInv
    <3> QED BY <2>1, <3>1, <3>2, <3>3 DEF BootInv
  <2>6. ServeInv' /\ WipeInv'
    BY <2>1 DEF ServeInv, WipeInv
  <2>7. ASSUME NEW r \in Rows PROVE Saved[r]' = Saved[r]
    <3>1. Saved[r]' = IF Has(r[1])' THEN Stored(r, Default)'
                      ELSE IF Sources(r[1])' # {} THEN Taken(r, Default)'
                      ELSE Legacy(r, Default)'
      BY DEF Saved
    <3>2. CASE r[1] = g
      <4>1. Saved[r]' = OnFile(r)'
        BY <2>3, <3>1, <3>2 DEF OnFile
      <4>2. Saved[r] = Taken(r, Default)
        BY <2>1, <3>2, SavedIs
      <4> QED BY <2>4, <3>2, <4>1, <4>2
    <3>3. CASE r[1] # g
      <4>1. (Has(r[1])' <=> Has(r[1])) /\ Stored(r, Default)' = Stored(r, Default)
        BY <2>3, <3>3 DEF Stored, Readable
      <4>2. \A i \in DOMAIN Moved : Moved[i].from # g
        BY <2>0, <2>1, MovedAssumption
      <4>3. \A i \in DOMAIN Moved : /\ Readable(Moved[i].from, r[2])' <=> Readable(Moved[i].from, r[2])
                                    /\ Readable(Moved[i].from, r[2]) =>
                                         disk'[Moved[i].from][r[2]] = disk[Moved[i].from][r[2]]
        BY <2>3, <4>2 DEF Readable
      <4>4. Takers(r)' = Takers(r)
        BY <2>2, <4>3 DEF Takers, Sources
      <4>5. Taken(r, Default)' = Taken(r, Default)
        <5>1. Taken(r, Default)' = IF Takers(r)' = {} THEN Default
                                   ELSE disk'[Moved[Min(Takers(r)')].from][r[2]]
          BY DEF Taken, Takers
        <5>2. Takers(r) # {} => Min(Takers(r)) \in Takers(r)
          <6>1. Takers(r) \in SUBSET Nat
            BY <1>2 DEF Takers, Sources
          <6> QED BY <6>1, FirstLine
        <5>3. \A i \in Takers(r) : disk'[Moved[i].from][r[2]] = disk[Moved[i].from][r[2]]
          BY <4>3 DEF Takers, Sources
        <5> QED BY <4>4, <5>1, <5>2, <5>3, TakenIs
      <4>6. Legacy(r, Default)' = Legacy(r, Default)
        BY <2>1, SameJson
      <4> QED BY <2>2, <3>1, <4>1, <4>5, <4>6, SavedIs
    <3> QED BY <3>2, <3>3
  <2>8. Saved' = Saved
    BY <2>7, SavedPoints
  <2> QED BY <2>5, <2>6, <2>8
<1>8. CASE AdoptEnd
  <2>1. /\ pc = "adopt" /\ at \notin DOMAIN Moved /\ pc' = "legacy"
        /\ UNCHANGED <<disk, json, shadow, mounted>>
    BY <1>8 DEF AdoptEnd
  <2>2. ASSUME NEW r \in Rows PROVE shadow'[r] = Fresh(r)'
    <3>1. shadow[r] = OnFile(r) /\ OnFile(r)' = OnFile(r)
      BY <1>1, <2>1, BootRam, SameDisk
    <3> QED BY <2>1, <3>1 DEF Fresh
  <2>3. ASSUME NEW g \in Groups, ~Has(g)' PROVE Untaken(g)' /\ Sources(g)' = {}
    <3>1. \A i \in DOMAIN Moved : i \in 1 .. at - 1
      BY <1>1, <1>2, <2>1 DEF PlaceInv
    <3>2. ~Has(g)
      BY <2>1, <2>3, SameDisk
    <3>3. \A i \in DOMAIN Moved : Moved[i].to = g => Sources(g) = {}
      BY <1>1, <2>1, <3>1, <3>2 DEF BootInv
    <3>4. Sources(g) = {}
      BY <3>3 DEF Sources
    <3>5. Untaken(g)
      BY <3>4 DEF Untaken, Sources, Readable
    <3> QED BY <2>1, <3>4, <3>5, SameDisk
  <2>4. BootInv'
    <3>1. mounted'
      BY <1>1, <2>1 DEF BootInv
    <3> QED BY <2>1, <2>2, <2>3, <3>1 DEF BootInv
  <2>5. ServeInv' /\ WipeInv'
    BY <2>1 DEF ServeInv, WipeInv
  <2> QED BY <2>1, <2>4, <2>5, SameSaved
<1> QED BY <1>3, <1>4, <1>5, <1>6, <1>7, <1>8 DEF AdoptNext

\* When a boot ends, every group that has no file has nothing older either,
\* and RAM is what the next boot would find.
LEMMA BootEnds ==
  ASSUME PrefsInv, pc \in {"legacy", "import"}, pc' = "idle", \A g \in Groups : Quiet(g),
         json' \in {json, NoJson}, UNCHANGED <<disk, shadow, mounted>>
  PROVE  BootInv' /\ ServeInv' /\ WipeInv' /\ Saved' = Saved /\ shadow = Saved
<1>1. TypeOK /\ BootInv
  BY DEF PrefsInv
<1>2. /\ \A f : Has(f)' <=> Has(f)
      /\ \A r : OnFile(r)' = OnFile(r)
      /\ \A g : Untaken(g)' <=> Untaken(g)
  BY SameDisk
<1>3. \A g : InJson(g) = {} => InJson(g)' = {}
  <2>1. CASE json' = json
    BY <2>1 DEF InJson
  <2>2. CASE json' = NoJson
    BY <2>2 DEF InJson, NoJson
  <2> QED BY <2>1, <2>2
<1>4. \A g \in Groups : Quiet(g)'
  BY <1>2, <1>3 DEF Quiet
<1>5. \A r \in Rows : shadow[r] = OnFile(r)
  BY <1>1, BootRam
<1>6. \A r \in Rows : Saved[r] = OnFile(r) /\ Saved[r]' = OnFile(r)'
  BY <1>4, QuietSaved, QuietSavedNext, RowFacts
<1>7. Saved' = Saved
  BY <1>2, <1>6, SavedPoints
<1>8. shadow = Saved
  <2>1. shadow = [r \in Rows |-> shadow[r]] /\ Saved = [r \in Rows |-> Saved[r]]
    BY <1>1 DEF TypeOK, Saved
  <2> QED BY <1>5, <1>6, <2>1
<1>9. \A g \in Groups : Settled(g)'
  BY <1>2, <1>4, <1>5, RowFacts DEF Settled
<1> QED BY <1>7, <1>8, <1>9 DEF BootInv, ServeInv, WipeInv, Booting, Serving, Wiping

\* import_legacy and drop_stale_legacy: the legacy file is read for the groups
\* that have nothing else, and goes when every one of them has its file.
LEMMA ImportStep ==
  ASSUME ~BootFails, PrefsInv, ImportNext
  PROVE  /\ BootInv' /\ ServeInv' /\ WipeInv' /\ Saved' = Saved
         /\ pc' = "idle" => mounted' /\ shadow' = Saved
<1> USE DEF Booting, Serving, Wiping
<1>1. TypeOK /\ PlaceInv /\ BootInv
  BY DEF PrefsInv
<1>2. /\ \A j \in DOMAIN Order : Order[j] \in Groups
      /\ \A g \in Groups : \E j \in DOMAIN Order : Order[j] = g
      /\ DOMAIN Order = 1 .. Len(Order) /\ Len(Order) \in Nat
  BY GroupFacts
<1>3. CASE LegacyStale
  <2>1. /\ pc = "legacy" /\ \A g \in Aliased : Has(g)
        /\ json' = NoJson /\ pc' = "idle" /\ UNCHANGED <<disk, shadow, mounted>>
    BY <1>3 DEF LegacyStale
  <2>2. \A g \in Groups : Quiet(g)
    BY <1>1, <2>1, JsonAliased DEF BootInv, Quiet
  <2>3. mounted'
    BY <1>1, <2>1 DEF BootInv
  <2> QED BY <2>1, <2>2, <2>3, BootEnds
<1>4. CASE LegacyMissing
  <2>1. /\ pc = "legacy" /\ pc' = "import" /\ at' = 1
        /\ UNCHANGED <<disk, json, shadow, mounted>>
    BY <1>4 DEF LegacyMissing
  <2>2. ASSUME NEW r \in Rows PROVE shadow'[r] = Fresh(r)'
    <3>1. shadow[r] = OnFile(r) /\ OnFile(r)' = OnFile(r)
      BY <1>1, <2>1, BootRam, SameDisk
    <3> QED BY <2>1, <3>1 DEF Fresh
  <2>3. BootInv'
    <3>1. \A g \in Groups : ~Has(g)' => Untaken(g)' /\ (InJson(g)' # {} => Sources(g)' = {})
      BY <1>1, <2>1, SameDisk, SameJson DEF BootInv
    <3>2. mounted'
      BY <1>1, <2>1 DEF BootInv
    <3> QED BY <2>1, <2>2, <3>1, <3>2 DEF BootInv
  <2>4. ServeInv' /\ WipeInv'
    BY <2>1 DEF ServeInv, WipeInv
  <2> QED BY <2>1, <2>3, <2>4, SameSaved
<1>5. CASE ImportRead
  <2>1. /\ pc = "import" /\ at \in DOMAIN Order /\ ~Has(Here)
        /\ shadow' = [r \in Rows |-> IF r[1] = Here THEN Legacy(r, shadow[r]) ELSE shadow[r]]
        /\ pc' = "import_write" /\ UNCHANGED <<disk, json, mounted, at>>
    BY <1>5 DEF ImportRead
  <2>2. ASSUME NEW r \in Rows PROVE shadow'[r] = Fresh(r)'
    <3>1. /\ shadow[r] = OnFile(r) /\ OnFile(r)' = OnFile(r)
          /\ Legacy(r, Default)' = Legacy(r, Default) /\ Here' = Here
      BY <1>1, <2>1, BootRam, SameDisk, SameJson DEF Here
    <3>2. CASE r[1] = Here
      <4>1. shadow[r] = Default
        BY <2>1, <3>1, <3>2 DEF OnFile
      <4> QED BY <2>1, <3>1, <3>2, <4>1 DEF Fresh
    <3>3. CASE r[1] # Here
      BY <2>1, <3>1, <3>3 DEF Fresh
    <3> QED BY <3>2, <3>3
  <2>3. BootInv'
    <3>1. \A g \in Groups : ~Has(g)' => Untaken(g)' /\ (InJson(g)' # {} => Sources(g)' = {})
      BY <1>1, <2>1, SameDisk, SameJson DEF BootInv
    <3>2. mounted'
      BY <1>1, <2>1 DEF BootInv
    <3>3. \A j \in 1 .. at - 1 : Has(Order[j])' \/ InJson(Order[j])' = {}
      BY <1>1, <2>1, SameDisk, SameJson DEF BootInv
    <3> QED BY <2>1, <2>2, <3>1, <3>2, <3>3 DEF BootInv
  <2>4. ServeInv' /\ WipeInv'
    BY <2>1 DEF ServeInv, WipeInv
  <2> QED BY <2>1, <2>3, <2>4, SameSaved
<1>6. CASE ImportNothing
  <2>1. /\ pc = "import" /\ at \in DOMAIN Order /\ at' = at + 1
        /\ Has(Order[at]) \/ InJson(Order[at]) = {}
        /\ UNCHANGED <<disk, json, shadow, mounted, pc>>
    BY <1>6 DEF ImportNothing, Here
  <2>2. ASSUME NEW r \in Rows PROVE shadow'[r] = Fresh(r)'
    <3>1. shadow[r] = OnFile(r) /\ OnFile(r)' = OnFile(r)
      BY <1>1, <2>1, BootRam, SameDisk
    <3> QED BY <2>1, <3>1 DEF Fresh
  <2>3. BootInv'
    <3>1. \A g \in Groups : ~Has(g)' => Untaken(g)' /\ (InJson(g)' # {} => Sources(g)' = {})
      BY <1>1, <2>1, SameDisk, SameJson DEF BootInv
    <3>2. mounted'
      BY <1>1, <2>1 DEF BootInv
    <3>3. \A j \in 1 .. at' - 1 : Has(Order[j])' \/ InJson(Order[j])' = {}
      <4>1. \A j \in 1 .. at' - 1 : j \in 1 .. at - 1 \/ j = at
        BY <1>2, <2>1
      <4>2. \A j \in 1 .. at - 1 : Has(Order[j]) \/ InJson(Order[j]) = {}
        BY <1>1, <2>1 DEF BootInv
      <4> QED BY <2>1, <4>1, <4>2, SameDisk, SameJson
    <3> QED BY <2>1, <2>2, <3>1, <3>2, <3>3 DEF BootInv
  <2>4. ServeInv' /\ WipeInv'
    BY <2>1 DEF ServeInv, WipeInv
  <2> QED BY <2>1, <2>3, <2>4, SameSaved
<1>7. CASE ImportStage
  <2>1. UNCHANGED <<disk, json, shadow, dirty, pc, at, mounted, keep>> /\ pc = "import_write"
    BY <1>7 DEF ImportStage, job
  <2> QED BY <2>1, SameInv, SameSaved
<1>8. CASE ImportWritten
  <2>0. PICK g \in Groups : g = Here
    BY <1>1, <1>2, <1>8 DEF ImportWritten, PlaceInv, Here
  <2>1. /\ pc = "import_write" /\ pc' = "import" /\ at' = at + 1 /\ at \in DOMAIN Order
        /\ UNCHANGED <<json, shadow, mounted>>
        /\ Renamed(g) /\ ~Has(g) /\ InJson(g) # {}
    BY <1>1, <1>8, <2>0, BootWrites DEF ImportWritten, PlaceInv
  <2>2. Has(g)' /\ \A k \in Keys[g] : Stored(<<g, k>>, Default)' = shadow[<<g, k>>]
    BY <1>1, <2>1, RenamedFacts
  <2>3. \A h \in Groups : h # g => /\ Has(h)' <=> Has(h)
                                   /\ \A k : OnFile(<<h, k>>)' = OnFile(<<h, k>>)
                                   /\ Untaken(h) => Untaken(h)'
    BY <1>1, <2>1, RenamedRest
  <2>4. (\A h : InJson(h)' = InJson(h)) /\ \A r : Legacy(r, Default)' = Legacy(r, Default)
    BY <2>1, SameJson
  <2>5. \A h \in Groups : ~Has(h) => Untaken(h) /\ (InJson(h) # {} => Sources(h) = {})
    BY <1>1, <2>1 DEF BootInv
  <2>6. ASSUME NEW h \in Groups, ~Has(h)'
        PROVE  h # g /\ ~Has(h) /\ Untaken(h)' /\ (InJson(h)' # {} => Sources(h)' = {})
    <3>1. h # g /\ ~Has(h) /\ Untaken(h)'
      BY <2>2, <2>3, <2>5, <2>6
    <3>2. ASSUME InJson(h)' # {} PROVE Sources(h)' = {}
      <4>1. InJson(h) # {}
        BY <2>4, <3>2
      <4>2. h \in Aliased /\ g \in Aliased
        BY <1>1, <2>1, <4>1, JsonAliased
      <4>3. \A i \in DOMAIN Moved : Moved[i].to = h => Moved[i].from # g
        BY <4>2, MovedAssumption
      <4>4. Sources(h)' = Sources(h)
        BY <1>1, <2>1, <4>3, RenamedSources
      <4> QED BY <2>5, <3>1, <4>1, <4>4
    <3> QED BY <3>1, <3>2
  <2>7. ASSUME NEW r \in Rows
        PROVE  /\ shadow[r] = IF r[1] = g THEN Legacy(r, Default) ELSE OnFile(r)
               /\ OnFile(r)' = shadow[r]
    <3>1. shadow[r] = IF r[1] = g THEN Legacy(r, Default) ELSE OnFile(r)
      BY <1>1, <2>0, <2>1 DEF BootInv, Fresh
    <3>2. r[1] \in Groups /\ r[2] \in Keys[r[1]] /\ r = <<r[1], r[2]>>
      BY RowFacts
    <3>3. CASE r[1] = g
      <4>1. Stored(r, Default)' = shadow[r]
        BY <2>2, <3>2, <3>3
      <4> QED BY <2>2, <3>1, <3>3, <4>1 DEF OnFile
    <3>4. CASE r[1] # g
      BY <2>3, <3>1, <3>2, <3>4
    <3> QED BY <3>1, <3>3, <3>4
  <2>8. BootInv'
    <3>1. \A r \in Rows : shadow'[r] = Fresh(r)'
      BY <2>1, <2>7 DEF Fresh
    <3>2. mounted'
      BY <1>1, <2>1 DEF BootInv
    <3>3. \A j \in 1 .. at' - 1 : Has(Order[j])' \/ InJson(Order[j])' = {}
      <4>1. \A j \in 1 .. at' - 1 : j \in 1 .. at - 1 \/ j = at
        BY <1>2, <2>1
      <4>2. \A j \in 1 .. at - 1 : Has(Order[j]) \/ InJson(Order[j]) = {}
        BY <1>1, <2>1 DEF BootInv
      <4>3. \A j \in 1 .. at - 1 : Order[j] \in Groups
        BY <1>2, <2>1
      <4>4. Order[at] = g
        BY <2>0 DEF Here
      <4> QED BY <2>2, <2>3, <2>4, <4>1, <4>2, <4>3, <4>4
    <3> QED BY <2>1, <2>6, <3>1, <3>2, <3>3 DEF BootInv
  <2>9. ServeInv' /\ WipeInv'
    BY <2>1 DEF ServeInv, WipeInv
  <2>10. ASSUME NEW r \in Rows PROVE Saved[r]' = Saved[r]
    <3>1. r[1] \in Groups
      BY RowFacts
    <3>2. ASSUME Has(r[1])' PROVE Saved[r]' = OnFile(r)'
      <4>1. Quiet(r[1])'
        BY <3>2 DEF Quiet
      <4> QED BY <4>1, QuietSavedNext
    <3>3. CASE r[1] = g
      <4>1. Saved[r]' = Legacy(r, Default)
        BY <2>2, <2>7, <3>2, <3>3
      <4>2. Saved[r] = Legacy(r, Default)
        BY <2>1, <2>5, <3>3, UntakenSaved
      <4> QED BY <4>1, <4>2
    <3>4. CASE r[1] # g /\ Has(r[1])
      <4>1. Saved[r] = OnFile(r)
        BY <3>4, QuietSaved DEF Quiet
      <4> QED BY <2>3, <2>7, <3>1, <3>2, <3>4, <4>1
    <3>5. CASE r[1] # g /\ ~Has(r[1])
      <4>1. ~Has(r[1])'
        BY <2>3, <3>1, <3>5
      <4>2. Saved[r]' = Legacy(r, Default)'
        BY <2>6, <3>1, <4>1, UntakenSavedNext
      <4>3. Saved[r] = Legacy(r, Default)
        BY <2>5, <3>1, <3>5, UntakenSaved
      <4> QED BY <2>4, <4>2, <4>3
    <3> QED BY <3>3, <3>4, <3>5
  <2>11. Saved' = Saved
    BY <2>10, SavedPoints
  <2> QED BY <2>1, <2>8, <2>9, <2>11
<1>9. CASE ImportEnd
  <2>1. /\ pc = "import" /\ at \notin DOMAIN Order /\ pc' = "idle"
        /\ json' \in {json, NoJson} /\ UNCHANGED <<disk, shadow, mounted>>
    BY <1>9 DEF ImportEnd
  <2>2. \A j \in DOMAIN Order : Has(Order[j]) \/ InJson(Order[j]) = {}
    <3>1. \A j \in DOMAIN Order : j \in 1 .. at - 1
      BY <1>1, <1>2, <2>1 DEF PlaceInv
    <3> QED BY <1>1, <2>1, <3>1 DEF BootInv
  <2>3. \A g \in Groups : Quiet(g)
    BY <1>1, <1>2, <2>1, <2>2 DEF BootInv, Quiet
  <2>4. mounted'
    BY <1>1, <2>1 DEF BootInv
  <2> QED BY <2>1, <2>3, <2>4, BootEnds
<1> QED BY <1>3, <1>4, <1>5, <1>6, <1>7, <1>8, <1>9 DEF ImportNext

----------------------------------------------------------------------------
(* The handlers                                                            *)

\* commit() puts a dirty group on file, as RAM has it, and no other.
LEMMA CommitSaves ==
  ASSUME PrefsInv, CommitWritten
  PROVE  /\ BootInv' /\ ServeInv' /\ WipeInv'
         /\ mounted /\ Here \in Groups
         /\ \A r \in Rows : Saved[r]' = IF r[1] = Here THEN shadow[r] ELSE Saved[r]
<1> USE DEF Booting, Serving, Wiping
<1>1. TypeOK /\ PlaceInv /\ ServeInv
  BY DEF PrefsInv
<1>2. PICK g \in Groups : g = Here
  BY GroupFacts DEF CommitWritten, Here
<1>3. /\ pc = "commit" /\ pc' = "commit" /\ Renamed(g) /\ dirty' = dirty \ {g}
      /\ UNCHANGED <<json, shadow, mounted>>
  BY <1>2 DEF CommitWritten
<1>4. mounted
  BY <1>1, <1>3 DEF PlaceInv, Renamed
<1>5. \A h \in Groups : Settled(h)
  BY <1>1, <1>3, <1>4 DEF ServeInv
<1>6. /\ Has(g)' /\ \A k \in Keys[g] : OnFile(<<g, k>>)' = shadow[<<g, k>>]
  <2>1. Has(g)' /\ \A k \in Keys[g] : Stored(<<g, k>>, Default)' = shadow[<<g, k>>]
    BY <1>1, <1>3, RenamedFacts
  <2> QED BY <2>1 DEF OnFile
<1>7. ASSUME NEW h \in Groups, h # g
      PROVE  Quiet(h)' /\ \A k : OnFile(<<h, k>>)' = OnFile(<<h, k>>)
  <2>1. /\ Has(h)' <=> Has(h)
        /\ \A k : OnFile(<<h, k>>)' = OnFile(<<h, k>>)
        /\ Untaken(h) => Untaken(h)'
    BY <1>1, <1>3, <1>7, RenamedRest
  <2> QED BY <1>3, <1>5, <2>1, SameJson DEF Settled, Quiet
<1>8. \A h \in Groups : Quiet(h)'
  BY <1>6, <1>7 DEF Quiet
<1>9. ASSUME NEW h \in Groups PROVE Settled(h)'
  <2>1. CASE h = g
    BY <1>3, <1>6, <1>8, <2>1 DEF Settled
  <2>2. CASE h # g
    BY <1>3, <1>5, <1>7, <1>8, <2>2 DEF Settled
  <2> QED BY <2>1, <2>2
<1>10. ASSUME NEW r \in Rows PROVE Saved[r]' = IF r[1] = g THEN shadow[r] ELSE Saved[r]
  <2>1. r[1] \in Groups /\ r[2] \in Keys[r[1]] /\ r = <<r[1], r[2]>>
    BY RowFacts
  <2>2. Saved[r]' = OnFile(r)'
    BY <1>8, <2>1, QuietSavedNext
  <2>3. Saved[r] = OnFile(r)
    BY <1>5, <2>1, QuietSaved DEF Settled
  <2>4. CASE r[1] = g
    BY <1>6, <2>1, <2>2, <2>4
  <2>5. CASE r[1] # g
    BY <1>7, <2>1, <2>2, <2>3, <2>5
  <2> QED BY <2>4, <2>5
<1> QED BY <1>2, <1>3, <1>4, <1>9, <1>10 DEF BootInv, ServeInv, WipeInv

\* The handlers leave no change in RAM but in a dirty group.
LEMMA ServeStep ==
  ASSUME ~LegacyKept, PrefsInv, ServeNext
  PROVE  /\ BootInv' /\ ServeInv' /\ WipeInv'
         /\ CommitWritten \/ Saved' = Saved
<1> USE DEF Booting, Serving, Wiping
<1>1. TypeOK /\ ServeInv
  BY DEF PrefsInv
<1>2. ASSUME NEW m, NEW k, NEW v \in Values, Put(m, k, v)
      PROVE  BootInv' /\ ServeInv' /\ WipeInv' /\ Saved' = Saved
  <2>1. /\ pc \in {"idle", "form"} /\ pc' = "form"
        /\ UNCHANGED <<disk, json, mounted>>
    BY <1>2 DEF Put
  <2>2. PICK r \in Rows : /\ shadow' = [shadow EXCEPT ![r] = v]
                          /\ IF v = shadow[r] THEN dirty' = dirty
                             ELSE dirty' = dirty \cup {r[1]}
    BY <1>2, TargetRows DEF Put
  <2>3. ASSUME NEW g \in Groups, mounted PROVE Settled(g)'
    <3>1. Settled(g)
      BY <1>1, <2>1, <2>3 DEF ServeInv
    <3>2. Quiet(g)'
      BY <2>1, <3>1, SameDisk, SameJson DEF Settled, Quiet
    <3>3. ASSUME g \notin dirty', NEW j \in Keys[g] PROVE shadow'[<<g, j>>] = OnFile(<<g, j>>)'
      <4>1. g \notin dirty /\ (g = r[1] => v = shadow[r])
        BY <2>2, <3>3
      <4>2. <<g, j>> \in Rows /\ shadow \in [Rows -> Values]
        BY <1>1, RowFacts DEF TypeOK
      <4>3. shadow'[<<g, j>>] = shadow[<<g, j>>]
        <5>1. CASE <<g, j>> = r
          BY <2>2, <4>1, <4>2, <5>1
        <5>2. CASE <<g, j>> # r
          BY <2>2, <4>2, <5>2
        <5> QED BY <5>1, <5>2
      <4>4. OnFile(<<g, j>>)' = OnFile(<<g, j>>)
        BY <2>1, SameDisk
      <4> QED BY <3>1, <4>1, <4>3, <4>4 DEF Settled
    <3> QED BY <3>2, <3>3 DEF Settled
  <2> QED BY <2>1, <2>3, SameSaved DEF BootInv, ServeInv, WipeInv
<1>3. CASE \/ \E callbacks \in BOOLEAN : Commit(callbacks)
           \/ CommitClean \/ CommitStage \/ CommitNotWritten \/ CommitEnd
  <2>1. /\ pc \in {"form", "commit"} /\ pc' \in {"commit", "idle"}
        /\ UNCHANGED <<disk, json, shadow, dirty, mounted>>
    BY <1>3 DEF Commit, CommitClean, CommitStage, CommitNotWritten, CommitEnd, NotWritten
  <2>2. ASSUME NEW g \in Groups, mounted PROVE Settled(g)'
    BY <1>1, <2>1, <2>2, SameDisk, SameJson DEF ServeInv, Settled, Quiet
  <2> QED BY <2>1, <2>2, SameSaved DEF BootInv, ServeInv, WipeInv
<1>4. CASE CommitWritten
  BY <1>4, CommitSaves
<1>5. ASSUME NEW keep_network \in BOOLEAN, ResetAll(keep_network)
      PROVE  BootInv' /\ ServeInv' /\ WipeInv' /\ Saved' = Saved
  <2>1. /\ pc = "idle" /\ pc' = "reset" /\ at' = 1 /\ (keep' => json = NoJson)
        /\ UNCHANGED <<disk, json, shadow, dirty, mounted>>
    BY <1>5 DEF ResetAll
  <2>2. ASSUME NEW g \in Groups, mounted PROVE Settled(g)'
    BY <1>1, <2>1, <2>2, SameDisk, SameJson DEF ServeInv, Settled, Quiet
  <2>3. WipeInv'
    BY <2>1, <2>2 DEF WipeInv
  <2> QED BY <2>1, <2>3, SameSaved DEF BootInv, ServeInv
<1> QED BY <1>2, <1>3, <1>4, <1>5 DEF ServeNext

----------------------------------------------------------------------------
(* A reset                                                                 *)

\* A group that is erased, and has nothing older, is settled on its defaults.
LEMMA ErasedSettled ==
  mounted /\ (\A i \in DOMAIN Moved : ~Has(Moved[i].from))
    => \A g \in Groups : Erased(g) /\ InJson(g) = {} =>
         Settled(g) /\ \A k \in Keys[g] : OnFile(<<g, k>>) = Default
BY DEF Erased, Settled, Quiet, Untaken, Readable, OnFile

LEMMA ErasedSettledNext ==
  mounted' /\ (\A i \in DOMAIN Moved : ~Has(Moved[i].from)')
    => \A g \in Groups : Erased(g)' /\ InJson(g)' = {} =>
         Settled(g)' /\ \A k \in Keys[g] : OnFile(<<g, k>>)' = Default
<1>1. (mounted /\ (\A i \in DOMAIN Moved : ~Has(Moved[i].from))
         => \A g \in Groups : Erased(g) /\ InJson(g) = {} =>
              Settled(g) /\ \A k \in Keys[g] : OnFile(<<g, k>>) = Default)'
  BY ErasedSettled, PTL
<1> QED BY <1>1

\* Without a legacy file no row comes from it.
LEMMA NoLegacy == json = NoJson => \A g : InJson(g) = {}
BY DEF InJson, NoJson

LEMMA NoLegacyNext == json' = NoJson => \A g : InJson(g)' = {}
<1>1. (json = NoJson => \A g : InJson(g) = {})'
  BY NoLegacy, PTL
<1> QED BY <1>1

\* What a reset does to one group or to one old file: the spared groups keep
\* their file and their rows, and an erased one stays erased.
LEMMA Removes ==
  ASSUME PrefsInv, pc \in {"reset", "drop"}, pc' = pc, UNCHANGED <<json, mounted, keep>>,
         NEW h, disk' = IF mounted THEN Without(h) ELSE disk,
         NEW g \in Groups, g # h, g \notin dirty' => g \notin dirty,
         \A k \in Keys[g] : shadow'[<<g, k>>] = shadow[<<g, k>>]
  PROVE  /\ Spared(g) /\ mounted => Settled(g)'
         /\ Spared(g) => \A r \in Rows : r[1] = g => Saved[r]' = Saved[r]
         /\ Erased(g) => Erased(g)'
<1>1. WipeInv
  BY DEF PrefsInv
<1>2. ASSUME Spared(g), mounted
      PROVE  Settled(g) /\ Settled(g)' /\ \A k : OnFile(<<g, k>>)' = OnFile(<<g, k>>)
  <2>1. Settled(g)
    BY <1>1, <1>2 DEF WipeInv, Wiping
  <2>2. disk' = Without(h)
    BY <1>2
  <2> QED BY <2>1, <2>2, WithoutRest
<1>3. ASSUME Spared(g), NEW r \in Rows, r[1] = g PROVE Saved[r]' = Saved[r]
  <2>1. CASE mounted
    <3>1. Quiet(g) /\ Quiet(g)' /\ OnFile(r)' = OnFile(r)
      BY <1>2, <1>3, <2>1, RowFacts DEF Settled
    <3> QED BY <1>3, <3>1, QuietSaved, QuietSavedNext
  <2>2. CASE ~mounted
    <3>1. UNCHANGED <<disk, json>>
      BY <2>2
    <3>2. Saved' = Saved
      BY <3>1, SameSaved
    <3> QED BY <3>2
  <2> QED BY <2>1, <2>2
<1>4. ASSUME Erased(g) PROVE Erased(g)'
  <2>1. mounted => (Has(g)' <=> Has(g))
    <3> SUFFICES ASSUME mounted PROVE Has(g)' <=> Has(g)
      OBVIOUS
    <3>1. disk' = Without(h)
      OBVIOUS
    <3> QED BY <3>1, WithoutFacts
  <2> QED BY <1>4, <2>1 DEF Erased
<1> QED BY <1>2, <1>3, <1>4

\* reset_all and drop_moved for one group, or one old file, of those they erase.
LEMMA ResetGroupStep ==
  ASSUME PrefsInv, ResetGroup
  PROVE  /\ WipeInv'
         /\ mounted \/ Saved' = Saved
         /\ \A r \in Rows : Spared(r[1]) => Saved[r]' = Saved[r] /\ shadow'[r] = shadow[r]
<1>1. TypeOK /\ PlaceInv /\ WipeInv
  BY DEF PrefsInv
<1>2. PICK g \in Groups : g = Here
  BY GroupFacts DEF ResetGroup, Here
<1>3. /\ pc = "reset" /\ pc' = "reset" /\ at \in DOMAIN Order /\ at' = at + 1
      /\ UNCHANGED <<json, mounted, keep>> /\ g = Order[at]
  BY <1>2 DEF ResetGroup, job, Here
<1>4. /\ \A j \in DOMAIN Order : Order[j] \in Groups
      /\ DOMAIN Order = 1 .. Len(Order) /\ Len(Order) \in Nat
  BY GroupFacts
<1>5. /\ mounted => \A h \in Groups : Spared(h) => Settled(h)
      /\ \A j \in 1 .. at - 1 : Order[j] \in Groups /\ (Spared(Order[j]) \/ Erased(Order[j]))
      /\ keep => json = NoJson
  BY <1>1, <1>3, <1>4 DEF WipeInv, Wiping
<1>6. \A j \in 1 .. at' - 1 : j \in 1 .. at - 1 \/ j = at
  BY <1>3, <1>4
<1>7. \A h : Spared(h)' <=> Spared(h)
  BY <1>3 DEF Spared
<1>8. CASE Spared(g)
  <2>1. UNCHANGED <<disk, shadow, dirty>>
    BY <1>2, <1>8 DEF ResetGroup, Spared
  <2>2. \A h : (Settled(h)' <=> Settled(h)) /\ (Erased(h)' <=> Erased(h))
    BY <1>3, <2>1, SameDisk, SameJson DEF Settled, Quiet, Erased
  <2>3. WipeInv'
    BY <1>3, <1>5, <1>6, <1>7, <1>8, <2>2 DEF WipeInv, Wiping
  <2>4. Saved' = Saved
    BY <1>3, <2>1, SameSaved
  <2> QED BY <2>1, <2>3, <2>4
<1>9. CASE ~Spared(g)
  <2>1. /\ disk' = IF mounted THEN Without(g) ELSE disk
        /\ shadow' = [r \in Rows |-> IF r[1] = g /\ ~(keep /\ r = PassRow)
                                       THEN Default ELSE shadow[r]]
        /\ dirty' = IF keep /\ g = PassRow[1] THEN dirty \cup {g} ELSE dirty \ {g}
    BY <1>2, <1>9 DEF ResetGroup, Spared
  <2>2. Erased(g)'
    <3>1. mounted => ~Has(g)'
      <4> SUFFICES ASSUME mounted PROVE ~Has(g)'
        OBVIOUS
      <4>1. disk' = Without(g)
        BY <2>1
      <4> QED BY <4>1, WithoutFacts
    <3>2. ASSUME g \notin dirty', NEW k \in Keys[g] PROVE shadow'[<<g, k>>] = Default
      <4>1. ~(keep /\ g = PassRow[1])
        BY <2>1, <3>2
      <4>2. <<g, k>> \in Rows
        BY RowFacts
      <4>3. <<g, k>> = PassRow => g = PassRow[1]
        OBVIOUS
      <4> QED BY <2>1, <4>1, <4>2, <4>3
    <3> QED BY <1>3, <3>1, <3>2 DEF Erased
  <2>3. ASSUME NEW h \in Groups, h # g
        PROVE  /\ Spared(h) /\ mounted => Settled(h)'
               /\ Spared(h) => \A r \in Rows : r[1] = h => Saved[r]' = Saved[r]
               /\ Erased(h) => Erased(h)'
    <3>1. h \notin dirty' => h \notin dirty
      BY <2>1, <2>3
    <3>2. \A k \in Keys[h] : shadow'[<<h, k>>] = shadow[<<h, k>>]
      BY <2>1, <2>3, RowFacts
    <3> QED BY <1>3, <2>1, <2>3, <3>1, <3>2, Removes
  <2>4. WipeInv'
    <3>1. \A j \in 1 .. at' - 1 : Spared(Order[j])' \/ Erased(Order[j])'
      BY <1>3, <1>5, <1>6, <1>7, <2>2, <2>3
    <3>2. mounted => \A h \in Groups : Spared(h) => Settled(h)'
      BY <1>9, <2>3
    <3> QED BY <1>3, <1>5, <1>7, <3>1, <3>2 DEF WipeInv, Wiping
  <2>5. mounted \/ Saved' = Saved
    BY <1>3, <2>1, SameSaved
  <2>6. ASSUME NEW r \in Rows, Spared(r[1]) PROVE Saved[r]' = Saved[r] /\ shadow'[r] = shadow[r]
    <3>1. r[1] \in Groups /\ r[1] # g
      BY <1>9, <2>6, RowFacts
    <3> QED BY <2>1, <2>3, <2>6, <3>1
  <2> QED BY <2>4, <2>5, <2>6
<1> QED BY <1>8, <1>9

LEMMA DropMovedStep ==
  ASSUME PrefsInv, DropMoved
  PROVE  /\ WipeInv'
         /\ mounted \/ Saved' = Saved
         /\ \A r \in Rows : Spared(r[1]) => Saved[r]' = Saved[r] /\ shadow'[r] = shadow[r]
<1>1. TypeOK /\ PlaceInv /\ WipeInv
  BY DEF PrefsInv
<1>2. PICK f \in OldGroups : f = Moved[at].from
  BY GroupFacts DEF DropMoved
<1>3. /\ pc = "drop" /\ pc' = "drop" /\ at \in DOMAIN Moved /\ at' = at + 1
      /\ UNCHANGED <<json, shadow, dirty, mounted, keep>>
      /\ disk' = IF mounted THEN Without(f) ELSE disk
  BY <1>2 DEF DropMoved, job
<1>4. DOMAIN Moved = 1 .. Len(Moved) /\ Len(Moved) \in Nat
  BY GroupFacts
<1>5. /\ mounted => \A h \in Groups : Spared(h) => Settled(h)
      /\ \A g \in Groups : Spared(g) \/ Erased(g)
      /\ mounted => \A i \in 1 .. at - 1 : ~Has(Moved[i].from)
      /\ keep => json = NoJson
  BY <1>1, <1>3 DEF WipeInv, Wiping
<1>6. \A i \in 1 .. at' - 1 : i \in 1 .. at - 1 \/ i = at
  BY <1>3, <1>4
<1>7. \A h : Spared(h)' <=> Spared(h)
  BY <1>3 DEF Spared
<1>8. mounted => ~Has(f)' /\ \A h : h # f => (Has(h)' <=> Has(h))
  <2> SUFFICES ASSUME mounted PROVE ~Has(f)' /\ \A h : h # f => (Has(h)' <=> Has(h))
    OBVIOUS
  <2>1. disk' = Without(f)
    BY <1>3
  <2> QED BY <2>1, WithoutFacts
<1>9. ASSUME NEW g \in Groups, g # f
      PROVE  /\ Spared(g) /\ mounted => Settled(g)'
             /\ Spared(g) => \A r \in Rows : r[1] = g => Saved[r]' = Saved[r]
             /\ Erased(g) => Erased(g)'
  BY <1>1, <1>3, <1>9, Removes
<1>10. \A g \in Groups : Spared(g) => g # f
  BY MovedAssumption DEF Spared
<1>11. ASSUME NEW g \in Groups, ~Spared(g) PROVE Erased(g)'
  <2>1. CASE g = f
    BY <1>3, <1>5, <1>8, <1>11, <2>1 DEF Erased
  <2>2. CASE g # f
    BY <1>5, <1>9, <1>11, <2>2
  <2> QED BY <2>1, <2>2
<1>12. mounted => \A i \in 1 .. at' - 1 : ~Has(Moved[i].from)'
  BY <1>2, <1>5, <1>6, <1>8
<1>13. WipeInv'
  <2>1. mounted => \A h \in Groups : Spared(h) => Settled(h)'
    BY <1>9, <1>10
  <2> QED BY <1>3, <1>5, <1>7, <1>11, <1>12, <2>1 DEF WipeInv, Wiping
<1>14. mounted \/ Saved' = Saved
  BY <1>3, SameSaved
<1> QED BY <1>3, <1>9, <1>10, <1>13, <1>14, RowFacts

\* The steps of a reset: one that ends it leaves defaults for the next boot.
LEMMA WipeStep ==
  ASSUME PrefsInv, WipeNext
  PROVE  /\ BootInv' /\ ServeInv' /\ WipeInv'
         /\ ResetGroups \/ (Dropped /\ ~keep) => Saved' = Saved
         /\ (Dropped /\ keep) \/ RemoveLegacy =>
              \A r \in Rows :
                Saved[r]' = IF mounted /\ ~Spared(r[1]) THEN Default ELSE Saved[r]
<1> USE DEF Booting, Serving, Wiping
<1>1. TypeOK /\ PlaceInv /\ WipeInv
  BY DEF PrefsInv
<1>2. /\ \A g \in Groups : \E j \in DOMAIN Order : Order[j] = g
      /\ DOMAIN Order = 1 .. Len(Order) /\ Len(Order) \in Nat
      /\ DOMAIN Moved = 1 .. Len(Moved) /\ Len(Moved) \in Nat
  BY GroupFacts
<1>3. CASE ResetGroup
  <2>1. pc' = "reset"
    BY <1>3 DEF ResetGroup
  <2>2. ~ResetGroups /\ ~Dropped /\ ~RemoveLegacy
    BY <1>3 DEF ResetGroup, ResetGroups, Dropped, RemoveLegacy
  <2> QED BY <1>3, <2>1, <2>2, ResetGroupStep DEF BootInv, ServeInv
<1>4. CASE ResetGroups
  <2>1. /\ pc = "reset" /\ pc' = "drop" /\ at \notin DOMAIN Order /\ at' = 1
        /\ UNCHANGED <<disk, json, shadow, dirty, mounted, keep>>
    BY <1>4 DEF ResetGroups, job
  <2>2. \A h : (Settled(h)' <=> Settled(h)) /\ (Erased(h)' <=> Erased(h)) /\ (Spared(h)' <=> Spared(h))
    BY <2>1, SameDisk, SameJson DEF Settled, Quiet, Erased, Spared
  <2>3. \A g \in Groups : Spared(g) \/ Erased(g)
    <3>1. \A j \in DOMAIN Order : j \in 1 .. at - 1
      BY <1>1, <1>2, <2>1 DEF PlaceInv
    <3> QED BY <1>1, <1>2, <2>1, <3>1 DEF WipeInv
  <2>4. WipeInv'
    BY <1>1, <2>1, <2>2, <2>3 DEF WipeInv
  <2>5. ~Dropped /\ ~RemoveLegacy
    BY <2>1 DEF Dropped, RemoveLegacy
  <2> QED BY <2>1, <2>4, <2>5, SameSaved DEF BootInv, ServeInv
<1>5. CASE DropMoved
  <2>1. pc' = "drop"
    BY <1>5 DEF DropMoved
  <2>2. ~ResetGroups /\ ~Dropped /\ ~RemoveLegacy
    BY <1>5 DEF DropMoved, ResetGroups, Dropped, RemoveLegacy
  <2> QED BY <1>5, <2>1, <2>2, DropMovedStep DEF BootInv, ServeInv
<1>6. CASE Dropped
  <2>1. /\ pc = "drop" /\ pc' = (IF keep THEN "form" ELSE "unlegacy")
        /\ at \notin DOMAIN Moved
        /\ UNCHANGED <<disk, json, shadow, dirty, mounted, keep>>
    BY <1>6 DEF Dropped, job
  <2>2. /\ mounted => \A i \in DOMAIN Moved : ~Has(Moved[i].from)
        /\ mounted => \A g \in Groups : Spared(g) => Settled(g)
        /\ \A g \in Groups : Spared(g) \/ Erased(g)
        /\ keep => json = NoJson
    <3>1. \A i \in DOMAIN Moved : i \in 1 .. at - 1
      BY <1>1, <1>2, <2>1 DEF PlaceInv
    <3> QED BY <1>1, <2>1, <3>1 DEF WipeInv
  <2>3. \A h : (Settled(h)' <=> Settled(h)) /\ (Erased(h)' <=> Erased(h)) /\ (Spared(h)' <=> Spared(h))
    BY <2>1, SameDisk, SameJson DEF Settled, Quiet, Erased, Spared
  <2>4. Saved' = Saved
    BY <2>1, SameSaved
  <2>5. ~ResetGroups /\ ~RemoveLegacy
    BY <2>1 DEF ResetGroups, RemoveLegacy
  <2>6. CASE keep
    <3>1. ASSUME mounted, NEW g \in Groups, ~Spared(g)
          PROVE  Settled(g) /\ \A k \in Keys[g] : OnFile(<<g, k>>) = Default
      BY <2>2, <2>6, <3>1, ErasedSettled, NoLegacy
    <3>2. ServeInv'
      BY <2>1, <2>2, <2>3, <3>1 DEF ServeInv
    <3>3. ASSUME mounted, NEW r \in Rows, ~Spared(r[1]) PROVE Saved[r] = Default
      BY <3>1, <3>3, RowFacts, QuietSaved DEF Settled
    <3> QED BY <2>1, <2>4, <2>5, <2>6, <3>2, <3>3 DEF BootInv, WipeInv
  <2>7. CASE ~keep
    <3>1. WipeInv'
      BY <2>1, <2>2, <2>3, <2>7, SameDisk DEF WipeInv
    <3> QED BY <2>1, <2>4, <2>5, <2>7, <3>1 DEF BootInv, ServeInv
  <2> QED BY <2>6, <2>7
<1>7. CASE RemoveLegacy
  <2>1. /\ pc = "unlegacy" /\ pc' = "idle" /\ json' = (IF mounted THEN NoJson ELSE json)
        /\ UNCHANGED <<disk, shadow, dirty, mounted, keep>>
    BY <1>7 DEF RemoveLegacy, job
  <2>2. /\ mounted => \A i \in DOMAIN Moved : ~Has(Moved[i].from)
        /\ \A g \in Groups : ~Spared(g) /\ Erased(g)
    BY <1>1, <2>1 DEF WipeInv, PlaceInv, Spared
  <2>3. \A g \in Groups : Erased(g)'
    BY <2>1, <2>2, SameDisk DEF Erased
  <2>4. ASSUME mounted, NEW g \in Groups
        PROVE  Settled(g)' /\ \A k \in Keys[g] : OnFile(<<g, k>>)' = Default
    <3>1. mounted' /\ (\A i \in DOMAIN Moved : ~Has(Moved[i].from)') /\ InJson(g)' = {}
      BY <2>1, <2>2, <2>4, SameDisk, NoLegacyNext
    <3> QED BY <2>3, <3>1, ErasedSettledNext
  <2>5. ServeInv'
    BY <2>1, <2>4 DEF ServeInv
  <2>6. ASSUME NEW r \in Rows
        PROVE  Saved[r]' = IF mounted /\ ~Spared(r[1]) THEN Default ELSE Saved[r]
    <3>1. CASE mounted
      BY <2>2, <2>4, <3>1, RowFacts, QuietSavedNext DEF Settled
    <3>2. CASE ~mounted
      <4>1. UNCHANGED <<disk, json>>
        BY <2>1, <3>2
      <4>2. Saved' = Saved
        BY <4>1, SameSaved
      <4> QED BY <3>2, <4>2
    <3> QED BY <3>1, <3>2
  <2>7. ~ResetGroups /\ ~Dropped
    BY <2>1 DEF ResetGroups, Dropped
  <2> QED BY <2>1, <2>5, <2>6, <2>7 DEF BootInv, WipeInv
<1> QED BY <1>3, <1>4, <1>5, <1>6, <1>7 DEF WipeNext

----------------------------------------------------------------------------
(* The invariant                                                           *)

LEMMA InvInit == Init => PrefsInv
<1> SUFFICES ASSUME Init PROVE PrefsInv
  OBVIOUS
<1>1. PICK old \in OldStores : disk = old.disk /\ json = old.json
  BY DEF Init
<1>2. /\ DOMAIN disk \subseteq Groups \cup OldGroups
      /\ \A f \in DOMAIN disk : \A k \in DOMAIN disk[f] : disk[f][k] \in Values \cup {Bad}
      /\ DOMAIN json \subseteq Aliases
      /\ \A r \in DOMAIN json : json[r] \in Values \cup {Bad}
  BY <1>1, StoreAssumption
<1>3. Len(Order) \in Nat /\ Len(Moved) \in Nat
  BY GroupFacts
<1>4. shadow \in [Rows -> Values]
  BY ValueAssumption DEF Init, Defaults
<1>5. TypeOK
  <2>1. at \in 1 .. (Len(Order) + Len(Moved) + 1)
    BY <1>3 DEF Init
  <2>2. /\ dirty \subseteq Groups /\ pc = "off"
        /\ restart_pending \in BOOLEAN /\ reboot_put \in BOOLEAN /\ mounted \in BOOLEAN
        /\ staged \in BOOLEAN /\ imported \in BOOLEAN /\ keep \in BOOLEAN
        /\ fire \in BOOLEAN /\ failed \in BOOLEAN
    BY DEF Init
  <2> QED BY <1>2, <1>4, <2>1, <2>2 DEF TypeOK
<1>6. PlaceInv /\ BootInv /\ ServeInv /\ WipeInv
  BY DEF Init, PlaceInv, BootInv, ServeInv, WipeInv, Booting, Serving, Wiping
<1> QED BY <1>5, <1>6 DEF PrefsInv

LEMMA InvNext ==
  ~BootFails /\ ~LegacyKept /\ PrefsInv /\ [Next]_vars => PrefsInv'
<1> SUFFICES ASSUME ~BootFails, ~LegacyKept, PrefsInv, [Next]_vars PROVE PrefsInv'
  OBVIOUS
<1>1. TypeOK' /\ PlaceInv'
  BY TypeStep
<1>2. CASE AdoptNext
  BY <1>1, <1>2, AdoptStep DEF PrefsInv
<1>3. CASE ImportNext
  BY <1>1, <1>3, ImportStep DEF PrefsInv
<1>4. CASE ServeNext
  BY <1>1, <1>4, ServeStep DEF PrefsInv
<1>5. CASE WipeNext
  BY <1>1, <1>5, WipeStep DEF PrefsInv
<1>6. CASE PowerCut
  <2>1. pc' = "off"
    BY <1>6 DEF PowerCut
  <2> QED BY <1>1, <2>1 DEF PrefsInv, BootInv, ServeInv, WipeInv, Booting, Serving, Wiping
<1>7. CASE UNCHANGED vars
  <2>1. UNCHANGED <<disk, json, shadow, dirty, pc, at, mounted, keep>>
    BY <1>7 DEF vars
  <2> QED BY <1>1, <2>1, SameInv DEF PrefsInv
<1> QED BY <1>2, <1>3, <1>4, <1>5, <1>6, <1>7, NextIs

LEMMA InvSound == PrefsInv => StoreIsSound
<1> SUFFICES ASSUME PrefsInv PROVE StoreIsSound
  OBVIOUS
<1>1. ASSUME pc = "idle", mounted, NEW r \in Rows, r[1] \notin dirty PROVE shadow[r] = Saved[r]
  <2>1. r[1] \in Groups /\ r[2] \in Keys[r[1]] /\ r = <<r[1], r[2]>>
    BY RowFacts
  <2>2. Settled(r[1])
    BY <1>1, <2>1 DEF PrefsInv, ServeInv, Serving
  <2>3. shadow[r] = OnFile(r)
    BY <1>1, <2>1, <2>2 DEF Settled
  <2> QED BY <2>2, <2>3, QuietSaved DEF Settled
<1> QED BY <1>1 DEF StoreIsSound, CleanIsSaved, PrefsInv

\* Where a boot writes what it moves and no import comes while a legacy file
\* is left, the invariant holds: the store is well formed, and what RAM has
\* and the next boot would not find is in a group that commit() will write.
THEOREM PrefsInductive == ASSUME ~BootFails, ~LegacyKept PROVE Spec => []PrefsInv
<1>1. Init => PrefsInv
  BY InvInit
<1>2. PrefsInv /\ [Next]_vars => PrefsInv'
  BY InvNext
<1> QED BY <1>1, <1>2, PTL DEF Spec

THEOREM StoreForAll == ASSUME ~BootFails, ~LegacyKept PROVE Spec => []StoreIsSound
<1>1. Spec => []PrefsInv
  BY PrefsInductive
<1>2. PrefsInv => StoreIsSound
  BY InvSound
<1> QED BY <1>1, <1>2, PTL

----------------------------------------------------------------------------
(* The refinement: what each step is to Settings                           *)

LEMMA PhaseIs ==
  /\ pc \in {"off", "adopt", "adopt_write", "legacy", "import", "import_write"} => Phase = "off"
  /\ pc \in {"idle", "form", "commit"} => Phase = "on"
  /\ pc \in {"reset", "drop", "unlegacy"} => Phase = "wipe"
BY DEF Phase

LEMMA PhaseNext ==
  /\ pc' \in {"off", "adopt", "adopt_write", "legacy", "import", "import_write"} => Phase' = "off"
  /\ pc' \in {"idle", "form", "commit"} => Phase' = "on"
  /\ pc' \in {"reset", "drop", "unlegacy"} => Phase' = "wipe"
BY DEF Phase

\* The rows of Settings are those of the preferences.
LEMMA StoreRows == Store!Rows = Rows /\ Store!Defaults = Defaults
BY DEF Store!Rows, Store!Defaults, Rows, Defaults

LEMMA SavedTypeNext == TypeOK' => Saved' \in [Rows -> Values]
<1>1. (TypeOK => Saved \in [Rows -> Values])'
  BY SavedType, PTL
<1> QED BY <1>1

\* Settings sees no step that leaves what is saved and, while the device is
\* up, RAM and the phase.
LEMMA StoreStutters ==
  ASSUME Saved' = Saved, Phase' = Phase,
         Phase = "off" \/ UNCHANGED <<shadow, mounted, keep>> \/
           (Phase = "on" /\ UNCHANGED <<shadow, mounted>>)
  PROVE  UNCHANGED Store!vars
BY DEF Store!vars

LEMMA StoreInit == Init => Store!Init
<1> SUFFICES ASSUME Init PROVE Store!Init
  OBVIOUS
<1>1. Phase = "off"
  BY PhaseIs DEF Init
<1>2. Saved \in [Rows -> Values]
  BY InvInit, SavedType DEF PrefsInv
<1> QED BY <1>1, <1>2, StoreRows DEF Store!Init

\* A boot is seen when the device is up.
LEMMA BootRefines ==
  ASSUME ~BootFails, PrefsInv, AdoptNext \/ ImportNext
  PROVE  [Store!Next]_(Store!vars)
<1>1. Saved' = Saved
  BY AdoptStep, ImportStep
<1>2. ASSUME Boot(FALSE) PROVE Store!Boot(FALSE)
  <2>1. pc = "off" /\ pc' = "idle" /\ mounted' = FALSE /\ shadow' = Defaults
    BY <1>2 DEF Boot, Defaults
  <2> QED BY <1>1, <2>1, PhaseIs, PhaseNext, StoreRows DEF Store!Boot
<1>3. ASSUME LegacyStale \/ ImportEnd PROVE Store!Boot(TRUE)
  <2>1. pc \in {"legacy", "import"} /\ pc' = "idle"
    BY <1>3 DEF LegacyStale, ImportEnd
  <2>2. mounted' /\ shadow' = Saved
    BY <1>3, <2>1, ImportStep DEF ImportNext
  <2> QED BY <1>1, <2>1, <2>2, PhaseIs, PhaseNext DEF Store!Boot
<1>4. ASSUME ~Boot(FALSE), ~LegacyStale, ~ImportEnd PROVE UNCHANGED Store!vars
  <2>1. /\ pc \in {"off", "adopt", "adopt_write", "legacy", "import", "import_write"}
        /\ pc' \in {"off", "adopt", "adopt_write", "legacy", "import", "import_write"}
    BY <1>4 DEF AdoptNext, ImportNext, Boot, AdoptRead, AdoptNothing, AdoptStage, AdoptWritten,
                AdoptEnd, LegacyMissing, ImportRead, ImportNothing, ImportStage, ImportWritten
  <2> QED BY <1>1, <2>1, PhaseIs, PhaseNext, StoreStutters
<1> QED BY <1>2, <1>3, <1>4 DEF Store!Next

\* The handlers put into RAM, save a group as a whole and begin a wipe.
LEMMA ServeRefines ==
  ASSUME ~LegacyKept, PrefsInv, ServeNext
  PROVE  [Store!Next]_(Store!vars)
<1>1. ASSUME NEW m, NEW k, NEW v \in Values, Put(m, k, v)
      PROVE  \E r \in Rows : Store!Put(r, v)
  <2>1. /\ pc \in {"idle", "form"} /\ pc' = "form" /\ UNCHANGED <<disk, json, mounted>>
    BY <1>1 DEF Put
  <2>2. PICK r \in Rows : shadow' = [shadow EXCEPT ![r] = v]
    BY <1>1, TargetRows DEF Put
  <2> QED BY <2>1, <2>2, SameSaved, PhaseIs, PhaseNext DEF Store!Put
<1>2. ASSUME \/ \E callbacks \in BOOLEAN : Commit(callbacks)
             \/ CommitClean \/ CommitStage \/ CommitNotWritten \/ CommitEnd
      PROVE  UNCHANGED Store!vars
  <2>1. /\ pc \in {"form", "commit"} /\ pc' \in {"commit", "idle"}
        /\ UNCHANGED <<disk, json, shadow, mounted>>
    BY <1>2 DEF Commit, CommitClean, CommitStage, CommitNotWritten, CommitEnd, NotWritten
  <2> QED BY <2>1, SameSaved, PhaseIs, PhaseNext, StoreStutters
<1>3. ASSUME CommitWritten PROVE \E g \in Groups : Store!Save(g)
  <2>1. PICK g \in Groups : g = Here
    BY <1>3, GroupFacts DEF CommitWritten, Here
  <2>2. /\ mounted
        /\ \A r \in Rows : Saved[r]' = IF r[1] = g THEN shadow[r] ELSE Saved[r]
    BY <1>3, <2>1, CommitSaves
  <2>3. pc = "commit" /\ pc' = "commit" /\ UNCHANGED <<shadow, mounted>>
    BY <1>3 DEF CommitWritten
  <2>4. Saved' = [r \in Rows |-> IF r[1] = g THEN shadow[r] ELSE Saved[r]]
    <3>1. Saved' = [r \in Rows |-> Saved[r]']
      BY DEF Saved
    <3> QED BY <2>2, <3>1
  <2>5. Store!Save(g)
    BY <2>2, <2>3, <2>4, PhaseIs, PhaseNext, StoreRows DEF Store!Save
  <2> QED BY <2>5
<1>4. ASSUME NEW keep_network \in BOOLEAN, ResetAll(keep_network)
      PROVE  \E kept \in SUBSET Groups : Store!Wipe(kept)
  <2>1. /\ pc = "idle" /\ pc' = "reset" /\ keep' = keep_network
        /\ UNCHANGED <<disk, json, shadow, mounted>>
    BY <1>4 DEF ResetAll
  <2> DEFINE kept == IF keep_network THEN NetGroups ELSE {}
  <2>2. kept \in SUBSET Groups
    BY MovedAssumption
  <2>3. Store!Wipe(kept)
    BY <2>1, SameSaved, PhaseIs, PhaseNext DEF Store!Wipe
  <2> QED BY <2>2, <2>3
<1> QED BY <1>1, <1>2, <1>3, <1>4 DEF ServeNext, Store!Next, Store!Rows, Rows

\* A reset erases what it does not spare, and ends with the defaults saved.
LEMMA WipeRefines ==
  ASSUME PrefsInv, TypeOK', WipeNext
  PROVE  [Store!Next]_(Store!vars)
<1>1. ASSUME ResetGroup \/ DropMoved PROVE Store!Erase
  <2>1. pc \in {"reset", "drop"} /\ pc' = pc /\ UNCHANGED <<mounted, keep>>
    BY <1>1 DEF ResetGroup, DropMoved, job
  <2>2. /\ mounted \/ Saved' = Saved
        /\ \A r \in Rows : Spared(r[1]) => Saved[r]' = Saved[r] /\ shadow'[r] = shadow[r]
    BY <1>1, ResetGroupStep, DropMovedStep
  <2>3. Saved' \in [Rows -> Values] /\ shadow' \in [Rows -> Values]
    BY SavedTypeNext DEF TypeOK
  <2>4. Phase = "wipe" /\ Phase' = "wipe"
    BY <2>1, PhaseIs, PhaseNext
  <2> QED BY <2>1, <2>2, <2>3, <2>4, StoreRows DEF Store!Erase, Spared
<1>2. ASSUME ResetGroups \/ (Dropped /\ ~keep) PROVE UNCHANGED Store!vars
  <2>1. /\ pc \in {"reset", "drop"} /\ pc' \in {"drop", "unlegacy"}
        /\ UNCHANGED <<shadow, mounted, keep>>
    BY <1>2 DEF ResetGroups, Dropped, job
  <2>2. Saved' = Saved
    BY <1>2, WipeStep
  <2> QED BY <2>1, <2>2, PhaseIs, PhaseNext, StoreStutters
<1>3. ASSUME (Dropped /\ keep) \/ RemoveLegacy PROVE Store!Wiped
  <2>1. /\ pc \in {"drop", "unlegacy"} /\ pc' \in {"form", "idle"}
        /\ UNCHANGED <<shadow, mounted>>
    BY <1>3 DEF Dropped, RemoveLegacy
  <2>2. \A r \in Rows : Saved[r]' = IF mounted /\ ~Spared(r[1]) THEN Default ELSE Saved[r]
    BY <1>3, WipeStep
  <2>3. Saved' \in [Rows -> Values]
    BY SavedTypeNext
  <2>4. Phase = "wipe" /\ Phase' = "on"
    BY <2>1, PhaseIs, PhaseNext
  <2> QED BY <2>1, <2>2, <2>3, <2>4, StoreRows DEF Store!Wiped, Spared
<1> QED BY <1>1, <1>2, <1>3 DEF WipeNext, Store!Next

LEMMA PowerRefines == ASSUME PowerCut PROVE [Store!Next]_(Store!vars)
<1>1. pc' = "off" /\ Phase' = "off" /\ Saved' = Saved
  BY PhaseNext, SameSaved DEF PowerCut
<1>2. CASE Phase = "off"
  BY <1>1, <1>2, StoreStutters
<1>3. CASE Phase # "off"
  BY <1>1, <1>3, StoreRows DEF Store!PowerCut, Store!Next
<1> QED BY <1>2, <1>3

\* With the same two things granted, the preferences are a store of Settings:
\* a boot and its moves of keys lose nothing, a group is saved as a whole or
\* not at all, and a reset that ended is not undone, wherever the power is cut.
THEOREM KeepsForAll == ASSUME ~BootFails, ~LegacyKept PROVE Spec => KeepsSettings
<1>1. Spec => []PrefsInv
  BY PrefsInductive
<1>2. PrefsInv /\ PrefsInv' /\ [Next]_vars => [Store!Next]_(Store!vars)
  <2> SUFFICES ASSUME PrefsInv, PrefsInv', [Next]_vars PROVE [Store!Next]_(Store!vars)
    OBVIOUS
  <2>1. CASE AdoptNext \/ ImportNext
    BY <2>1, BootRefines
  <2>2. CASE ServeNext
    BY <2>2, ServeRefines
  <2>3. CASE WipeNext
    BY <2>3, WipeRefines DEF PrefsInv
  <2>4. CASE PowerCut
    BY <2>4, PowerRefines
  <2>5. CASE UNCHANGED vars
    <3>1. UNCHANGED <<disk, json, shadow, mounted, keep, pc>>
      BY <2>5 DEF vars
    <3>2. Phase' = Phase
      BY <3>1 DEF Phase
    <3> QED BY <3>1, <3>2, SameSaved, StoreStutters
  <2> QED BY <2>1, <2>2, <2>3, <2>4, <2>5, NextIs
<1>3. Init => Store!Init
  BY StoreInit
<1> QED BY <1>1, <1>2, <1>3, PTL DEF Spec, KeepsSettings, Store!Spec
=============================================================================
