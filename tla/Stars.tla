---------------------------------- MODULE Stars ----------------------------------
(***************************************************************************)
(* The stars of folders: hooks/stars.ts, the bulk bar's star               *)
(* (hooks/folderSelection.ts) and that of a card (CardCornerControls.vue). *)
(* They are lists of keys, kept in the settings of the user; a type's own  *)
(* folder used to have another key, which loading rewrites.                *)
(***************************************************************************)
EXTENDS Naturals, Sequences, SequencesExt

CONSTANTS
  Key,        \* the folders
  TypeRoot,   \* the type's folder
  Legacy      \* the key it used to have

StarsAssumption == IsFiniteSet(Key) /\ TypeRoot \in Key /\ Legacy \notin Key

VARIABLES
  folders,   \* starState.folders
  kept,      \* the setting
  meant      \* history: the folders starred by the user

starsVars == <<folders, kept, meant>>

\* migrateFolderKey
Migrated(key) == IF key = Legacy THEN TypeRoot ELSE key

\* Mutant of Loaded: both keys of one folder become two entries.
LoadedTwice(setting) == [i \in DOMAIN setting |-> Migrated(setting[i])]

\* splice and push
Without(list, key) == RemoveFirst(list, key)
With(list, key) == IF Contains(list, key) THEN list ELSE Append(list, key)

\* loadStars: the set of the migrated keys, as a list.
Loaded(setting) ==
  LET upto[n \in 0..Len(setting)] ==
        IF n = 0 THEN <<>> ELSE With(upto[n - 1], Migrated(setting[n]))
  IN upto[Len(setting)]

TypeOK ==
  /\ folders \in Seq(Key) /\ kept \in Seq(Key \cup {Legacy}) /\ meant \subseteq Key

\* An older version left its key, maybe beside the new one.
Init ==
  /\ kept \in {<<>>, <<Legacy>>, <<Legacy, TypeRoot>>}
  /\ folders = Loaded(kept) /\ meant = {Migrated(key) : key \in Range(kept)}

Persist(list) == folders' = list /\ kept' = list

\* toggleFolderStar
Toggle(key) ==
  /\ Persist(IF Contains(folders, key) THEN Without(folders, key) ELSE With(folders, key))
  /\ meant' = IF key \in meant THEN meant \ {key} ELSE meant \cup {key}

\* applyFolderStars: all are starred, unless all were.
AllStarred(keys) == keys # <<>> /\ Range(keys) \subseteq Range(folders)
Applied(keys) ==
  LET upto[n \in 0..Len(keys)] ==
        IF n = 0 THEN folders
        ELSE IF AllStarred(keys) THEN Without(upto[n - 1], keys[n])
        ELSE With(upto[n - 1], keys[n])
  IN upto[Len(keys)]
ApplyFolderStars(keys) ==
  /\ Persist(Applied(keys))
  /\ meant' = IF keys # <<>> /\ Range(keys) \subseteq meant THEN meant \ Range(keys)
              ELSE meant \cup Range(keys)

\* The page is loaded again.
Reload == folders' = Loaded(kept) /\ UNCHANGED <<kept, meant>>

Next ==
  \/ \E key \in Key : Toggle(key)
  \/ \E s \in SUBSET Key : \E keys \in SetToSeqs(s) : ApplyFolderStars(keys)
  \/ Reload

Spec == Init /\ [][Next]_starsVars

-----------------------------------------------------------------------------
\* What is starred is what the user starred and has not unstarred since, under either
\* key and across reloads: a folder is in the list once, so that one click unstars it.
StarsHold ==
  /\ Range(folders) = meant
  /\ \A i, j \in DOMAIN folders : folders[i] = folders[j] => i = j

-----------------------------------------------------------------------------
\* The invariant of its proof: the setting is of the same folders, under either key.
StarsInv ==
  /\ folders \in Seq(Key) /\ kept \in Seq(Key \cup {Legacy})
  /\ StarsHold /\ meant = {Migrated(key) : key \in Range(kept)}
==================================================================================
