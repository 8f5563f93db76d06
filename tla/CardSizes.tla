------------------------------- MODULE CardSizes -------------------------------
(***************************************************************************)
(* The settings that ComfyUI keeps for the page (hooks/config.ts) and the  *)
(* card-size editor (SettingCardSize.vue): what is kept, whoever wrote it, *)
(* is handed back at every load.                                           *)
(***************************************************************************)
EXTENDS Naturals

CONSTANTS
  Presets,      \* the names of defaultCardSizeMap
  Custom,       \* CUSTOM_CARD_SIZE
  Sizes,        \* sizes "<width>x<height>"
  DefaultSizes, \* defaultCardSizeMap
  CustomSize,   \* CUSTOM_CARD_SIZE_DEFAULT
  Sorts,        \* the sort values a hub accepts
  FirstSort,    \* its default
  Junk,         \* what is no size, no name, no sort value, no map
  Closed        \* no editor

Names == Presets \cup {Custom}
Maps  == UNION {[ns -> Sizes] : ns \in SUBSET Names}
Raws  == {Junk} \cup UNION {[ns -> Sizes \cup {Junk}] : ns \in SUBSET Names}

SizesAssumption ==
  /\ Custom \notin Presets /\ DefaultSizes \in [Presets -> Sizes] /\ CustomSize \in Sizes
  /\ FirstSort \in Sorts /\ Junk \notin Sizes \cup Sorts \cup Names \cup Maps

VARIABLES
  kept,   \* ComfyUI's settings
  sizes,  \* cardSizeMap
  flag,   \* cardSizeFlag
  flat,   \* flatLayout
  sort,   \* searchSortHf, and likewise the other hubs'
  rows    \* sizeList of the editor

sizesVars == <<kept, sizes, flag, flat, sort, rows>>

Put(map, name, size) == [n \in DOMAIN map \cup {name} |-> IF n = name THEN size ELSE map[n]]

WithCustomSize(map) == IF Custom \in DOMAIN map THEN map ELSE Put(map, Custom, CustomSize)

\* The entries that are sizes.
Sound(raw) == IF raw = Junk THEN {} ELSE {n \in DOMAIN raw : raw[n] # Junk}

\* Mutant of Read: a map that parses is taken as it is.
ReadUnchecked(raw) == WithCustomSize(IF raw = Junk THEN DefaultSizes ELSE raw)

\* onChange of the map
Read(raw) ==
  WithCustomSize(IF Sound(raw) = {} THEN DefaultSizes ELSE [n \in Sound(raw) |-> raw[n]])

ReadSort(raw) == IF raw \in Sorts THEN raw ELSE FirstSort

CardSize == IF flag \in DOMAIN sizes THEN sizes[flag] ELSE CustomSize

\* What the editor finds under props.cardSizeMap.value.  The stack of windows is
\* deeply reactive: the ref in its contentProps arrives as the map itself, which has
\* no "value", and the editor takes that for an empty map.
NoMap == [n \in {} |-> CustomSize]

\* What an older build, another tool or nobody may have left in ComfyUI's settings.
Kept == [sizes : Raws, flag : Names \cup {Junk}, flat : BOOLEAN, marker : BOOLEAN,
         sort : Sorts \cup {Junk}]

TypeOK ==
  /\ kept \in Kept /\ sizes \in Maps /\ flag \in Names \cup {Junk}
  /\ flat \in BOOLEAN /\ sort \in Sorts /\ (rows = Closed \/ rows \in Maps)

\* The migration that makes the flat layout the default, once; and the watcher of the
\* map, which writes back what has been made of it.
Migrated(k) ==
  [k EXCEPT !.flat = k.marker => @, !.marker = TRUE, !.sizes = Read(@)]

\* The page has read every setting.
Init ==
  /\ \E k \in Kept : kept = Migrated(k) /\ flag = k.flag /\ sort = ReadSort(k.sort)
  /\ sizes = kept.sizes /\ flat = kept.flat /\ rows = Closed

\* onMounted again: the page is loaded with what it has left.
Load ==
  /\ kept' = Migrated(kept) /\ sizes' = kept'.sizes /\ flat' = kept'.flat
  /\ flag' = kept.flag /\ sort' = ReadSort(kept.sort) /\ rows' = Closed

\* The size menu; the custom size opens the editor, or raises it as it is.
SelectSize(name) ==
  /\ name \in DOMAIN sizes
  /\ flag' = name /\ kept' = [kept EXCEPT !.flag = name]
  /\ rows' = IF name = Custom /\ rows = Closed THEN WithCustomSize(NoMap) ELSE rows
  /\ UNCHANGED <<sizes, flat, sort>>

Slide(name, size) ==
  /\ rows # Closed /\ name \in DOMAIN rows
  /\ rows' = [rows EXCEPT ![name] = size]
  /\ UNCHANGED <<kept, sizes, flag, flat, sort>>

HandleReset ==
  /\ rows # Closed /\ rows' = WithCustomSize(DefaultSizes)
  /\ UNCHANGED <<kept, sizes, flag, flat, sort>>

\* handleCancelEditor, or the window's own button
HandleCancelEditor ==
  /\ rows # Closed /\ rows' = Closed
  /\ UNCHANGED <<kept, sizes, flag, flat, sort>>

\* handleSaveSizeMap: the rows become the map.
HandleSaveSizeMap ==
  /\ rows # Closed
  /\ sizes' = rows /\ kept' = [kept EXCEPT !.sizes = rows] /\ rows' = Closed
  /\ UNCHANGED <<flag, flat, sort>>

\* The header's button, or the setting itself: all windows are closed.
SetFlat(to) ==
  /\ flat' = to /\ kept' = [kept EXCEPT !.flat = to] /\ rows' = Closed
  /\ UNCHANGED <<sizes, flag, sort>>

SetSort(to) ==
  /\ sort' = to /\ kept' = [kept EXCEPT !.sort = to]
  /\ UNCHANGED <<sizes, flag, flat, rows>>

Next ==
  \/ Load
  \/ \E name \in Names : SelectSize(name) \/ \E size \in Sizes : Slide(name, size)
  \/ HandleReset \/ HandleCancelEditor \/ HandleSaveSizeMap
  \/ \E to \in BOOLEAN : SetFlat(to)
  \/ \E to \in Sorts : SetSort(to)

Spec == Init /\ [][Next]_sizesVars

-----------------------------------------------------------------------------
\* Whatever was kept and whatever the editor saves, the cards have a size and the
\* custom size an entry; and what is kept comes back at the next load as the page has
\* it now, the layout too, which the migration resets but once.
SettingsHold ==
  /\ CardSize \in Sizes /\ Custom \in DOMAIN sizes
  /\ Read(kept.sizes) = sizes /\ kept.flag = flag
  /\ Migrated(kept).flat = flat /\ ReadSort(kept.sort) = sort

-----------------------------------------------------------------------------
\* The invariant of its proof: what is kept is what the page has, without junk, but for
\* the sort value, which is read anew; and the rows of an editor could be saved.
SizesInv ==
  /\ kept \in Kept /\ kept.marker
  /\ sizes \in Maps /\ Custom \in DOMAIN sizes
  /\ kept.sizes = sizes /\ kept.flag = flag /\ kept.flat = flat /\ ReadSort(kept.sort) = sort
  /\ rows # Closed => rows \in Maps /\ Custom \in DOMAIN rows
================================================================================
