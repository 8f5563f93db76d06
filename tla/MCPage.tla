-------------------------------- MODULE MCPage --------------------------------
(***************************************************************************)
(* What the user does on the page, for TLC: windows, choosing and deleting,*)
(* downloads, uploads and settings.  As in MCModels a behaviour is one of  *)
(* one part.  Most of the parts are in PageParts.                          *)
(***************************************************************************)
EXTENDS PageParts, TLC

CONSTANTS
  Parts,
  Key, KeepAlive, MinSize, DefaultSize, Viewports, Grips, Pointer, Breakpoint, NoWindow,
  Keys, FromEnv, MaxPosts,
  Legacy, Starred,
  Presets, Custom, Sizes, DefaultSizes, CustomSize, Sorts, FirstSort, Junk, Closed

VARIABLE part       \* the part whose behaviour this is

Frame == INSTANCE Windows WITH
  stack <- c1, visible <- c2, geometry <- c3, viewport <- c4, positioned <- c5,
  gesture <- c6, submitted <- c7, placed <- c8

Star == INSTANCE Stars WITH
  Key <- Directory, TypeRoot <- Starred, folders <- c1, kept <- c2, meant <- c3

Lock == INSTANCE ApiKey WITH
  stored <- c1, others <- c2, read <- c3, label <- c4, window <- c5, asking <- c6,
  asked <- c7, posts <- c8, answers <- c9, misled <- c10

Size == INSTANCE CardSizes WITH
  kept <- c1, sizes <- c2, flag <- c3, flat <- c4, sort <- c5, rows <- c6

ASSUME PageAssumption ==
  Frame!WindowsAssumption /\ Lock!KeyAssumption /\ Size!SizesAssumption /\ Star!StarsAssumption

vars ==
  <<part, c1, c2, c3, c4, c5, c6, c7, c8, c9, c10, c11, c12, c13, c14, c15, c16, c17, c18>>

\* The variables a part does not need: they are 0, and stay so.
Spare18 == c18 = 0
Spare17 == c17 = 0 /\ Spare18
Spare12 == c12 = 0 /\ c13 = 0 /\ c14 = 0 /\ c15 = 0 /\ c16 = 0 /\ Spare17
Spare11 == c11 = 0 /\ Spare12
Spare10 == c10 = 0 /\ Spare11
Spare9 == c9 = 0 /\ Spare10
Spare8 == c8 = 0 /\ Spare9
Spare7 == c7 = 0 /\ Spare8
Spare6 == c6 = 0 /\ Spare7
Spare4 == c4 = 0 /\ c5 = 0 /\ Spare6

Init ==
  /\ part \in Parts
  /\ \/ part = "windows"   /\ Frame!Init /\ Spare9
     \/ part = "selection" /\ Pick!Init  /\ Spare10
     \/ part = "batches"   /\ Batches!Init /\ Spare6
     \/ part = "hygiene"   /\ Broom!Init /\ Spare12
     \/ part = "confirm"   /\ Ask!Init   /\ Spare7
     \/ part = "list"      /\ Rows!Init  /\ Spare18
     \/ part = "form"      /\ Form!Init
     \/ part = "plan"      /\ Plan!Init  /\ Spare8
     \/ part = "bar"       /\ Bar!Init   /\ Spare9
     \/ part = "guide"     /\ Guide!Init /\ Spare10
     \/ part = "upload"    /\ Send!Init  /\ Spare11
     \/ part = "key"       /\ Lock!Init  /\ Spare11
     \/ part = "sizes"     /\ Size!Init  /\ Spare7
     \/ part = "stars"     /\ Star!Init  /\ Spare4
     \/ part = "canvas"    /\ Canvas!Init /\ Spare4

Next ==
  /\ UNCHANGED part
  /\ \/ part = "windows"   /\ Frame!Next
        /\ UNCHANGED <<c9, c10, c11, c12, c13, c14, c15, c16, c17, c18>>
     \/ part = "selection" /\ Pick!Next
        /\ UNCHANGED <<c10, c11, c12, c13, c14, c15, c16, c17, c18>>
     \/ part = "batches"   /\ Batches!Next
        /\ UNCHANGED <<c6, c7, c8, c9, c10, c11, c12, c13, c14, c15, c16, c17, c18>>
     \/ part = "hygiene"   /\ Broom!Next /\ UNCHANGED <<c12, c13, c14, c15, c16, c17, c18>>
     \/ part = "confirm"   /\ Ask!Next
        /\ UNCHANGED <<c7, c8, c9, c10, c11, c12, c13, c14, c15, c16, c17, c18>>
     \/ part = "list"      /\ Rows!Next  /\ UNCHANGED c18
     \/ part = "form"      /\ Form!Next
     \/ part = "plan"      /\ Plan!Next
        /\ UNCHANGED <<c8, c9, c10, c11, c12, c13, c14, c15, c16, c17, c18>>
     \/ part = "bar"       /\ Bar!Next
        /\ UNCHANGED <<c9, c10, c11, c12, c13, c14, c15, c16, c17, c18>>
     \/ part = "guide"     /\ Guide!Next
        /\ UNCHANGED <<c10, c11, c12, c13, c14, c15, c16, c17, c18>>
     \/ part = "upload"    /\ Send!Next
        /\ UNCHANGED <<c11, c12, c13, c14, c15, c16, c17, c18>>
     \/ part = "key"       /\ Lock!Next
        /\ UNCHANGED <<c11, c12, c13, c14, c15, c16, c17, c18>>
     \/ part = "sizes"     /\ Size!Next
        /\ UNCHANGED <<c7, c8, c9, c10, c11, c12, c13, c14, c15, c16, c17, c18>>
     \/ part = "canvas"    /\ Canvas!Next
        /\ UNCHANGED <<c4, c5, c6, c7, c8, c9, c10, c11, c12, c13, c14, c15, c16, c17, c18>>
     \/ part = "stars"     /\ Star!Next
        /\ UNCHANGED <<c4, c5, c6, c7, c8, c9, c10, c11, c12, c13, c14, c15, c16, c17, c18>>

Spec == Init /\ [][Next]_vars

\* Every part keeps its types.
TypeOK ==
  /\ part = "windows" => Frame!TypeOK
  /\ part = "selection" => Pick!TypeOK
  /\ part = "batches" => Batches!TypeOK
  /\ part = "hygiene" => Broom!TypeOK
  /\ part = "confirm" => Ask!TypeOK
  /\ part = "list" => Rows!TypeOK
  /\ part = "form" => Form!TypeOK
  /\ part = "plan" => Plan!TypeOK
  /\ part = "bar" => Bar!TypeOK
  /\ part = "guide" => Guide!TypeOK
  /\ part = "upload" => Send!TypeOK
  /\ part = "key" => Lock!TypeOK
  /\ part = "sizes" => Size!TypeOK
  /\ part = "stars" => Star!TypeOK
  /\ part = "canvas" => Canvas!TypeOK

\* The properties of the parts, which their modules explain: a window stays in view.
InView == part = "windows" => Frame!InView

\* What is deleted, compressed, asked about, or placed on the canvas is what was chosen
\* and agreed to.
AgreedOnly ==
  /\ part = "selection" => Pick!SelectionSafe
  /\ part = "batches" => Batches!BarIsTrue
  /\ part = "canvas" => Canvas!HoldsWhatItLists
  /\ part = "hygiene" => Broom!HygieneSafe
  /\ part = "confirm" => Ask!OwnTypesListed

\* The rows of the download list are the tasks there are.
ListIsTrue == part = "list" => Rows!ListIsTrue

\* The download form is about the page that was asked for, and the version chosen.
FormIsTrue ==
  /\ part = "form" => Form!ShowsTheSearch
  /\ part = "plan" => Plan!PlanIsTrue

\* The two kinds of upload, with the wizard of each.
UploadsAreTrue ==
  /\ part = "bar" => Bar!BarIsHonest
  /\ part = "guide" => Guide!WizardIsCoherent
  /\ part = "upload" => Send!UploadIsSafe

\* What the page has of the settings and keys that are kept elsewhere.
SettingsHold ==
  /\ part = "key" => Lock!LabelIsTrue
  /\ part = "sizes" => Size!SettingsHold
  /\ part = "stars" => Star!StarsHold

\* A search sends what the field says.
SubmitsTheField == [][part = "form" => Form!SubmitsTheField]_vars

CONSTANTS manager, task, f, z, a, m1, n1, n2, v1, v2, v3, b1, b2, hf, k1, p1, p2, o1, o2, r0, g1, g2
MCSize   == manager :> 4 @@ task :> 2
MCParent == f :> Nothing @@ a :> f

\* In one folder a model, a note that is not its own, and a preview that its stem and
\* the note's claim both.
MCFolderOf == m1 :> f @@ n1 :> f @@ n2 :> f
MCStem     == m1 :> 1 @@ n1 :> 2 @@ n2 :> 2
MCOwners   == n1 :> {2} @@ n2 :> {1, 2}

\* Under a type's folder r0 a folder with a model and a compressed one, a bundle,
\* and a model of its own.
MCUp == g1 :> r0 @@ g2 :> r0 @@ a :> g1 @@ z :> g1 @@ f :> r0

\* A loader of one model, a node with two combos behind a field, and a field alone;
\* models with both loaders, with none for a drop, and with none at all.
MCWidgets   == r0 :> <<{a, g1}>> @@ g1 :> <<{}, {a}, {}, {a, f}>> @@ g2 :> <<{}, {f}>>
MCPathType  == a :> a @@ f :> f @@ g1 :> g1
MCDropKind  == a :> r0 @@ f :> Nothing @@ g1 :> Nothing
MCClickKind == a :> r0 @@ f :> g2 @@ g1 :> Nothing

\* A version of the hub with a token, one of no hub, and one without a type.
MCTypeOf == v1 :> b1 @@ v2 :> b2 @@ v3 :> None
MCHubOf  == v1 :> hf @@ v2 :> None @@ v3 :> None

\* A type's directory and a folder in it.
MCDirs == {[kind |-> k1, path |-> <<>>], [kind |-> k1, path |-> <<"s">>]}

MCDefaultSizes == p1 :> o1 @@ p2 :> o2
================================================================================
