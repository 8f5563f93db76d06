------------------------------- MODULE HubWizard -------------------------------
(***************************************************************************)
(* The wizard of DialogHfUpload.vue: the platform, the type, the model and *)
(* the form, opened by itself, from a model's card or with a folder's      *)
(* files.  The account and the card's model are asked for, and answer      *)
(* whenever they do.                                                       *)
(***************************************************************************)
EXTENDS Naturals

CONSTANTS
  Hubs,        \* the providers
  FirstHub,    \* the one the wizard begins with
  Wares,       \* the models
  CardWare,    \* the model of the card
  MaxPrefills, \* bounds the listings resolvePrefill waits for
  Nobody       \* no model, no account

WizardAssumption ==
  FirstHub \in Hubs /\ CardWare \in Wares /\ Nobody \notin Hubs \cup Wares /\ MaxPrefills \in Nat

VARIABLES
  opened,    \* what the window was opened with
  wizard,    \* stepValue
  ware,      \* selectedModel
  path,      \* pathInRepo: the model it names
  typed,     \* history: the user has typed into it since a model was picked
  hub,       \* provider
  account,   \* whoamiName: the hub whose account is named
  whoami,    \* the hubs that have been asked for the account
  prefills   \* the listings resolvePrefill waits for

pickVars   == <<ware, path, typed>>
wizardVars == <<opened, wizard, pickVars, hub, account, whoami, prefills>>

TypeOK ==
  /\ opened \in {"plain", "card", "folder"}
  /\ wizard \in {"platform", "type", "model", "upload"}
  /\ ware \in Wares \cup {Nobody} /\ path \in Wares \cup {Nobody} /\ typed \in BOOLEAN
  /\ hub \in Hubs /\ account \in Hubs \cup {Nobody}
  /\ whoami \subseteq Hubs /\ prefills \in 0..MaxPrefills

Init ==
  /\ opened \in {"plain", "card", "folder"}
  /\ wizard = "platform" /\ ware = Nobody /\ path = Nobody /\ typed = FALSE
  /\ hub = FirstHub /\ account = Nobody /\ whoami = {FirstHub} /\ prefills = 0

\* handleSelectModel: the path in the repository follows the model.
Selects(m) == ware' = m /\ path' = m /\ typed' = FALSE

\* chooseProvider: the account is asked for anew; a folder goes to the form, and
\* the card's model is looked up.
ChooseHub(h) ==
  /\ wizard = "platform" /\ hub' = h
  /\ IF h = hub
       THEN UNCHANGED <<account, whoami>>
       ELSE account' = Nobody /\ whoami' = whoami \cup {h}
  /\ IF opened = "card"
       THEN prefills < MaxPrefills /\ prefills' = prefills + 1 /\ UNCHANGED wizard
       ELSE wizard' = (IF opened = "folder" THEN "upload" ELSE "type") /\ UNCHANGED prefills
  /\ UNCHANGED <<opened, pickVars>>

\* resolvePrefill: the model is there, or has been deleted meanwhile.
Prefilled(hit) ==
  /\ prefills > 0 /\ prefills' = prefills - 1
  /\ IF hit
       THEN wizard' = "upload" /\ Selects(CardWare)
       ELSE wizard' = "type" /\ UNCHANGED pickVars
  /\ UNCHANGED <<opened, hub, account, whoami>>

\* Mutant of OfHub: a late answer names the account.
OfAnyHub(h) == h \in Hubs
OfHub(h) == h = hub

\* fetchWhoami: an answer of the hub before is dropped.
WhoamiAnswered(h, name) ==
  /\ h \in whoami /\ whoami' = whoami \ {h}
  /\ account' = IF OfHub(h) THEN name ELSE account
  /\ UNCHANGED <<opened, wizard, pickVars, hub, prefills>>

\* The two grids.
PickType ==
  /\ wizard = "type" /\ wizard' = "model"
  /\ UNCHANGED <<opened, pickVars, hub, account, whoami, prefills>>

PickModel(m) ==
  /\ wizard = "model" /\ wizard' = "upload" /\ Selects(m)
  /\ UNCHANGED <<opened, hub, account, whoami, prefills>>

\* The buttons back: to the platform the model is kept, else it is forgotten.
BackToPlatform ==
  /\ wizard = "type" \/ (wizard = "upload" /\ opened = "folder")
  /\ wizard' = "platform"
  /\ UNCHANGED <<opened, pickVars, hub, account, whoami, prefills>>

Back ==
  /\ \/ wizard = "model" /\ wizard' = "type"
     \/ wizard = "upload" /\ opened # "folder" /\ wizard' = "model"
  /\ ware' = Nobody
  /\ UNCHANGED <<opened, path, typed, hub, account, whoami, prefills>>

\* The steps of the wizard in their order; a tab leads back only.
Step(s) == CASE s = "platform" -> 0 [] s = "type" -> 1 [] s = "model" -> 2 [] s = "upload" -> 3

Tab(s) ==
  /\ Step(s) < Step(wizard) /\ (opened = "folder" => s = "platform")
  /\ wizard' = s
  /\ UNCHANGED <<opened, pickVars, hub, account, whoami, prefills>>

TypePath(m) ==
  /\ wizard = "upload" /\ path' = m /\ typed' = TRUE
  /\ UNCHANGED <<opened, wizard, ware, hub, account, whoami, prefills>>

Next ==
  \/ \E h \in Hubs : ChooseHub(h) \/ WhoamiAnswered(h, h) \/ WhoamiAnswered(h, Nobody)
  \/ \E hit \in BOOLEAN : Prefilled(hit)
  \/ PickType \/ BackToPlatform \/ Back
  \/ \E m \in Wares : PickModel(m) \/ TypePath(m)
  \/ \E s \in {"platform", "type", "model"} : Tab(s)

Spec == Init /\ [][Next]_wizardVars

\* Whatever answers late: the form of a model has that model to send, under its own
\* path unless the user typed another, and names the account of the hub it sends to.
WizardIsCoherent ==
  /\ wizard = "upload" /\ opened # "folder" => ware # Nobody /\ (path = ware \/ typed)
  /\ account \in {Nobody, hub}
================================================================================
