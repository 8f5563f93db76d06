--------------------------------- MODULE ApiKey ---------------------------------
(***************************************************************************)
(* One hub's API key: private.key of the backend (py/auth.py), which holds *)
(* the other hubs' too, the masked copy that the settings panel shows      *)
(* (hooks/config.ts), and the requests between them, which nobody orders.  *)
(***************************************************************************)
EXTENDS Naturals, Sequences, SequencesExt

CONSTANTS
  Keys,      \* API keys
  FromEnv,   \* the token of the environment, or None
  MaxPosts,  \* bounds the requests in flight
  None       \* no key

KeyAssumption == None \notin Keys /\ FromEnv \in Keys \cup {None} /\ MaxPosts \in Nat

VARIABLES
  stored,   \* the hub's entry in private.key
  others,   \* another hub has an entry there
  read,     \* the store in memory is what private.key has; until then it is empty
  label,    \* apiKeyInfo
  window,   \* the SettingApiKey window
  asking,   \* the confirmation of a removal is up
  asked,    \* /download/init is on its way to the backend
  posts,    \* the POSTs on their way to it
  answers,  \* what it has answered, in its order
  misled    \* history: since the last init or save the newest answer was lost or has passed
            \* another, or the entry was written with nobody to tell the page

keyVars ==
  <<stored, others, read, label, window, asking, asked, posts, answers, misled>>

TypeOK ==
  /\ stored \in Keys \cup {None} /\ label \in Keys \cup {None}
  /\ window \in {"closed", "open", "saving"}
  /\ posts \in Seq([key : Keys \cup {None}, heard : BOOLEAN])
  /\ answers \in Seq([key : Keys \cup {None}, to : {"init", "setting"}])
  /\ {others, read, asking, asked, misled} \subseteq BOOLEAN

Init ==
  /\ stored \in Keys \cup {None} /\ others \in BOOLEAN /\ read = FALSE
  /\ label = None /\ window = "closed" /\ asking = FALSE
  /\ asked = TRUE /\ posts = <<>> /\ answers = <<>>
  /\ misled = FALSE

\* The page is loaded again; the backend goes on with what it was sent.
Reload ==
  /\ label' = None /\ window' = "closed" /\ asking' = FALSE
  /\ asked' = TRUE /\ answers' = <<>>
  /\ posts' = [i \in DOMAIN posts |-> [posts[i] EXCEPT !.heard = FALSE]]
  /\ misled' = FALSE
  /\ UNCHANGED <<stored, others, read>>

\* ComfyUI is restarted under the page, which answers the reconnection with a request
\* for the tasks alone: the store is empty until the next init.
Restart ==
  /\ read' = FALSE
  /\ UNCHANGED <<stored, others, label, window, asking, asked, posts, answers, misled>>

\* /download/init: the file is read; if no hub has a key, what the environment has is
\* adopted and written.
InitRead ==
  /\ asked /\ asked' = FALSE /\ read' = TRUE /\ misled' = FALSE
  /\ LET empty == stored = None /\ ~others
     IN /\ stored' = IF empty THEN FromEnv ELSE stored
        /\ others' \in IF empty THEN BOOLEAN ELSE {others}
  /\ answers' = Append(answers, [key |-> stored', to |-> "init"])
  /\ UNCHANGED <<label, window, asking, posts>>

\* It fails on its way; the page takes an empty record.
InitFails ==
  /\ asked /\ asked' = FALSE /\ label' = None /\ misled' = TRUE
  /\ UNCHANGED <<stored, others, read, window, asking, posts, answers>>

Post(key) ==
  /\ Len(posts) + Len(answers) < MaxPosts
  /\ posts' = Append(posts, [key |-> key, heard |-> TRUE])

\* setApiKey: the pencil; an open window is raised as it is.
SetApiKey ==
  /\ window = "closed" /\ window' = "open"
  /\ UNCHANGED <<stored, others, read, label, asking, asked, posts, answers, misled>>

\* saveKeybinding, which nothing disables while it waits
SaveKeybinding(key) ==
  /\ window # "closed" /\ Post(key) /\ window' = "saving"
  /\ UNCHANGED <<stored, others, read, label, asking, asked, answers, misled>>

CloseWindow ==
  /\ window # "closed" /\ window' = "closed"
  /\ UNCHANGED <<stored, others, read, label, asking, asked, posts, answers, misled>>

\* removeApiKey: the waste bin asks only where the page has a key.
RemoveApiKey ==
  /\ label # None /\ asking' = TRUE
  /\ UNCHANGED <<stored, others, read, label, window, asked, posts, answers, misled>>

Confirmed ==
  /\ asking /\ asking' = FALSE /\ Post(None)
  /\ UNCHANGED <<stored, others, read, label, window, asked, answers, misled>>

Declined ==
  /\ asking /\ asking' = FALSE
  /\ UNCHANGED <<stored, others, read, label, window, asked, posts, answers, misled>>

\* set_value: the whole store in memory becomes the file, which keeps of the other hubs'
\* keys what was read since the start.
SetValue(i) ==
  /\ stored' = posts[i].key /\ others' = (others /\ read) /\ read' = TRUE
  /\ posts' = RemoveAt(posts, i)
  /\ answers' = IF posts[i].heard THEN Append(answers, [key |-> posts[i].key, to |-> "setting"])
                ELSE answers
  /\ misled' = ~posts[i].heard
  /\ UNCHANGED <<label, window, asking, asked>>

\* The same of another hub's key, saved or removed: this hub's goes with the file where
\* it was not read, and nobody tells the page.
SetOther ==
  /\ stored' = (IF read THEN stored ELSE None) /\ others' \in BOOLEAN /\ read' = TRUE
  /\ misled' = (misled \/ stored' # stored)
  /\ UNCHANGED <<label, window, asking, asked, posts, answers>>

Saves(answer) == answer.to = "setting" /\ answer.key # None

\* Mutant of Answered: a removal leaves the page's copy.
AnsweredKeeping(i) ==
  /\ label' = IF answers[i].key = None THEN label ELSE answers[i].key
  /\ answers' = RemoveAt(answers, i)
  /\ window' = IF Saves(answers[i]) THEN "closed" ELSE window
  /\ misled' = (misled \/ (i = Len(answers) /\ i # 1))
  /\ UNCHANGED <<stored, others, read, asking, asked, posts>>

\* The keys that were asked for, or setter with the one that was posted, whichever answer
\* comes first; a save closes its window.
Answered(i) ==
  /\ label' = answers[i].key /\ answers' = RemoveAt(answers, i)
  /\ window' = IF Saves(answers[i]) THEN "closed" ELSE window
  /\ misled' = (misled \/ (i = Len(answers) /\ i # 1))
  /\ UNCHANGED <<stored, others, read, asking, asked, posts>>

\* An answer is lost: an init's leaves an empty record, a POST's what the page has.
AnswerLost(i) ==
  /\ answers' = RemoveAt(answers, i) /\ misled' = (misled \/ i = Len(answers))
  /\ label' = IF answers[i].to = "init" THEN None ELSE label
  /\ window' = IF Saves(answers[i]) /\ window = "saving" THEN "open" ELSE window
  /\ UNCHANGED <<stored, others, read, asking, asked, posts>>

\* A POST fails on its way; the page keeps what it has.
PostFails(i) ==
  /\ posts' = RemoveAt(posts, i)
  /\ window' = IF posts[i].heard /\ posts[i].key # None /\ window = "saving" THEN "open" ELSE window
  /\ UNCHANGED <<stored, others, read, label, asking, asked, answers, misled>>

Next ==
  \/ Reload \/ Restart \/ InitRead \/ InitFails \/ SetOther
  \/ SetApiKey \/ CloseWindow \/ RemoveApiKey \/ Confirmed \/ Declined
  \/ \E key \in Keys : SaveKeybinding(key)
  \/ \E i \in DOMAIN posts : SetValue(i) \/ PostFails(i)
  \/ \E i \in DOMAIN answers : Answered(i) \/ AnswerLost(i)

Spec == Init /\ [][Next]_keyVars

-----------------------------------------------------------------------------
\* Once every answer is in, the panel shows the key that is stored, or that there is
\* none, however the requests overlapped: unless, since the page was loaded or the key
\* saved, the newest answer was lost or has passed another, a POST of an earlier page was
\* taken, or another hub's save has wiped the key of a store that was not read.
LabelIsTrue == ~asked /\ answers = <<>> /\ ~misled => label = stored

-----------------------------------------------------------------------------
\* The invariant of its proof: the keys are asked for; or the last answer on its way brings
\* what is stored; or none is, and the page has it.
KeyInv ==
  /\ TypeOK
  /\ ~misled =>
       \/ asked
       \/ answers # <<>> /\ answers[Len(answers)].key = stored
       \/ answers = <<>> /\ label = stored
================================================================================
