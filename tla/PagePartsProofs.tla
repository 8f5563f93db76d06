---------------------------- MODULE PagePartsProofs ----------------------------
(***************************************************************************)
(* The invariants of the parts of the page hold at the start and pass on   *)
(* to the next state: of the form, the plan and the list of downloads, of  *)
(* the two kinds of upload, and of what is done with the models listed.    *)
(* MCPageProofs draws the conclusions for the behaviours of MCPage.        *)
(***************************************************************************)
EXTENDS PageParts, SequenceTheorems, FiniteSetTheorems, FunctionTheorems, TLAPS

-----------------------------------------------------------------------------
(* The download form.  Of its variables the proof names the field c1, the     *)
(* timer c2, searchSeq c3, the searches c4, the results c5, the spinner c6,   *)
(* the query that was searched c7, the page under way c8; resolveSeq c9, the  *)
(* resolves c10, the model c11, its type c12, the sub-folder c13; the POST    *)
(* c15, the history of crossed resolves c16, the editor c17 and those kept    *)
(* c18.                                                                       *)

Names == Form!Searched /\ Form!ShowsTheSearch

\* What the invariant says of single searches.
LEMMA SearchesAre ==
  ASSUME Form!Searched
  PROVE  /\ c3 \in Nat
         /\ \A s \in c4 : /\ s = [seq |-> s.seq, query |-> s.query]
                         /\ s.seq \in Nat /\ 1 <= s.seq /\ s.seq <= c3 /\ s.query \in Phrases
         /\ c5 # Blank => c5.seq \in Nat /\ 1 <= c5.seq /\ c5.seq <= c3
         /\ c8 # Blank => c8.seq \in Nat /\ 1 <= c8.seq /\ c8.seq <= c3
BY DEF Form!Searched

\* The field takes another text.
LEMMA RetimedKeeps ==
  ASSUME Form!FormAssumption, Names, NEW text, c1' = text, Form!Retimed(text)
  PROVE  Names'
<1>0. /\ c3 \in Nat
      /\ \A s \in c4 : s.seq \in Nat /\ 1 <= s.seq /\ s.seq <= c3 /\ s.query \in Phrases
      /\ c5 # Blank => c5.seq \in Nat /\ 1 <= c5.seq /\ c5.seq <= c3
      /\ c8 # Blank => c8.seq \in Nat /\ 1 <= c8.seq /\ c8.seq <= c3
  BY SearchesAre DEF Names
<1>1. CASE text \in Phrases
  <2>1. UNCHANGED <<c3, c4, c5, c6, c7, c8>> /\ c2' = text /\ text # Blank
    BY <1>1 DEF Form!Retimed, Form!FormAssumption
  <2>2. Form!Searched'
    BY <1>1, <2>1 DEF Names, Form!Searched, Form!Current, Form!SameSet
  <2>3. Form!ShowsTheSearch'
    BY <2>1 DEF Names, Form!ShowsTheSearch
  <2>. QED BY <2>2, <2>3 DEF Names
<1>2. CASE text \notin Phrases
  <2>1. /\ UNCHANGED <<c4, c8>> /\ c2' = Blank /\ c3' = c3 + 1
        /\ c5' = Blank /\ c6' = FALSE /\ c7' = Blank
    BY <1>2 DEF Form!Retimed
  <2>2. c4' \subseteq [seq : 1..c3', query : Phrases]
    BY <1>0, <2>1 DEF Names, Form!Searched
  <2>3. Form!Searched'
    BY <1>0, <1>2, <2>1, <2>2 DEF Names, Form!Searched, Form!Current, Form!SameSet
  <2>4. Form!ShowsTheSearch'
    BY <1>2, <2>1 DEF Names, Form!ShowsTheSearch
  <2>. QED BY <2>3, <2>4 DEF Names
<1>. QED BY <1>1, <1>2

\* A search begins, for what the field says.
LEMMA RunSearchKeeps ==
  ASSUME Form!FormAssumption, Names, c1 \in Phrases, Form!RunSearch(c1), c2' \in {Blank, c2},
         UNCHANGED <<c1, c5, c7, c8>>
  PROVE  Names'
<1>. DEFINE s == [seq |-> c3 + 1, query |-> c1]
<1>0. /\ c3 \in Nat
      /\ \A r \in c4 : r.seq \in Nat /\ 1 <= r.seq /\ r.seq <= c3 /\ r.query \in Phrases
      /\ c5 # Blank => c5.seq \in Nat /\ 1 <= c5.seq /\ c5.seq <= c3
      /\ c8 # Blank => c8.seq \in Nat /\ 1 <= c8.seq /\ c8.seq <= c3
  BY SearchesAre DEF Names
<1>1. c3' = c3 + 1 /\ c6' = TRUE /\ c4' = c4 \cup {s} /\ s.seq = c3' /\ s.query = c1
  BY DEF Form!RunSearch
<1>2. c4' \subseteq [seq : 1..c3', query : Phrases]
  <2>1. s \in [seq : 1..c3', query : Phrases]  BY <1>0, <1>1
  <2>2. c4 \subseteq [seq : 1..c3', query : Phrases]
    BY <1>0, <1>1 DEF Names, Form!Searched
  <2>. QED BY <1>1, <2>1, <2>2
<1>. HIDE DEF s
<1>3. \A r \in c4' : r = s \/ (r \in c4 /\ r.seq # c3')
  BY <1>0, <1>1
<1>4. Form!Searched'
  <2>1. \A q, r \in c4' : q.seq = r.seq => q = r
    BY <1>1, <1>3 DEF Names, Form!Searched
  <2>2. \A r \in c4' : Form!Current(r)' => r.query = c1'
    BY <1>1, <1>3 DEF Form!Current
  <2>3. c5' # Blank => /\ c5' \in [seq : 1..c3', rows : SUBSET Phrases]
                       /\ \A r \in c4' : r.seq # c5'.seq
    <3>1. 1..c3 \subseteq 1..c3'  BY <1>0, <1>1
    <3>. QED BY <1>0, <1>1, <1>3, <3>1 DEF Names, Form!Searched
  <2>4. c8' # Blank => c8'.seq \in 1..c3' /\ \A r \in c4' : r.seq # c8'.seq
    BY <1>0, <1>1, <1>3 DEF Names, Form!Searched
  <2>. QED BY <1>0, <1>1, <1>2, <2>1, <2>2, <2>3, <2>4 DEF Names, Form!Searched, Form!SameSet
<1>5. Form!ShowsTheSearch'
  BY <1>1 DEF Names, Form!ShowsTheSearch
<1>. QED BY <1>4, <1>5 DEF Names

\* The answer to a search comes.
LEMMA AnsweredKeeps ==
  ASSUME Form!FormAssumption, Names, NEW s \in c4, NEW ok \in BOOLEAN, Form!SearchAnswered(s, ok)
  PROVE  Names'
<1>0. /\ c3 \in Nat
      /\ \A r \in c4 : r.seq \in Nat /\ 1 <= r.seq /\ r.seq <= c3 /\ r.query \in Phrases
      /\ \A q, r \in c4 : q.seq = r.seq => q = r
      /\ c8 # Blank => \A r \in c4 : r.seq # c8.seq
  BY SearchesAre DEF Names, Form!Searched
<1>1. c4' = c4 \ {s} /\ UNCHANGED <<c1, c2, c3, c8>>
  BY DEF Form!SearchAnswered
<1>2. CASE Form!Current(s)
  <2>1. PICK rows \in {{}, {s.query}} : c5' = IF ok THEN [seq |-> s.seq, rows |-> rows] ELSE Blank
    BY <1>2 DEF Form!SearchAnswered
  <2>2. c6' = FALSE /\ c7' = s.query /\ s.seq = c3
    BY <1>2 DEF Form!SearchAnswered, Form!Current
  <2>3. c5' # Blank => /\ c5' \in [seq : 1..c3, rows : SUBSET Phrases]
                       /\ c5'.seq = s.seq /\ c5'.rows \subseteq {c7'}
    BY <1>0, <2>1, <2>2
  <2>4. Form!Searched'
    BY <1>0, <1>1, <2>2, <2>3 DEF Names, Form!Searched, Form!Current, Form!SameSet
  <2>5. Form!ShowsTheSearch'
    BY <1>1, <1>2, <2>2, <2>3 DEF Names, Form!ShowsTheSearch, Form!Searched
  <2>. QED BY <2>4, <2>5 DEF Names
<1>3. CASE ~Form!Current(s)
  <2>1. UNCHANGED <<c5, c6, c7>> /\ s.seq # c3
    BY <1>3 DEF Form!SearchAnswered, Form!Current
  <2>2. Form!Searched'
    BY <1>1, <2>1 DEF Names, Form!Searched, Form!Current, Form!SameSet
  <2>3. Form!ShowsTheSearch'
    BY <1>1, <2>1 DEF Names, Form!ShowsTheSearch
  <2>. QED BY <2>2, <2>3 DEF Names
<1>. QED BY <1>2, <1>3

\* The next page of the results is asked for, and comes.
LEMMA PagesKeep ==
  ASSUME Form!FormAssumption, Names,
         Form!LoadMore \/ \E ok \in BOOLEAN : Form!PageAnswered(ok)
  PROVE  Names'
<1>1. CASE Form!LoadMore
  <2>1. /\ UNCHANGED <<c1, c2, c3, c4, c5, c6, c7>> /\ c5 # Blank
        /\ c8' = [seq |-> c5.seq, query |-> IF c7 = Blank THEN c1 ELSE c7]
    BY <1>1 DEF Form!LoadMore
  <2>2. c7 \in Phrases /\ c7 # Blank  BY <2>1 DEF Names, Form!Searched, Form!FormAssumption
  <2>3. c8'.seq = c5.seq /\ c8'.query = c7  BY <2>1, <2>2
  <2>4. Form!Searched'
    BY <2>1, <2>3 DEF Names, Form!Searched, Form!Current, Form!SameSet
  <2>5. Form!ShowsTheSearch'
    BY <2>1 DEF Names, Form!ShowsTheSearch
  <2>. QED BY <2>4, <2>5 DEF Names
<1>2. ASSUME NEW ok \in BOOLEAN, Form!PageAnswered(ok)  PROVE Names'
  <2>1. UNCHANGED <<c1, c2, c3, c4, c6, c7>> /\ c8' = Blank /\ c8 # Blank
    BY <1>2 DEF Form!PageAnswered
  <2>2. CASE ok /\ Form!SameSet(c8)
    <3>1. c5 # Blank /\ c8.query = c7 /\ c5' = [c5 EXCEPT !.rows = @ \cup {c8.query}]
      BY <1>2, <2>1, <2>2 DEF Form!PageAnswered, Form!SameSet, Names, Form!Searched
    <3>2. c5 \in [seq : 1..c3, rows : SUBSET Phrases] /\ c7 \in Phrases
      BY <3>1 DEF Names, Form!Searched
    <3>3. /\ c5' \in [seq : 1..c3, rows : SUBSET Phrases]
          /\ c5'.seq = c5.seq /\ c5'.rows = c5.rows \cup {c7}
      BY <3>1, <3>2
    <3>4. Form!Searched'
      BY <2>1, <3>1, <3>3 DEF Names, Form!Searched, Form!Current, Form!SameSet
    <3>5. Form!ShowsTheSearch'
      BY <2>1, <3>1, <3>3 DEF Names, Form!ShowsTheSearch
    <3>. QED BY <3>4, <3>5 DEF Names
  <2>3. CASE ~(ok /\ Form!SameSet(c8))
    <3>1. c5' = c5  BY <1>2, <2>3 DEF Form!PageAnswered
    <3>2. Form!Searched'
      BY <2>1, <3>1 DEF Names, Form!Searched, Form!Current, Form!SameSet
    <3>3. Form!ShowsTheSearch'
      BY <2>1, <3>1 DEF Names, Form!ShowsTheSearch
    <3>. QED BY <3>2, <3>3 DEF Names
  <2>. QED BY <2>2, <2>3
<1>. QED BY <1>1, <1>2

\* What a search does to the names, the results and the timer.
LEMMA NamesKeep ==
  ASSUME Form!FormAssumption, Names, [Form!Next]_(Form!formVars)
  PROVE  Names'
<1>1. ASSUME NEW text, Form!Type(text)  PROVE Names'
  BY <1>1, RetimedKeeps DEF Form!Type
<1>2. ASSUME NEW url, Form!GoTo(url)  PROVE Names'
  BY <1>2, RetimedKeeps DEF Form!GoTo
<1>3. ASSUME NEW url \in Pages, Form!SelectResult(url) \/ Form!EnterName(url)  PROVE Names'
  <2>1. ASSUME c1 \in Phrases, Form!RunSearch(c1), UNCHANGED <<c1, c2, c5, c7, c8>>  PROVE Names'
    BY <2>1, RunSearchKeeps
  <2>. QED BY <1>2, <1>3, <2>1 DEF Form!SelectResult, Form!EnterName
<1>4. CASE Form!TimerFires
  <2>1. c2 = c1 /\ c1 \in Phrases
    BY <1>4 DEF Form!TimerFires, Names, Form!Searched
  <2>. QED BY <1>4, <2>1, RunSearchKeeps DEF Form!TimerFires
<1>5. ASSUME NEW s \in c4, NEW ok \in BOOLEAN, Form!SearchAnswered(s, ok)  PROVE Names'
  BY <1>5, AnsweredKeeps
<1>6. ASSUME Form!LoadMore \/ \E ok \in BOOLEAN : Form!PageAnswered(ok)  PROVE Names'
  BY <1>6, PagesKeep
<1>7. ASSUME UNCHANGED <<c1, c2, c3, c4, c5, c6, c7, c8>>  PROVE Names'
  BY <1>7 DEF Names, Form!Searched, Form!ShowsTheSearch, Form!Current, Form!SameSet
<1>8. CASE Form!EnterUrl \/ Form!Submit \/ Form!Refuse \/ UNCHANGED Form!formVars
  BY <1>7, <1>8 DEF Form!EnterUrl, Form!Submit, Form!Refuse, Form!formVars, Form!nameVars
<1>9. ASSUME NEW type, Form!ChooseType(type) \/ Form!PickFile(type) \/ Form!EditType(type)
      PROVE  Names'
  BY <1>7, <1>9 DEF Form!ChooseType, Form!PickFile, Form!EditType, Form!nameVars
<1>10. ASSUME NEW folder, Form!ChooseFolder(folder) \/ Form!EditFolder(folder)  PROVE Names'
  BY <1>7, <1>10 DEF Form!ChooseFolder, Form!EditFolder, Form!nameVars
<1>11. ASSUME NEW r, NEW what, Form!Resolved(r, what) \/ Form!ResolveFails(r)  PROVE Names'
  BY <1>7, <1>11 DEF Form!Resolved, Form!ResolveFails, Form!nameVars
<1>. QED BY <1>1, <1>3, <1>4, <1>5, <1>6, <1>8, <1>9, <1>10, <1>11 DEF Form!Next, Form!Search

\* A URL is resolved, with the type that is chosen for it.
LEMMA ResolveKeeps ==
  ASSUME Form!FormAssumption, Form!Linked, NEW url, NEW type, Form!ResolveUrl(url, type),
         url \in Pages \cup Links, c1' = url, c12' = type, c13' # Blank => url \in Links
  PROVE  Form!Linked'
<1>1. /\ c9 \in Nat /\ c10 \subseteq [seq : 1..c9, url : Pages] /\ c9' = c9 + 1
      /\ c16' = FALSE
  BY DEF Form!Linked, Form!ResolveUrl
<1>2. \A r \in c10 : r \in [seq : 1..c9', url : Pages] /\ r.seq # c9'
  <2>1. 1..c9 \subseteq 1..c9' /\ \A n \in 1..c9 : n # c9'  BY <1>1
  <2>. QED BY <1>1, <2>1
<1>3. CASE url \in Links
  <2>1. c10' = c10
    BY <1>3 DEF Form!ResolveUrl
  <2>2. type # Blank => c11' = [url |-> url, type |-> type] /\ c17'.type = type
    BY <1>3 DEF Form!ResolveUrl, Form!Edits, Form!FormOf
  <2>. QED BY <1>1, <1>2, <1>3, <2>1, <2>2 DEF Form!Linked
<1>4. CASE url \notin Links
  <2>1. c10' = c10 \cup {[seq |-> c9', url |-> url]} /\ url \in Pages
    BY <1>1, <1>4 DEF Form!ResolveUrl
  <2>2. [seq |-> c9', url |-> url] \in [seq : 1..c9', url : Pages]
    BY <1>1, <2>1
  <2>. QED BY <1>1, <1>2, <1>4, <2>1, <2>2 DEF Form!Linked
<1>. QED BY <1>3, <1>4

LEMMA LinksKeep ==
  ASSUME Form!FormAssumption, Form!Edited, Form!Linked, [Form!Next]_(Form!formVars)
  PROVE  Form!Linked'
<1>1. ASSUME NEW text, Form!Type(text)  PROVE Form!Linked'
  BY <1>1 DEF Form!Type, Form!Linked, Form!Renewed, Form!urlVars
<1>2. ASSUME NEW url \in Pages, Form!GoTo(url)  PROVE Form!Linked'
  BY <1>2, ResolveKeeps DEF Form!GoTo, Form!Renewed
<1>3. ASSUME UNCHANGED <<c1, c9, c10, c11, c12, c13, c16, c17>>  PROVE Form!Linked'
  BY <1>3 DEF Form!Linked
<1>4. ASSUME NEW url \in Pages, Form!SelectResult(url) \/ Form!EnterName(url)
      PROVE  Form!Linked'
  BY <1>2, <1>3, <1>4
     DEF Form!SelectResult, Form!EnterName, Form!RunSearch, Form!urlVars, Form!fileVars
<1>5. CASE Form!EnterUrl
  BY <1>5, ResolveKeeps DEF Form!EnterUrl, Form!Urls, Form!Linked
<1>6. CASE Form!LoadMore \/ Form!TimerFires \/ (\E ok \in BOOLEAN : Form!PageAnswered(ok))
           \/ (\E s \in c4, ok \in BOOLEAN : Form!SearchAnswered(s, ok))
  BY <1>3, <1>6 DEF Form!LoadMore, Form!TimerFires, Form!PageAnswered, Form!SearchAnswered,
                    Form!urlVars, Form!fileVars
<1>7. ASSUME NEW type \in Targets, Form!ChooseType(type)  PROVE Form!Linked'
  BY <1>7, ResolveKeeps DEF Form!ChooseType, Form!Linked
<1>8. ASSUME NEW type \in Targets, Form!PickFile(type)  PROVE Form!Linked'
  <2>1. /\ c11 # Blank /\ c11.url \in Pages /\ UNCHANGED <<c1, c9, c10, c12, c13, c16>>
    BY <1>8 DEF Form!PickFile, Form!fileVars
  <2>2. ~c16 /\ c1 \in Links /\ c12 # Blank => c11.url = c1
    BY DEF Form!Linked
  <2>. QED BY <2>1, <2>2 DEF Form!Linked, Form!FormAssumption
<1>9. ASSUME NEW folder, Form!ChooseFolder(folder)  PROVE Form!Linked'
  BY <1>9 DEF Form!ChooseFolder, Form!Linked, Form!urlVars
<1>10. ASSUME NEW folder, NEW type, Form!EditType(type) \/ Form!EditFolder(folder)
       PROVE  Form!Linked'
  <2>1. c11 # Blank /\ UNCHANGED <<c1, c9, c10, c11, c12, c13, c16>>
    BY <1>10 DEF Form!EditType, Form!EditFolder, Form!fileVars
  <2>2. c17'.edited \/ (c17'.type = c17.type /\ c17'.edited = c17.edited)
    BY <1>10, <2>1 DEF Form!EditType, Form!EditFolder, Form!Edited, Form!Forms
  <2>. QED BY <2>1, <2>2 DEF Form!Linked
<1>11. ASSUME NEW r \in c10, NEW what, Form!Resolved(r, what)  PROVE Form!Linked'
  <2>1. /\ c10' = c10 \ {r} /\ c16' = (c16 \/ r.seq # c9) /\ UNCHANGED <<c1, c9, c12, c13>>
    BY <1>11 DEF Form!Resolved
  <2>2. ~(c1 \in Links /\ c12 # Blank /\ ~c16')
    BY <2>1 DEF Form!Linked
  <2>. QED BY <2>1, <2>2 DEF Form!Linked
<1>12. ASSUME NEW r \in c10, Form!ResolveFails(r)  PROVE Form!Linked'
  BY <1>12 DEF Form!ResolveFails, Form!Linked
<1>13. CASE Form!Submit \/ Form!Refuse \/ UNCHANGED Form!formVars
  BY <1>3, <1>13 DEF Form!Submit, Form!Refuse, Form!formVars, Form!urlVars, Form!fileVars
<1>. QED BY <1>1, <1>4, <1>5, <1>6, <1>7, <1>8, <1>9, <1>10, <1>11, <1>12, <1>13
         DEF Form!Next, Form!Search

\* A model comes with an editor of its own.
LEMMA EditorIs ==
  ASSUME NEW model \in [url : Form!Urls, type : Targets], Form!Edits(model),
         c12' \in Targets \cup {Blank}
  PROVE  Form!Edited'
<1>1. c17' = [url |-> model.url, type |-> model.type, folder |-> Blank, edited |-> FALSE]
  BY DEF Form!Edits, Form!FormOf
<1>2. c17' \in Form!Forms /\ c17'.url = model.url
  BY <1>1 DEF Form!Forms
<1>. QED BY <1>2 DEF Form!Edits, Form!Edited

LEMMA EditorsKeep ==
  ASSUME Form!Edited, Form!Linked, [Form!Next]_(Form!formVars)
  PROVE  Form!Edited'
<1>1. ASSUME UNCHANGED <<c11, c17, c18>>, c12' \in Targets \cup {Blank}  PROVE Form!Edited'
  BY <1>1 DEF Form!Edited
<1>0. c12 \in Targets \cup {Blank}
  BY DEF Form!Edited
<1>2. ASSUME NEW url, NEW type \in Targets \cup {Blank}, Form!ResolveUrl(url, type),
             c12' \in Targets \cup {Blank}
      PROVE  Form!Edited'
  <2>1. CASE url \in Links /\ type # Blank
    <3>1. [url |-> url, type |-> type] \in [url : Form!Urls, type : Targets]
      BY <2>1 DEF Form!Urls
    <3>2. Form!Edits([url |-> url, type |-> type])
      BY <1>2, <2>1 DEF Form!ResolveUrl
    <3>. QED BY <1>2, <3>1, <3>2, EditorIs
  <2>2. CASE ~(url \in Links /\ type # Blank)
    BY <1>1, <1>2, <2>2 DEF Form!ResolveUrl
  <2>. QED BY <2>1, <2>2
<1>3. ASSUME NEW text, Form!Type(text)  PROVE Form!Edited'
  BY <1>1, <1>3 DEF Form!Type, Form!Renewed, Form!urlVars
<1>4. ASSUME NEW url, Form!GoTo(url)  PROVE Form!Edited'
  BY <1>2, <1>4 DEF Form!GoTo, Form!Renewed
<1>5. ASSUME NEW url \in Pages, Form!SelectResult(url) \/ Form!EnterName(url)
      PROVE  Form!Edited'
  BY <1>0, <1>1, <1>4, <1>5 DEF Form!SelectResult, Form!EnterName, Form!urlVars, Form!fileVars
<1>6. CASE Form!EnterUrl
  BY <1>0, <1>2, <1>6 DEF Form!EnterUrl
<1>7. CASE Form!LoadMore \/ Form!TimerFires \/ (\E ok \in BOOLEAN : Form!PageAnswered(ok))
           \/ (\E s \in c4, ok \in BOOLEAN : Form!SearchAnswered(s, ok))
  BY <1>0, <1>1, <1>7 DEF Form!LoadMore, Form!TimerFires, Form!PageAnswered, Form!SearchAnswered,
                         Form!urlVars, Form!fileVars
<1>8. ASSUME NEW type \in Targets, Form!ChooseType(type)  PROVE Form!Edited'
  BY <1>2, <1>8 DEF Form!ChooseType
<1>9. ASSUME NEW type \in Targets, Form!PickFile(type)  PROVE Form!Edited'
  <2>1. /\ c11 # Blank /\ c11' = [c11 EXCEPT !.type = type] /\ c12' = c12
        /\ c17' \in c18 \cup {c17, Form!FormOf(c11')} /\ c18' = (c18 \cup {c17}) \ {c17'}
    BY <1>9 DEF Form!PickFile, Form!fileVars
  <2>2. c11' \in [url : Form!Urls, type : Targets] /\ c11'.url = c11.url
    BY <2>1 DEF Form!Edited
  <2>3. Form!FormOf(c11') \in Form!Forms /\ Form!FormOf(c11').url = c11.url
    BY <2>2 DEF Form!FormOf, Form!Forms
  <2>4. c18 \cup {c17} \subseteq Form!Forms /\ \A e \in c18 \cup {c17} : e.url = c11.url
    BY <2>1 DEF Form!Edited
  <2>. QED BY <1>0, <2>1, <2>2, <2>3, <2>4 DEF Form!Edited
<1>10. ASSUME NEW folder \in SubFolders \cup {Blank}, Form!ChooseFolder(folder)
       PROVE  Form!Edited'
  BY <1>0, <1>1, <1>10 DEF Form!ChooseFolder, Form!urlVars
<1>11. ASSUME NEW e \in Form!Forms, e.url = c17.url, c17' = e, c11 # Blank,
              UNCHANGED <<c11, c12, c18>>
       PROVE  Form!Edited'
  BY <1>11 DEF Form!Edited
<1>12. ASSUME NEW type \in Targets, Form!EditType(type)  PROVE Form!Edited'
  <2>1. /\ c11 # Blank /\ c17' = [c17 EXCEPT !.type = type, !.folder = Blank, !.edited = TRUE]
        /\ UNCHANGED <<c11, c12, c18>>
    BY <1>12 DEF Form!EditType, Form!fileVars
  <2>2. c17' \in Form!Forms /\ c17'.url = c17.url
    BY <2>1 DEF Form!Edited, Form!Forms
  <2>. QED BY <1>11, <2>1, <2>2
<1>13. ASSUME NEW folder \in SubFolders \cup {Blank}, Form!EditFolder(folder)
       PROVE  Form!Edited'
  <2>1. /\ c11 # Blank /\ c17' = [c17 EXCEPT !.folder = folder] /\ UNCHANGED <<c11, c12, c18>>
    BY <1>13 DEF Form!EditFolder, Form!fileVars
  <2>2. c17' \in Form!Forms /\ c17'.url = c17.url
    BY <2>1 DEF Form!Edited, Form!Forms
  <2>. QED BY <1>11, <2>1, <2>2
<1>14. ASSUME NEW r \in c10, NEW what, what = Blank \/ what \in [url : Form!Urls, type : Targets],
              Form!Resolved(r, what)
       PROVE  Form!Edited'
  <2>1. c12' = c12 /\ (what = Blank => c11' = Blank /\ c17' = Blank /\ c18' = {})
    BY <1>14 DEF Form!Resolved
  <2>2. CASE what = Blank
    BY <1>0, <2>1, <2>2 DEF Form!Edited
  <2>3. CASE what # Blank
    <3>1. Form!Edits(what)  BY <1>14, <2>3 DEF Form!Resolved
    <3>. QED BY <1>0, <1>14, <2>1, <2>3, <3>1, EditorIs
  <2>. QED BY <2>2, <2>3
<1>15. ASSUME NEW r \in c10, NEW type \in Targets
       PROVE  [url |-> r.url, type |-> type] \in [url : Form!Urls, type : Targets]
  BY DEF Form!Linked, Form!Urls
<1>16. ASSUME NEW r \in c10, Form!ResolveFails(r)  PROVE Form!Edited'
  BY <1>0, <1>1, <1>16 DEF Form!ResolveFails
<1>17. CASE Form!Submit \/ Form!Refuse \/ UNCHANGED Form!formVars
  BY <1>0, <1>1, <1>17 DEF Form!Submit, Form!Refuse, Form!formVars, Form!urlVars, Form!fileVars
<1>. QED BY <1>3, <1>5, <1>6, <1>7, <1>8, <1>9, <1>10, <1>12, <1>13, <1>14, <1>15, <1>16, <1>17
         DEF Form!Next, Form!Search

LEMMA FormStart == Form!FormAssumption /\ Form!Init => Form!FormInv
<1>. SUFFICES ASSUME Form!FormAssumption, Form!Init  PROVE Form!FormInv
  OBVIOUS
<1>1. Form!Searched
  BY DEF Form!FormAssumption, Form!Init, Form!Searched
<1>2. Form!ShowsTheSearch
  BY DEF Form!FormAssumption, Form!Init, Form!ShowsTheSearch
<1>3. Form!Linked /\ Form!Edited
  BY DEF Form!Init, Form!Linked, Form!Edited
<1>. QED BY <1>1, <1>2, <1>3 DEF Form!FormInv

LEMMA FormStep ==
  ASSUME Form!FormAssumption, Form!FormInv, [Form!Next]_(Form!formVars)
  PROVE  Form!FormInv' /\ Form!SubmitsTheField
<1>1. Form!FormInv'
  BY NamesKeep, LinksKeep, EditorsKeep DEF Form!FormInv, Names
<1>2. ASSUME Form!Submit  PROVE Form!SubmitsTheField
  <2>1. /\ c11 # Blank /\ (c1 \in Links => c12 # Blank)
        /\ c15'.url = c17.url /\ c15'.type = c17.type
        /\ c15'.folder = IF c17.folder # Blank THEN c17.folder ELSE c13
    BY <1>2 DEF Form!Submit
  <2>2. c17.url = c11.url
    BY <2>1 DEF Form!FormInv, Form!Edited
  <2>3. /\ ~c16 /\ c1 \in Links => c11.url = c1 /\ (c17.edited \/ c17.type = c12)
        /\ c13 # Blank => c1 \in Links
    BY <2>1 DEF Form!FormInv, Form!Linked
  <2>. QED BY <2>1, <2>2, <2>3 DEF Form!SubmitsTheField
<1>3. ASSUME Form!Refuse \/ c15' = c15  PROVE Form!SubmitsTheField
  BY <1>3 DEF Form!Refuse, Form!SubmitsTheField
<1>4. Form!Submit \/ Form!Refuse \/ c15' = c15
  BY DEF Form!Next, Form!formVars
<1>. QED BY <1>1, <1>2, <1>3, <1>4

-----------------------------------------------------------------------------
(* The plan of a download.  Of its variables the proof names the versions c1, *)
(* the one that is chosen c2, the free space c3, the requests for it c4, the  *)
(* hubs with a token c5, the accounts c6, and the history of crossings c7.    *)

\* The requests lose one.
LEMMA OneAnswered ==
  ASSUME NEW t, NEW i \in DOMAIN <<t>>
  PROVE  /\ SubSeq(<<t>>, 1, i - 1) \o SubSeq(<<t>>, i + 1, Len(<<t>>)) = <<>>
         /\ <<t>>[i] = t
<1>1. i = 1 /\ Len(<<t>>) = 1  OBVIOUS
<1>2. SubSeq(<<t>>, 1, 0) = <<>> /\ SubSeq(<<t>>, 2, 1) = <<>>  OBVIOUS
<1>. QED BY <1>1, <1>2

\* A version of a type is shown.
LEMMA WatchedKeeps ==
  ASSUME NEW type, Plan!Watched(type)
  PROVE  ~c7' => \/ c4' = <<>> /\ c3' \in {None, type}
                 \/ c4' = <<type>>
<1>. SUFFICES ASSUME c4 = <<>>
              PROVE  (c4' = <<>> /\ c3' \in {None, type}) \/ c4' = <<type>>
  BY DEF Plan!Watched
<1>1. CASE type = None
  BY <1>1 DEF Plan!Watched
<1>2. CASE type # None
  <2>1. c4' = Append(<<>>, type)  BY <1>2 DEF Plan!Watched
  <2>. QED BY <2>1
<1>. QED BY <1>1, <1>2

LEMMA PlanStep ==
  ASSUME Plan!PlanAssumption, Plan!PlanInv, [Plan!Next]_(Plan!planVars)
  PROVE  Plan!PlanInv'
<1>1. ASSUME NEW versions \in SUBSET Versions, Plan!Resolved(versions)  PROVE Plan!PlanInv'
  <2>1. CASE versions = {}
    BY <1>1, <2>1, WatchedKeeps DEF Plan!Resolved, Plan!PlanInv
  <2>2. CASE versions # {}
    <3>1. PICK v \in versions : c2' = v /\ Plan!Watched(TypeOf[v])
      BY <1>1, <2>2 DEF Plan!Resolved
    <3>2. c1' = [w \in versions |-> TypeOf[w]] /\ UNCHANGED <<c5, c6>>
      BY <1>1, <3>1 DEF Plan!Resolved
    <3>3. \A w \in versions : c1'[w] = TypeOf[w] /\ TypeOf[w] \in Plan!TypeNames
      BY <3>2 DEF Plan!TypeNames
    <3>. QED BY <3>1, <3>2, <3>3, WatchedKeeps DEF Plan!PlanInv
  <2>. QED BY <2>1, <2>2
<1>2. ASSUME NEW v, Plan!PickVersion(v)  PROVE Plan!PlanInv'
  <2>1. c2' = v /\ v \in DOMAIN c1 /\ Plan!Watched(c1[v]) /\ UNCHANGED <<c1, c5, c6>>
    BY <1>2 DEF Plan!PickVersion
  <2>. QED BY <2>1, WatchedKeeps DEF Plan!PlanInv
<1>3. CASE Plan!PickRoutedFile
  BY <1>3 DEF Plan!PickRoutedFile, Plan!PlanInv, Plan!TypeNames
<1>4. ASSUME NEW i \in DOMAIN c4, Plan!Answered(i)  PROVE Plan!PlanInv'
  <2>1. /\ c3' = c4[i] \/ c3' = None
        /\ c4' = SubSeq(c4, 1, i - 1) \o SubSeq(c4, i + 1, Len(c4)) /\ UNCHANGED <<c1, c2, c5, c6, c7>>
    BY <1>4 DEF Plan!Answered
  <2>2. ASSUME c4 = <<c1[c2]>>  PROVE c4' = <<>> /\ c3' \in {None, c1[c2]}
    BY <1>4, <2>1, <2>2, OneAnswered
  <2>3. c4 # <<>>  BY <1>4
  <2>. QED BY <2>1, <2>2, <2>3 DEF Plan!PlanInv
<1>5. ASSUME NEW hubs, Plan!AuthAnswered(hubs) \/ Plan!WhoamisAnswered(hubs)
      PROVE  Plan!PlanInv'
  BY <1>5 DEF Plan!AuthAnswered, Plan!WhoamisAnswered, Plan!PlanInv
<1>6. CASE UNCHANGED Plan!planVars
  BY <1>6 DEF Plan!planVars, Plan!PlanInv
<1>. QED BY <1>1, <1>2, <1>3, <1>4, <1>5, <1>6 DEF Plan!Next

\* What the invariant says of the rows of the plan.
LEMMA PlanTells ==
  ASSUME Plan!PlanAssumption, Plan!PlanInv
  PROVE  Plan!PlanIsTrue
<1>1. ASSUME Plan!FreeRow, c4 = <<>>, ~c7  PROVE c3 = Plan!TargetRow
  <2>1. c2 # None /\ c3 # None /\ c3 = c1[c2]
    BY <1>1 DEF Plan!FreeRow, Plan!PlanInv
  <2>2. c1[c2] \in Plan!TypeNames  BY <2>1 DEF Plan!PlanInv
  <2>3. Plan!Plan # None /\ Plan!Plan.target = c1[c2]
    <3>. DEFINE ok == HubOf[c2] # None => c5 # None /\ HubOf[c2] \in c5
    <3>1. Plan!Plan = [target |-> c1[c2], authOk |-> ok]  BY <2>1 DEF Plan!Plan
    <3>2. Plan!Plan \in [target : Plan!TypeNames, authOk : BOOLEAN]  BY <2>2, <3>1
    <3>. QED BY <3>1, <3>2 DEF Plan!PlanAssumption
  <2>. QED BY <2>1, <2>3 DEF Plan!TargetRow
<1>2. ASSUME Plan!Plan # None, HubOf[c2] \in Plan!AccountRows  PROVE Plan!AuthRow
  BY <1>2 DEF Plan!Plan, Plan!AccountRows, Plan!AuthRow, Plan!PlanInv
<1>. QED BY <1>1, <1>2 DEF Plan!PlanIsTrue

-----------------------------------------------------------------------------
(* The uploads to a hub.  Of their variables the proof names the uploads c1,  *)
(* the POSTs c2, the events c3, the id of the bar c4, whether it is on c5, the *)
(* finished ids c6, and the histories c7 and c8.                               *)

\* What is true of the events and of the uploads while none was lost and none of
\* another page's was taken.
Told ==
  /\ Bar!Ordered
  /\ \A t, u \in Own : Bar!Live(t) /\ Bar!Live(u) => t = u
  /\ c5 <=> \E t \in Own : Bar!Live(t)
  /\ c4 # Nobody => Bar!Live(c4) /\ c1[c4] # "none"
  /\ \A t \in c2 : Bar!Live(t) \/ t \in c6

BarTypes ==
  /\ c1 \in [Bar!HubUploads -> {"none", "running", "ended", "silent"}] /\ c2 \subseteq Own
  /\ c3 \in Seq(Bar!Events) /\ c4 \in Own \cup {Nobody} /\ c5 \in BOOLEAN

LEMMA BarInvIs == Bar!HubInv <=> BarTypes /\ (~c8 /\ ~c7 => Told)
BY DEF Bar!HubInv, BarTypes, Told

LEMMA BarInvStays == Bar!HubInv' <=> BarTypes' /\ (~c8' /\ ~c7' => Told')
BY DEF Bar!HubInv, BarTypes, Told

Event(t, sort) == [task |-> t, sort |-> sort]

\* Of a queue of events and what has become of the uploads: the end of t is on its way,
\* and the events come in their order.
EndIn(queue, t) == \E i \in DOMAIN queue : queue[i] = Event(t, "end")

OrderedIn(queue, up) ==
  \A i \in DOMAIN queue :
    IF queue[i].sort = "end"
      THEN /\ up[queue[i].task] = "ended"
           /\ \A j \in DOMAIN queue : i < j => queue[j].task # queue[i].task
      ELSE \/ up[queue[i].task] = "running"
           \/ \E j \in DOMAIN queue : i < j /\ queue[j] = Event(queue[i].task, "end")

LEMMA EventsAre ==
  /\ Bar!Ordered <=> OrderedIn(c3, c1)
  /\ Bar!Ordered' <=> OrderedIn(c3', c1')
  /\ \A t : Bar!Ending(t) <=> EndIn(c3, t)
  /\ \A t : Bar!Ending(t)' <=> EndIn(c3', t)
BY DEF Bar!Ordered, OrderedIn, Bar!Ending, EndIn, Event

\* What the backend sends: an event, or a last progress and the end.
LEMMA SendsOne ==
  ASSUME BarTypes, NEW t \in Bar!HubUploads, NEW sort \in {"progress", "end"},
         Bar!Sends(t, <<sort>>)
  PROVE  c3' = Append(c3, Event(t, sort)) /\ c3' \in Seq(Bar!Events)
<1>1. Event(t, sort) \in Bar!Events  BY DEF Event, Bar!Events
<1>2. c3' = c3 \o [i \in DOMAIN <<sort>> |-> Event(t, <<sort>>[i])]
  BY DEF Bar!Sends, Event
<1>3. [i \in DOMAIN <<sort>> |-> Event(t, <<sort>>[i])] = <<Event(t, sort)>>
  OBVIOUS
<1>. QED BY <1>1, <1>2, <1>3 DEF BarTypes

LEMMA SendsTwo ==
  ASSUME BarTypes, NEW t \in Bar!HubUploads, Bar!Sends(t, <<"progress", "end">>)
  PROVE  /\ c3' = Append(Append(c3, Event(t, "progress")), Event(t, "end"))
         /\ Append(c3, Event(t, "progress")) \in Seq(Bar!Events) /\ c3' \in Seq(Bar!Events)
<1>. DEFINE sorts == <<"progress", "end">>
<1>1. Event(t, "progress") \in Bar!Events /\ Event(t, "end") \in Bar!Events
  BY DEF Event, Bar!Events
<1>2. c3' = c3 \o [i \in DOMAIN sorts |-> Event(t, sorts[i])]
  BY DEF Bar!Sends, Event
<1>3. [i \in DOMAIN sorts |-> Event(t, sorts[i])] = <<Event(t, "progress"), Event(t, "end")>>
  OBVIOUS
<1>. QED BY <1>1, <1>2, <1>3 DEF BarTypes

States == {"none", "running", "ended", "silent"}

\* The upload t runs, or goes on, and says so.
LEMMA Progresses ==
  ASSUME NEW q \in Seq(Bar!Events), NEW r, NEW up \in [Bar!HubUploads -> States],
         NEW upon, OrderedIn(q, up), NEW t \in Bar!HubUploads,
         up[t] \in {"none", "running"}, upon = [up EXCEPT ![t] = "running"],
         r = Append(q, Event(t, "progress")), r \in Seq(Bar!Events)
  PROVE  OrderedIn(r, upon) /\ \A u : EndIn(r, u) <=> EndIn(q, u)
<1>. DEFINE n == Len(q)
<1>1. /\ n \in Nat /\ Len(r) = n + 1 /\ r[n + 1] = Event(t, "progress")
      /\ \A i \in 1..n : r[i] = q[i] /\ q[i] \in Bar!Events
  OBVIOUS
<1>2. DOMAIN q = 1..n /\ DOMAIN r = 1..n + 1  BY <1>1
<1>. HIDE DEF n
<1>3. upon[t] = "running" /\ \A u \in Bar!HubUploads : u # t => upon[u] = up[u]
  OBVIOUS
<1>4. Event(t, "progress").sort # "end" /\ Event(t, "progress").task = t
      /\ \A u : Event(t, "progress") # Event(u, "end")
  BY DEF Event
<1>5. \A i \in DOMAIN r : i = n + 1 \/ i \in 1..n  BY <1>1, <1>2
<1>6. ASSUME NEW u  PROVE EndIn(r, u) <=> EndIn(q, u)
  <2>1. EndIn(q, u) <=> \E i \in DOMAIN q : q[i] = Event(u, "end")
    BY DEF EndIn
  <2>2. EndIn(r, u) <=> \E i \in DOMAIN r : r[i] = Event(u, "end")
    BY DEF EndIn
  <2>. QED BY <1>1, <1>2, <1>4, <1>5, <2>1, <2>2
<1>7. ASSUME NEW i \in 1..n, q[i].sort = "end"
      PROVE  /\ upon[q[i].task] = "ended"
             /\ \A j \in DOMAIN r : i < j => r[j].task # q[i].task
  <2>1. /\ up[q[i].task] = "ended" /\ q[i].task \in Bar!HubUploads
        /\ \A j \in DOMAIN q : i < j => q[j].task # q[i].task
    BY <1>1, <1>2, <1>7 DEF OrderedIn, Bar!Events
  <2>2. q[i].task # t  BY <2>1
  <2>. QED BY <1>1, <1>2, <1>3, <1>4, <1>5, <2>1, <2>2
<1>8. ASSUME NEW i \in 1..n, q[i].sort # "end"
      PROVE  \/ upon[q[i].task] = "running"
             \/ \E j \in DOMAIN r : i < j /\ r[j] = Event(q[i].task, "end")
  <2>1. \/ up[q[i].task] = "running"
        \/ \E j \in DOMAIN q : i < j /\ q[j] = Event(q[i].task, "end")
    BY <1>1, <1>2, <1>8 DEF OrderedIn
  <2>2. q[i].task \in Bar!HubUploads  BY <1>1 DEF Bar!Events
  <2>. QED BY <1>1, <1>2, <1>3, <2>1, <2>2
<1>9. OrderedIn(r, upon)
  <2>1. \A i \in DOMAIN r :
          IF r[i].sort = "end"
            THEN /\ upon[r[i].task] = "ended"
                 /\ \A j \in DOMAIN r : i < j => r[j].task # r[i].task
            ELSE \/ upon[r[i].task] = "running"
                 \/ \E j \in DOMAIN r : i < j /\ r[j] = Event(r[i].task, "end")
    BY <1>1, <1>3, <1>4, <1>5, <1>7, <1>8
  <2>. QED BY <2>1 DEF OrderedIn
<1>. QED BY <1>6, <1>9

\* Its end is sent.
LEMMA Finishes ==
  ASSUME NEW q, NEW r, NEW up, NEW upon, NEW t \in Bar!HubUploads,
         q \in Seq(Bar!Events), up \in [Bar!HubUploads -> States], OrderedIn(q, up),
         up[t] # "ended", upon = [up EXCEPT ![t] = "ended"],
         r = Append(q, Event(t, "end")), r \in Seq(Bar!Events)
  PROVE  OrderedIn(r, upon) /\ \A u : EndIn(r, u) <=> EndIn(q, u) \/ u = t
<1>. DEFINE n == Len(q)
<1>1. /\ n \in Nat /\ Len(r) = n + 1 /\ r[n + 1] = Event(t, "end")
      /\ \A i \in 1..n : r[i] = q[i] /\ q[i] \in Bar!Events
  OBVIOUS
<1>2. DOMAIN q = 1..n /\ DOMAIN r = 1..n + 1  BY <1>1
<1>. HIDE DEF n
<1>3. upon[t] = "ended" /\ \A u \in Bar!HubUploads : u # t => upon[u] = up[u]
  OBVIOUS
<1>4. /\ Event(t, "end").sort = "end" /\ Event(t, "end").task = t
      /\ \A u : Event(t, "end") = Event(u, "end") <=> u = t
  BY DEF Event
<1>5. \A i \in DOMAIN r : i = n + 1 \/ i \in 1..n  BY <1>1, <1>2
<1>6. ASSUME NEW u  PROVE EndIn(r, u) <=> EndIn(q, u) \/ u = t
  <2>1. EndIn(q, u) <=> \E i \in DOMAIN q : q[i] = Event(u, "end")
    BY DEF EndIn
  <2>2. EndIn(r, u) <=> \E i \in DOMAIN r : r[i] = Event(u, "end")
    BY DEF EndIn
  <2>3. n + 1 \in DOMAIN r /\ \A i \in DOMAIN q : i \in DOMAIN r
    BY <1>1, <1>2
  <2>. QED BY <1>1, <1>2, <1>4, <1>5, <2>1, <2>2, <2>3
<1>7. ASSUME NEW i \in 1..n, q[i].sort = "end"
      PROVE  /\ upon[q[i].task] = "ended"
             /\ \A j \in DOMAIN r : i < j => r[j].task # q[i].task
  <2>1. /\ up[q[i].task] = "ended" /\ q[i].task \in Bar!HubUploads
        /\ \A j \in DOMAIN q : i < j => q[j].task # q[i].task
    BY <1>1, <1>2, <1>7 DEF OrderedIn, Bar!Events
  <2>2. q[i].task # t  BY <2>1
  <2>. QED BY <1>1, <1>2, <1>3, <1>4, <1>5, <2>1, <2>2
<1>8. ASSUME NEW i \in 1..n, q[i].sort # "end"
      PROVE  \/ upon[q[i].task] = "running"
             \/ \E j \in DOMAIN r : i < j /\ r[j] = Event(q[i].task, "end")
  <2>1. \/ up[q[i].task] = "running"
        \/ \E j \in DOMAIN q : i < j /\ q[j] = Event(q[i].task, "end")
    BY <1>1, <1>2, <1>8 DEF OrderedIn
  <2>2. q[i].task \in Bar!HubUploads  BY <1>1 DEF Bar!Events
  <2>3. n + 1 \in DOMAIN r /\ i < n + 1  BY <1>1, <1>2
  <2>. QED BY <1>1, <1>2, <1>3, <2>1, <2>2, <2>3
<1>9. OrderedIn(r, upon)
  <2>0. \A j \in DOMAIN r : ~(n + 1 < j)  BY <1>1, <1>2
  <2>1. \A i \in DOMAIN r :
          IF r[i].sort = "end"
            THEN /\ upon[r[i].task] = "ended"
                 /\ \A j \in DOMAIN r : i < j => r[j].task # r[i].task
            ELSE \/ upon[r[i].task] = "running"
                 \/ \E j \in DOMAIN r : i < j /\ r[j] = Event(r[i].task, "end")
    BY <1>1, <1>3, <1>4, <1>5, <1>7, <1>8, <2>0
  <2>. QED BY <2>1 DEF OrderedIn
<1>. QED BY <1>6, <1>9

\* Its first event is taken, which was the last of its upload if it was the end.
LEMMA Takes ==
  ASSUME NEW q \in Seq(Bar!Events), q # <<>>, NEW up, OrderedIn(q, up)
  PROVE  /\ OrderedIn(Tail(q), up)
         /\ \A u : EndIn(Tail(q), u) <=> EndIn(q, u) /\ Head(q) # Event(u, "end")
         /\ Head(q) \in Bar!Events
         /\ IF Head(q).sort = "end"
              THEN up[Head(q).task] = "ended" /\ Head(q) = Event(Head(q).task, "end")
              ELSE up[Head(q).task] = "running" \/ EndIn(q, Head(q).task)
<1>. DEFINE n == Len(q)
            r == Tail(q)
<1>1. /\ n \in Nat \ {0} /\ Len(r) = n - 1 /\ Head(q) = q[1]
      /\ \A i \in 1..n - 1 : r[i] = q[i + 1] /\ i + 1 \in 1..n
      /\ \A i \in 1..n : q[i] \in Bar!Events
  OBVIOUS
<1>2. DOMAIN q = 1..n /\ DOMAIN r = 1..n - 1
  OBVIOUS
<1>. HIDE DEF n, r
<1>3. \A i \in 1..n : i = 1 \/ (i - 1 \in 1..n - 1 /\ r[i - 1] = q[i])
  <2>1. \A i \in 1..n : i = 1 \/ (i - 1 \in 1..n - 1 /\ i - 1 + 1 = i)
    BY <1>1
  <2>. QED BY <1>1, <2>1
<1>4. ASSUME NEW i \in 1..n - 1
      PROVE  IF r[i].sort = "end"
               THEN /\ up[r[i].task] = "ended"
                    /\ \A j \in DOMAIN r : i < j => r[j].task # r[i].task
               ELSE \/ up[r[i].task] = "running"
                    \/ \E j \in DOMAIN r : i < j /\ r[j] = Event(r[i].task, "end")
  <2>1. r[i] = q[i + 1] /\ i + 1 \in DOMAIN q  BY <1>1, <1>2
  <2>2. CASE r[i].sort = "end"
    <3>1. /\ up[r[i].task] = "ended"
          /\ \A j \in DOMAIN q : i + 1 < j => q[j].task # r[i].task
      BY <2>1, <2>2 DEF OrderedIn
    <3>2. \A j \in 1..n - 1 : i < j => i + 1 < j + 1  OBVIOUS
    <3>. QED BY <1>1, <1>2, <2>2, <3>1, <3>2
  <2>3. CASE r[i].sort # "end"
    <3>1. \/ up[r[i].task] = "running"
          \/ \E j \in DOMAIN q : i + 1 < j /\ q[j] = Event(r[i].task, "end")
      BY <2>1, <2>3 DEF OrderedIn
    <3>2. \A j \in 1..n : i + 1 < j => j # 1 /\ i < j - 1  BY <1>1
    <3>. QED BY <1>2, <1>3, <2>3, <3>1, <3>2
  <2>. QED BY <2>2, <2>3
<1>5. OrderedIn(r, up)  BY <1>2, <1>4 DEF OrderedIn
<1>6. 1 \in DOMAIN q /\ \A e \in Bar!Events : e.sort = "end" => e = Event(e.task, "end")
  BY <1>1, <1>2 DEF Bar!Events, Event
<1>7. IF q[1].sort = "end"
        THEN up[q[1].task] = "ended" /\ q[1] = Event(q[1].task, "end")
        ELSE up[q[1].task] = "running" \/ EndIn(q, q[1].task)
  BY <1>1, <1>2, <1>6 DEF OrderedIn, EndIn
<1>8. ASSUME NEW u  PROVE EndIn(r, u) <=> EndIn(q, u) /\ q[1] # Event(u, "end")
  <2>1. ASSUME EndIn(r, u)  PROVE EndIn(q, u)
    <3>1. PICK i \in 1..n - 1 : r[i] = Event(u, "end")  BY <1>2, <2>1 DEF EndIn
    <3>. QED BY <1>1, <1>2, <3>1 DEF EndIn
  <2>2. ASSUME EndIn(r, u), q[1] = Event(u, "end")  PROVE FALSE
    <3>1. PICK i \in 1..n - 1 : r[i] = Event(u, "end")  BY <1>2, <2>2 DEF EndIn
    <3>2. q[i + 1] = q[1] /\ 1 < i + 1 /\ i + 1 \in DOMAIN q  BY <1>1, <1>2, <2>2, <3>1
    <3>3. q[1].sort = "end"  BY <2>2 DEF Event
    <3>4. \A j \in DOMAIN q : 1 < j => q[j].task # q[1].task
      BY <1>6, <3>3 DEF OrderedIn
    <3>. QED BY <3>2, <3>4
  <2>3. ASSUME EndIn(q, u), q[1] # Event(u, "end")  PROVE EndIn(r, u)
    <3>1. PICK i \in 1..n : q[i] = Event(u, "end")  BY <1>2, <2>3 DEF EndIn
    <3>. QED BY <1>2, <1>3, <2>3, <3>1 DEF EndIn
  <2>. QED BY <2>1, <2>2, <2>3
<1>9. Tail(q) = r  BY DEF r
<1>10. Head(q) = q[1] /\ q[1] \in Bar!Events  BY <1>1
<1>11. OrderedIn(Tail(q), up)  BY <1>5, <1>9, Zenon
<1>12. \A u : EndIn(Tail(q), u) <=> EndIn(q, u) /\ Head(q) # Event(u, "end")
  BY <1>8, <1>9, <1>10, Zenon
<1>13. IF Head(q).sort = "end"
         THEN up[Head(q).task] = "ended" /\ Head(q) = Event(Head(q).task, "end")
         ELSE up[Head(q).task] = "running" \/ EndIn(q, Head(q).task)
  BY <1>7, <1>10, Zenon
<1>. QED BY <1>10, <1>11, <1>12, <1>13, Zenon

\* An upload that has not begun has no event on its way, and may end without one.
LEMMA Unsent ==
  ASSUME NEW q \in Seq(Bar!Events), NEW up \in [Bar!HubUploads -> States], NEW upon,
         OrderedIn(q, up), NEW t \in Bar!HubUploads, up[t] = "none",
         upon = [up EXCEPT ![t] = "ended"]
  PROVE  OrderedIn(q, upon) /\ ~EndIn(q, t)
<1>1. \A i \in DOMAIN q : q[i] \in Bar!Events  OBVIOUS
<1>2. ASSUME NEW i \in DOMAIN q, q[i].task = t  PROVE FALSE
  <2>1. q[i].sort = "end" => up[t] = "ended"  BY <1>2 DEF OrderedIn
  <2>2. q[i].sort # "end" => up[t] = "running" \/ \E j \in DOMAIN q : q[j] = Event(t, "end")
    BY <1>2 DEF OrderedIn
  <2>3. \A j \in DOMAIN q : q[j] = Event(t, "end") => up[t] = "ended"
    BY DEF OrderedIn, Event
  <2>. QED BY <2>1, <2>2, <2>3
<1>3. ~EndIn(q, t)  BY <1>2 DEF EndIn, Event
<1>4. \A i \in DOMAIN q : upon[q[i].task] = up[q[i].task]
  <2>1. \A i \in DOMAIN q : q[i].task \in Bar!HubUploads /\ q[i].task # t
    BY <1>1, <1>2 DEF Bar!Events
  <2>. QED BY <2>1
<1>5. OrderedIn(q, upon)  BY <1>4 DEF OrderedIn
<1>. QED BY <1>3, <1>5

\* A step of the backend that leaves the uploads of this page as live as they were.
LEMMA AsLive ==
  ASSUME Bar!HubAssumption, BarTypes, Told, Bar!Ordered',
         \A t \in Own : Bar!Live(t)' <=> Bar!Live(t),
         \A t \in Own : c1[t] # "none" => c1'[t] # "none",
         UNCHANGED <<c2, c4, c5, c6>>
  PROVE  Told'
<1>1. c4 # Nobody => c4 \in Own  BY DEF BarTypes
<1>2. c2 \subseteq Own  BY DEF BarTypes
<1>3. c4' # Nobody => Bar!Live(c4)' /\ c1'[c4'] # "none"
  <2>1. c4 # Nobody => Bar!Live(c4) /\ c1[c4] # "none"  BY DEF Told
  <2>2. \A t \in Own : c4 = t => (Bar!Live(c4)' <=> Bar!Live(t)')
    BY DEF Bar!Live, Bar!Ending
  <2>. QED BY <1>1, <2>1, <2>2
<1>4. /\ \A t, u \in Own : Bar!Live(t)' /\ Bar!Live(u)' => t = u
      /\ c5' <=> \E t \in Own : Bar!Live(t)'
      /\ \A t \in c2' : Bar!Live(t)' \/ t \in c6'
  BY <1>2 DEF Told
<1>. QED BY <1>3, <1>4 DEF Told

LEMMA BackendTells ==
  ASSUME Bar!HubAssumption, BarTypes, Told, NEW t \in Bar!HubUploads,
         \/ Bar!Start(t) \/ Bar!Progress(t)
         \/ \E sorts \in {<<"progress", "end">>, <<"end">>} : Bar!Ends(t, sorts)
  PROVE  BarTypes' /\ Told'
<1>1. OrderedIn(c3, c1) /\ c3 \in Seq(Bar!Events) /\ c1 \in [Bar!HubUploads -> States]
  BY EventsAre DEF Told, BarTypes, States
<1>2. \A u \in Own : u \in Bar!HubUploads  BY DEF Bar!HubUploads
<1>3. ASSUME c1[t] \in {"none", "running"}, c1[t] = "none" => t \in c2 \cup Other,
             c1' = [c1 EXCEPT ![t] = "running"], Bar!Sends(t, <<"progress">>),
             UNCHANGED <<c2, c4, c5, c6>>
      PROVE  BarTypes' /\ Told'
  <2>1. c3' = Append(c3, Event(t, "progress")) /\ c3' \in Seq(Bar!Events)
    BY <1>3, SendsOne
  <2>2. OrderedIn(c3', c1') /\ \A u : EndIn(c3', u) <=> EndIn(c3, u)
    BY <1>1, <1>3, <2>1, Progresses
  <2>3. ASSUME NEW u \in Own  PROVE Bar!Live(u)' <=> Bar!Live(u)
    <3>1. Bar!Ending(u)' <=> Bar!Ending(u)  BY <2>2, EventsAre
    <3>2. u = t => u \notin Other  BY DEF Bar!HubAssumption
    <3>. QED BY <1>1, <1>2, <1>3, <3>1, <3>2 DEF Bar!Live
  <2>4. BarTypes'  BY <1>1, <1>3, <2>1 DEF BarTypes, States
  <2>5. \A u \in Own : c1[u] # "none" => c1'[u] # "none"  BY <1>1, <1>2, <1>3
  <2>. QED BY <1>3, <2>2, <2>3, <2>4, <2>5, EventsAre, AsLive
<1>4. CASE Bar!Start(t)
  BY <1>3, <1>4 DEF Bar!Start, Bar!barVars
<1>5. CASE Bar!Progress(t)
  <2>1. c1' = [c1 EXCEPT ![t] = "running"]  BY <1>1, <1>5 DEF Bar!Progress
  <2>. QED BY <1>3, <1>5, <2>1 DEF Bar!Progress, Bar!barVars
<1>6. ASSUME NEW sorts \in {<<"progress", "end">>, <<"end">>}, Bar!Ends(t, sorts)
      PROVE  BarTypes' /\ Told'
  <2>1. /\ c1[t] = "running" /\ c1' = [c1 EXCEPT ![t] = "ended"] /\ Bar!Sends(t, sorts)
        /\ UNCHANGED <<c2, c4, c5, c6>>
    BY <1>6 DEF Bar!Ends, Bar!barVars
  <2>2. PICK q \in Seq(Bar!Events) :
          /\ OrderedIn(q, c1) /\ \A u : EndIn(q, u) <=> EndIn(c3, u)
          /\ c3' = Append(q, Event(t, "end")) /\ c3' \in Seq(Bar!Events)
    <3>1. CASE sorts = <<"end">>
      <4>1. Bar!Sends(t, <<"end">>)  BY <2>1, <3>1
      <4>2. c3' = Append(c3, Event(t, "end")) /\ c3' \in Seq(Bar!Events)
        BY <4>1, SendsOne
      <4>. QED BY <1>1, <4>2
    <3>2. CASE sorts = <<"progress", "end">>
      <4>. DEFINE q == Append(c3, Event(t, "progress"))
      <4>1. Bar!Sends(t, <<"progress", "end">>)  BY <2>1, <3>2
      <4>2. c3' = Append(q, Event(t, "end")) /\ q \in Seq(Bar!Events) /\ c3' \in Seq(Bar!Events)
        BY <4>1, SendsTwo
      <4>3. c1 = [c1 EXCEPT ![t] = "running"]  BY <1>1, <2>1
      <4>4. OrderedIn(q, c1) /\ \A u : EndIn(q, u) <=> EndIn(c3, u)
        BY <1>1, <2>1, <4>2, <4>3, Progresses
      <4>. QED BY <4>2, <4>4
    <3>. QED BY <3>1, <3>2
  <2>3. OrderedIn(c3', c1') /\ \A u : EndIn(c3', u) <=> EndIn(q, u) \/ u = t
    <3>1. c1[t] = "running" /\ c1' = [c1 EXCEPT ![t] = "ended"]  BY <2>1
    <3>2. OrderedIn(q, c1) /\ c3' = Append(q, Event(t, "end")) /\ c3' \in Seq(Bar!Events)
      BY <2>2
    <3>3. c1 \in [Bar!HubUploads -> States] /\ q \in Seq(Bar!Events)  BY <1>1, <2>2
    <3>4. c1[t] # "ended"  BY <3>1
    <3>. QED BY <3>1, <3>2, <3>3, <3>4, Finishes
  <2>4. ASSUME NEW u \in Own  PROVE Bar!Live(u)' <=> Bar!Live(u)
    <3>1. Bar!Ending(u)' <=> Bar!Ending(u) \/ u = t  BY <2>2, <2>3, EventsAre
    <3>. QED BY <1>1, <1>2, <2>1, <3>1 DEF Bar!Live
  <2>5. BarTypes'  BY <1>1, <2>1, <2>2 DEF BarTypes, States
  <2>6. \A u \in Own : c1[u] # "none" => c1'[u] # "none"  BY <1>1, <1>2, <2>1
  <2>. QED BY <2>1, <2>3, <2>4, <2>5, <2>6, EventsAre, AsLive
<1>. QED BY <1>4, <1>5, <1>6

\* What the page does at the button and with an answer.
LEMMA PageTells ==
  ASSUME Bar!HubAssumption, BarTypes, Told, NEW t \in Own,
         Bar!Begin(t) \/ Bar!Answered(t) \/ Bar!Rejected(t)
  PROVE  BarTypes' /\ Told'
<1>1. OrderedIn(c3, c1) /\ c3 \in Seq(Bar!Events) /\ c1 \in [Bar!HubUploads -> States]
  BY EventsAre DEF Told, BarTypes, States
<1>2. Own \subseteq Bar!HubUploads /\ c2 \subseteq Own /\ Nobody \notin Own
  BY DEF Bar!HubUploads, BarTypes, Bar!HubAssumption
<1>3. CASE Bar!Begin(t)
  <2>1. /\ c1[t] = "none" /\ c2' = c2 \cup {t} /\ UNCHANGED <<c1, c3, c6>>
        /\ ~c5 /\ c5' = TRUE /\ c4' = Nobody
    BY <1>3 DEF Bar!Begin
  <2>2. \A u \in Own : ~Bar!Live(u)  BY <2>1 DEF Told
  <2>3. ASSUME NEW u \in Own  PROVE Bar!Live(u)' <=> u = t
    <3>1. Bar!Ending(u)' <=> Bar!Ending(u)  BY <2>1 DEF Bar!Ending
    <3>. QED BY <2>1, <2>2, <3>1 DEF Bar!Live
  <2>4. BarTypes'  BY <1>2, <2>1 DEF BarTypes
  <2>5. Bar!Ordered'  BY <1>1, <2>1, EventsAre
  <2>6. \A u \in c2 : u \in c6  BY <1>2, <2>2 DEF Told
  <2>7. /\ \A u, v \in Own : Bar!Live(u)' /\ Bar!Live(v)' => u = v
        /\ c5' <=> \E u \in Own : Bar!Live(u)'
        /\ \A u \in c2' : Bar!Live(u)' \/ u \in c6'
    BY <1>2, <2>1, <2>3, <2>6
  <2>. QED BY <2>1, <2>4, <2>5, <2>7 DEF Told
<1>4. CASE Bar!Answered(t)
  <2>1. /\ t \in c2 /\ c1[t] # "none" /\ c2' = c2 \ {t} /\ UNCHANGED <<c1, c3, c5, c6>>
        /\ c4' = IF t \in c6 THEN Nobody ELSE t
    BY <1>4 DEF Bar!Answered, Bar!KnownAs
  <2>2. ASSUME NEW u  PROVE Bar!Live(u)' <=> Bar!Live(u)
    <3>1. Bar!Ending(u)' <=> Bar!Ending(u)  BY <2>1 DEF Bar!Ending
    <3>. QED BY <2>1, <3>1 DEF Bar!Live
  <2>3. BarTypes'  BY <1>2, <2>1 DEF BarTypes
  <2>4. Bar!Ordered'  BY <1>1, <2>1, EventsAre
  <2>5. c4' # Nobody => Bar!Live(c4)' /\ c1'[c4'] # "none"
    <3>1. c4' # Nobody => c4' = t /\ Bar!Live(t)  BY <2>1 DEF Told
    <3>2. c4' = t => (Bar!Live(c4)' <=> Bar!Live(t)')  BY DEF Bar!Live, Bar!Ending
    <3>. QED BY <2>1, <2>2, <3>1, <3>2
  <2>6. /\ \A u, v \in Own : Bar!Live(u)' /\ Bar!Live(v)' => u = v
        /\ c5' <=> \E u \in Own : Bar!Live(u)'
        /\ \A u \in c2' : Bar!Live(u)' \/ u \in c6'
    BY <2>1, <2>2 DEF Told
  <2>. QED BY <2>3, <2>4, <2>5, <2>6 DEF Told
<1>5. CASE Bar!Rejected(t)
  <2>1. /\ t \in c2 /\ c1[t] = "none" /\ c2' = c2 \ {t} /\ c1' = [c1 EXCEPT ![t] = "ended"]
        /\ c5' = FALSE /\ c4' = Nobody /\ UNCHANGED <<c3, c6>>
    BY <1>5 DEF Bar!Rejected
  <2>2. OrderedIn(c3, c1') /\ ~EndIn(c3, t)  BY <1>1, <1>2, <2>1, Unsent
  <2>3. Bar!Live(t)  BY <2>1 DEF Bar!Live
  <2>4. \A u \in Own : u # t => ~Bar!Live(u)  BY <2>3 DEF Told
  <2>5. ASSUME NEW u \in Own  PROVE ~Bar!Live(u)'
    <3>1. Bar!Ending(u)' <=> Bar!Ending(u)  BY <2>1 DEF Bar!Ending
    <3>2. ~Bar!Ending(t)  BY <2>2, EventsAre
    <3>3. c1'[t] = "ended" /\ (u # t => c1'[u] = c1[u])  BY <1>1, <1>2, <2>1
    <3>. QED BY <2>1, <2>4, <3>1, <3>2, <3>3 DEF Bar!Live
  <2>6. BarTypes'  BY <1>1, <1>2, <2>1 DEF BarTypes, States
  <2>7. Bar!Ordered'  BY <2>1, <2>2, EventsAre
  <2>8. \A u \in c2' : u \in c6'  BY <1>2, <2>1, <2>4 DEF Told
  <2>. QED BY <2>1, <2>5, <2>6, <2>7, <2>8 DEF Told
<1>. QED BY <1>3, <1>4, <1>5

\* What the page does with an event, if it is not of another page's upload or not taken.
LEMMA EventTells ==
  ASSUME Bar!HubAssumption, BarTypes, Told, Bar!OnEvent, ~c7'
  PROVE  BarTypes' /\ Told'
<1>. DEFINE e == Head(c3)
            t == Head(c3).task
<1>1. OrderedIn(c3, c1) /\ c3 \in Seq(Bar!Events) /\ c3 # <<>>
      /\ c1 \in [Bar!HubUploads -> States]
  BY EventsAre DEF Told, BarTypes, States, Bar!OnEvent
<1>2. Own \subseteq Bar!HubUploads /\ c2 \subseteq Own /\ Nobody \notin Own
      /\ Bar!HubUploads = Own \cup Other
  BY DEF Bar!HubUploads, BarTypes, Bar!HubAssumption
<1>3. c3' = Tail(c3) /\ UNCHANGED <<c1, c2>>  BY DEF Bar!OnEvent
<1>4. /\ OrderedIn(c3', c1)
      /\ \A u : EndIn(c3', u) <=> EndIn(c3, u) /\ e # Event(u, "end")
      /\ e \in Bar!Events /\ t \in Bar!HubUploads
      /\ IF e.sort = "end" THEN c1[t] = "ended" /\ e = Event(t, "end")
                           ELSE c1[t] = "running" \/ EndIn(c3, t)
  <2>1. e \in Bar!Events => t \in Bar!HubUploads  BY DEF Bar!Events
  <2>. QED BY <1>1, <1>3, <2>1, Takes
<1>. HIDE DEF e, t
<1>5. Bar!Ordered'  BY <1>3, <1>4, EventsAre
<1>6. ASSUME NEW u  PROVE Bar!Live(u)' <=> Bar!Live(u) /\ e # Event(u, "end")
  <2>1. Bar!Ending(u)' <=> Bar!Ending(u) /\ e # Event(u, "end")  BY <1>4, EventsAre
  <2>2. e = Event(u, "end") => u = t /\ e.sort = "end"  BY <1>4 DEF Event, t
  <2>. QED BY <1>3, <1>4, <2>1, <2>2 DEF Bar!Live
<1>7. c3' \in Seq(Bar!Events)  BY <1>1, <1>3
<1>8. e.sort = "end" => EndIn(c3, t)
  <2>1. e.sort = "end" => e = Event(t, "end")  BY <1>4
  <2>2. 1 \in DOMAIN c3 /\ c3[1] = e  BY <1>1 DEF e
  <2>. QED BY <2>1, <2>2 DEF EndIn
<1>9. Bar!Live(t)  BY <1>4, <1>8, EventsAre DEF Bar!Live
<1>10. CASE ~Bar!Matches(t)
  <2>1. UNCHANGED <<c4, c5, c6>>  BY <1>10 DEF Bar!OnEvent, Bar!barVars, t
  <2>2. c4 \in Own /\ t # c4 /\ Bar!Live(c4)
    BY <1>10 DEF Bar!Matches, BarTypes, Told
  <2>3. t \notin Own  BY <1>9, <2>2 DEF Told
  <2>4. \A u \in Own : Bar!Live(u)' <=> Bar!Live(u)
    <3>1. \A u : e = Event(u, "end") => u = t  BY DEF Event, e, t
    <3>. QED BY <1>6, <2>3, <3>1
  <2>5. BarTypes'  BY <1>3, <1>7, <2>1 DEF BarTypes
  <2>. QED BY <1>3, <1>5, <2>1, <2>4, <2>5, AsLive
<1>11. CASE Bar!Matches(t)
  <2>1. /\ c5' = (e.sort = "progress")
        /\ IF e.sort = "progress" THEN UNCHANGED <<c6, c4>>
                                  ELSE c6' = c6 \cup {t} /\ c4' = Nobody
        /\ c7' = (c7 \/ (c4 = Nobody /\ t \in Other))
    BY <1>11 DEF Bar!OnEvent, e, t
  <2>2. c4 \in {Nobody, t} /\ ~(c4 = Nobody /\ t \in Other)
    <3>1. ~(c4 = Nobody /\ t \in Other)  BY <2>1, Zenon
    <3>. QED BY <1>11, <3>1 DEF Bar!Matches
  <2>3. t \in Own  BY <1>2, <1>4, <2>2 DEF BarTypes
  <2>4. c5  BY <1>9, <2>3 DEF Told
  <2>5. CASE e.sort = "progress"
    <3>1. UNCHANGED <<c4, c6>> /\ c5' = TRUE  BY <2>1, <2>5
    <3>2. c5' = c5  BY <2>4, <3>1 DEF BarTypes
    <3>3. \A u : e # Event(u, "end")  BY <2>5 DEF Event
    <3>4. \A u \in Own : Bar!Live(u)' <=> Bar!Live(u)  BY <1>6, <3>3
    <3>5. BarTypes'  BY <1>3, <1>7, <3>1 DEF BarTypes
    <3>. QED BY <1>3, <1>5, <3>1, <3>2, <3>4, <3>5, AsLive
  <2>6. CASE e.sort # "progress"
    <3>1. c5' = FALSE /\ c6' = c6 \cup {t} /\ c4' = Nobody  BY <2>1, <2>6
    <3>2. e.sort = "end" /\ e = Event(t, "end")
      BY <1>4, <2>6 DEF Bar!Events
    <3>3. ASSUME NEW u \in Own  PROVE ~Bar!Live(u)'
      BY <1>6, <1>9, <2>3, <3>2 DEF Told
    <3>4. BarTypes'  BY <1>3, <1>7, <3>1 DEF BarTypes
    <3>5. \A u \in c2' : u \in c6'
      BY <1>2, <1>3, <1>9, <2>3, <3>1 DEF Told
    <3>. QED BY <1>5, <3>1, <3>3, <3>4, <3>5 DEF Told
  <2>. QED BY <2>5, <2>6
<1>. QED BY <1>10, <1>11

LEMMA BarStep ==
  ASSUME Bar!HubAssumption, Bar!HubInv, [Bar!Next]_(Bar!hubVars)
  PROVE  Bar!HubInv'
<1>1. BarTypes /\ (~c8 /\ ~c7 => Told)  BY BarInvIs
<1>2. \A t \in Own : t \in Bar!HubUploads  BY DEF Bar!HubUploads
<1>3. ASSUME NEW t \in Bar!HubUploads,
             \/ Bar!Start(t) \/ Bar!Progress(t)
             \/ \E sorts \in {<<"progress", "end">>, <<"end">>} : Bar!Ends(t, sorts)
      PROVE  Bar!HubInv'
  <2>1. UNCHANGED <<c2, c4, c5, c7, c8>>
    BY <1>3 DEF Bar!Start, Bar!Progress, Bar!Ends, Bar!barVars
  <2>2. c3' \in Seq(Bar!Events)
    <3>1. CASE Bar!Sends(t, <<"progress">>)  BY <1>1, <3>1, SendsOne
    <3>2. CASE Bar!Sends(t, <<"end">>)  BY <1>1, <3>2, SendsOne
    <3>3. CASE Bar!Sends(t, <<"progress", "end">>)  BY <1>1, <3>3, SendsTwo
    <3>. QED BY <1>3, <3>1, <3>2, <3>3 DEF Bar!Start, Bar!Progress, Bar!Ends
  <2>3. BarTypes'
    BY <1>1, <1>3, <2>1, <2>2 DEF BarTypes, Bar!Start, Bar!Progress, Bar!Ends
  <2>4. ~c8' /\ ~c7' => Told'  BY <1>1, <1>3, <2>1, BackendTells
  <2>. QED BY <2>3, <2>4, BarInvStays
<1>4. ASSUME NEW t \in Own, Bar!Begin(t) \/ Bar!Answered(t) \/ Bar!Rejected(t)
      PROVE  Bar!HubInv'
  <2>1. UNCHANGED <<c7, c8>>  BY <1>4 DEF Bar!Begin, Bar!Answered, Bar!Rejected
  <2>2. ~c8' /\ ~c7' => Told'  BY <1>1, <1>4, <2>1, PageTells
  <2>3. BarTypes'
    BY <1>1, <1>2, <1>4
       DEF BarTypes, Bar!Begin, Bar!Answered, Bar!Rejected, Bar!KnownAs
  <2>. QED BY <2>2, <2>3, BarInvStays
<1>5. ASSUME NEW t \in Bar!HubUploads, Bar!FailsSilently(t)  PROVE Bar!HubInv'
  <2>1. BarTypes' /\ c8'  BY <1>1, <1>5 DEF BarTypes, Bar!FailsSilently
  <2>. QED BY <2>1, BarInvStays
<1>6. CASE Bar!Disconnect
  <2>1. BarTypes' /\ c8'  BY <1>1, <1>6 DEF BarTypes, Bar!Disconnect
  <2>. QED BY <2>1, BarInvStays
<1>7. CASE Bar!OnEvent
  <2>1. c8' = c8 /\ (~c7' => ~c7)
    <3>1. c8' = c8
      BY <1>7 DEF Bar!OnEvent, Bar!barVars
    <3>2. CASE c7' = c7
      BY <3>1, <3>2
    <3>3. CASE c7' = (c7 \/ (c4 = Nobody /\ Head(c3).task \in Other))
      BY <3>1, <3>3, Zenon
    <3>. QED BY <1>7, <3>2, <3>3 DEF Bar!OnEvent, Bar!barVars
  <2>2. ~c8' /\ ~c7' => Told'  BY <1>1, <1>7, <2>1, EventTells
  <2>3. BarTypes'
    <3>1. c3' = Tail(c3) /\ c3 # <<>> /\ UNCHANGED <<c1, c2>>  BY <1>7 DEF Bar!OnEvent
    <3>2. c3' \in Seq(Bar!Events)  BY <1>1, <3>1 DEF BarTypes
    <3>3. c4' \in Own \cup {Nobody} /\ c5' \in BOOLEAN
      BY <1>1, <1>7 DEF BarTypes, Bar!OnEvent, Bar!barVars
    <3>. QED BY <1>1, <3>1, <3>2, <3>3 DEF BarTypes
  <2>. QED BY <2>2, <2>3, BarInvStays
<1>8. CASE UNCHANGED Bar!hubVars
  <2>1. UNCHANGED <<c1, c2, c3, c4, c5, c6, c7, c8>>
    BY <1>8 DEF Bar!hubVars, Bar!barVars
  <2>. QED BY <2>1
       DEF Bar!HubInv, Bar!Ordered, Bar!Live, Bar!Ending
<1>. QED BY <1>3, <1>4, <1>5, <1>6, <1>7, <1>8 DEF Bar!Next

LEMMA BarStart == Bar!HubAssumption /\ Bar!Init => Bar!HubInv
<1>. SUFFICES ASSUME Bar!HubAssumption, Bar!Init  PROVE Bar!HubInv
  OBVIOUS
<1>1. \A t \in Own : ~Bar!Live(t)
  <2>1. c3 = <<>> /\ \A t \in Own : c1[t] = "none" /\ t \notin c2
    BY DEF Bar!Init, Bar!HubUploads
  <2>. QED BY <2>1 DEF Bar!Live, Bar!Ending
<1>2. Bar!Ordered  BY DEF Bar!Init, Bar!Ordered
<1>3. BarTypes
  <2>1. <<>> \in Seq(Bar!Events)  OBVIOUS
  <2>. QED BY <2>1 DEF Bar!Init, BarTypes
<1>4. c5 = FALSE /\ c4 = Nobody /\ c2 = {}  BY DEF Bar!Init
<1>5. Told  BY <1>1, <1>2, <1>4 DEF Told
<1>. QED BY <1>3, <1>5, BarInvIs

LEMMA BarTellsTruth ==
  ASSUME Bar!HubAssumption, Bar!HubInv
  PROVE  Bar!BarIsHonest
<1>1. ASSUME ~c8, ~c7
      PROVE  /\ c3 = <<>> /\ c2 = {} /\ (\A t \in Own : c1[t] # "running") => ~c5
             /\ (\E t \in Own : c1[t] = "running") => c5
             /\ c4 # Nobody => c1[c4] = "running" \/ Bar!Ending(c4)
  <2>1. Told  BY <1>1, BarInvIs
  <2>2. c3 = <<>> => \A t : ~Bar!Ending(t)  BY DEF Bar!Ending
  <2>. QED BY <2>1, <2>2 DEF Told, Bar!Live
<1>. QED BY <1>1 DEF Bar!BarIsHonest

\* The wizard's property is an invariant by itself.
LEMMA GuideStep ==
  ASSUME Guide!WizardAssumption, Guide!WizardIsCoherent, [Guide!Next]_(Guide!wizardVars)
  PROVE  Guide!WizardIsCoherent'
<1>1. ASSUME NEW m \in Wares, Guide!Selects(m)  PROVE c3' # Nobody /\ c4' = c3'
  BY <1>1 DEF Guide!Selects, Guide!WizardAssumption
<1>2. ASSUME NEW h \in Hubs, Guide!ChooseHub(h)  PROVE Guide!WizardIsCoherent'
  BY <1>2 DEF Guide!ChooseHub, Guide!WizardIsCoherent, Guide!pickVars
<1>3. ASSUME NEW h \in Hubs, NEW name \in {h, Nobody}, Guide!WhoamiAnswered(h, name)
      PROVE  Guide!WizardIsCoherent'
  BY <1>3 DEF Guide!WhoamiAnswered, Guide!OfHub, Guide!WizardIsCoherent, Guide!pickVars
<1>4. ASSUME NEW hit \in BOOLEAN, Guide!Prefilled(hit)  PROVE Guide!WizardIsCoherent'
  BY <1>1, <1>4 DEF Guide!Prefilled, Guide!WizardIsCoherent, Guide!pickVars,
                    Guide!WizardAssumption
<1>5. ASSUME Guide!PickType \/ Guide!BackToPlatform \/ Guide!Back
      PROVE  Guide!WizardIsCoherent'
  BY <1>5 DEF Guide!PickType, Guide!BackToPlatform, Guide!Back, Guide!WizardIsCoherent,
              Guide!pickVars
<1>6. ASSUME NEW m \in Wares, Guide!PickModel(m) \/ Guide!TypePath(m)
      PROVE  Guide!WizardIsCoherent'
  BY <1>1, <1>6 DEF Guide!PickModel, Guide!TypePath, Guide!WizardIsCoherent, Guide!pickVars
<1>7. ASSUME NEW s \in {"platform", "type", "model"}, Guide!Tab(s)
      PROVE  Guide!WizardIsCoherent'
  BY <1>7 DEF Guide!Tab, Guide!WizardIsCoherent, Guide!pickVars
<1>8. CASE UNCHANGED Guide!wizardVars
  BY <1>8 DEF Guide!wizardVars, Guide!pickVars, Guide!WizardIsCoherent
<1>. QED BY <1>2, <1>3, <1>4, <1>5, <1>6, <1>7, <1>8 DEF Guide!Next

-----------------------------------------------------------------------------
(* Uploads of one's own.  Of their variables the proof names the wizard's c1 to c3, *)
(* the requests c4, the temporary files c5, the files c6, what is written in them   *)
(* c7, the records c8, and the histories c9 and c10.                                *)

LEMMA Overs ==
  ASSUME NEW r \in Send!Requests
  PROVE  /\ Send!Over(r) \in Send!Requests
         /\ Send!Over(r).at = "over" /\ Send!Over(r).to = None /\ Send!Over(r).inode = None
         /\ Send!Over(r).size = r.size /\ Send!Over(r).got = r.got
<1>. DEFINE s == [r EXCEPT !.at = "over", !.to = None, !.inode = None, !.paused = FALSE]
<1>1. /\ s.at = "over" /\ s.to = None /\ s.inode = None /\ s.size = r.size /\ s.got = r.got
      /\ s \in Send!Requests
  BY DEF Send!Requests
<1>2. Send!Over(r) = s  BY Zenon DEF Send!Over
<1>. HIDE DEF s
<1>. QED BY <1>1, <1>2

\* The parts of the invariant that a step of one request leaves as they are.
SendTypes ==
  /\ c1 \in 1..3 /\ c2 \in Kinds \cup {None} /\ c3 \in Dirs \cup {None}
  /\ c1 = 3 => c3 # None
  /\ c5 \in [Dirs -> Uploads \cup {None}] /\ c6 \in [Dirs -> Uploads \cup {Old, None}]
  /\ c7 \in [Uploads -> [Send!Chunks -> Uploads \cup {None}]]
  /\ c8 \subseteq Uploads /\ c9 \subseteq Dirs /\ c10 \in BOOLEAN

\* What holds of each request.
Request(u) ==
  /\ c4[u].got <= c4[u].size
  /\ c4[u].at = "sent" \/ Send!UnderWay(u) => c4[u].to \in Dirs
  /\ c4[u].at \in {"idle", "sent", "named"} => c4[u].got = 0

\* What lies in the folders.
OnDisk ==
  /\ \A d \in Dirs \ c9 :
       /\ c6[d] \in Uploads => Send!Whole(c6[d])
       /\ ~c10 /\ (\A u \in Uploads : Send!UnderWay(u) => c4[u].to # d) => c5[d] = None
  /\ ~c10 => \A u \in c8 : Send!UnderWay(u)

LEMMA UploadInvIs ==
  Send!UploadInv <=> /\ SendTypes /\ c4 \in [Uploads -> Send!Requests]
                     /\ \A u \in Uploads : Request(u)
                     /\ Send!Places /\ Send!Alone /\ OnDisk
BY DEF Send!UploadInv, Send!TypeOK, Send!UploadIsSafe, SendTypes, Request, OnDisk

LEMMA UploadInvStays ==
  Send!UploadInv' <=> /\ SendTypes' /\ c4' \in [Uploads -> Send!Requests]
                      /\ \A u \in Uploads : Request(u)'
                      /\ Send!Places' /\ Send!Alone' /\ OnDisk'
BY DEF Send!UploadInv, Send!TypeOK, Send!UploadIsSafe, SendTypes, Request, OnDisk

\* A request moves on without touching a file: it is paused, deleted, or all read.
LEMMA Marks ==
  ASSUME Send!UploadInv, NEW u \in Uploads,
         c4' \in [Uploads -> Send!Requests],
         \A v \in Uploads : v # u => c4'[v] = c4[v],
         \/ c4'[u].at = c4[u].at
         \/ c4[u].at = "writing" /\ c4'[u].at = "read" /\ c4[u].got = c4[u].size,
         c4'[u].to = c4[u].to, c4'[u].inode = c4[u].inode,
         c4'[u].size = c4[u].size, c4'[u].got = c4[u].got,
         c8' \subseteq c8, UNCHANGED <<c1, c2, c3, c5, c6, c7, c9, c10>>
  PROVE  Send!UploadInv'
<1>1. /\ SendTypes /\ c4 \in [Uploads -> Send!Requests]
      /\ \A v \in Uploads : Request(v)
      /\ Send!Places /\ Send!Alone /\ OnDisk
  BY UploadInvIs
<1>2. ASSUME NEW v \in Uploads
      PROVE  /\ c4'[v].to = c4[v].to /\ c4'[v].inode = c4[v].inode
             /\ c4'[v].size = c4[v].size /\ c4'[v].got = c4[v].got
             /\ Send!UnderWay(v)' <=> Send!UnderWay(v)
             /\ Send!Opened(v)' <=> Send!Opened(v)
             /\ c4'[v].at = "sent" <=> c4[v].at = "sent"
             /\ c4'[v].at = "over" <=> c4[v].at = "over"
             /\ c4'[v].at \in {"idle", "sent", "named"} <=> c4[v].at \in {"idle", "sent", "named"}
             /\ c4'[v].at = "read" => c4[v].at = "read" \/ c4[v].got = c4[v].size
  BY DEF Send!UnderWay, Send!Opened
<1>3. SendTypes'  BY <1>1 DEF SendTypes
<1>4. \A v \in Uploads : Request(v)'  BY <1>1, <1>2 DEF Request
<1>5. Send!Places'  BY <1>1, <1>2 DEF Send!Places
<1>6. Send!Alone'  BY <1>1, <1>2 DEF Send!Alone
<1>7. ASSUME NEW i, Send!Whole(i)  PROVE Send!Whole(i)'
  BY <1>2, <1>7 DEF Send!Whole
<1>8. OnDisk'
  <2>1. \A v \in c8 : v \in Uploads  BY <1>1 DEF SendTypes
  <2>. QED BY <1>1, <1>2, <1>7, <2>1 DEF OnDisk
<1>. QED BY <1>3, <1>4, <1>5, <1>6, <1>8, UploadInvStays

\* A request is over: refused, or its temporary file removed, whatever it has written
\* into its own at last.
LEMMA Leaves ==
  ASSUME Send!UploadInv, NEW u \in Uploads,
         c4[u].at \notin {"idle", "over"},
         c4' \in [Uploads -> Send!Requests],
         \A v \in Uploads : v # u => c4'[v] = c4[v],
         c4'[u].at = "over", c4'[u].got <= c4'[u].size,
         c8' \subseteq c8, u \in c8' => ~Send!UnderWay(u),
         UNCHANGED <<c1, c2, c3, c6, c9, c10>>,
         \/ c5' = c5 /\ ~Send!UnderWay(u)
         \/ c5' = [c5 EXCEPT ![c4[u].to] = None] /\ Send!UnderWay(u),
         SendTypes',
         \A i \in Uploads : c7'[i] # c7[i] => Send!Opened(u) /\ i = c4[u].inode
  PROVE  Send!UploadInv'
<1>1. /\ SendTypes /\ c4 \in [Uploads -> Send!Requests]
      /\ \A v \in Uploads : Request(v)
      /\ Send!Places /\ Send!Alone /\ OnDisk
  BY UploadInvIs
<1>2. ~Send!UnderWay(u)' /\ ~Send!Opened(u)'
  BY DEF Send!UnderWay, Send!Opened
<1>3. \A v \in Uploads : v # u => /\ Send!UnderWay(v)' <=> Send!UnderWay(v)
                                  /\ Send!Opened(v)' <=> Send!Opened(v)
  BY DEF Send!UnderWay, Send!Opened
<1>4. \A d \in Dirs : c5'[d] \in {None, c5[d]}  BY <1>1 DEF SendTypes
<1>5. \A v \in Uploads : Request(v)'
  <2>1. Request(u)'  BY <1>2 DEF Request
  <2>. QED BY <1>1, <1>3, <2>1 DEF Request
<1>6. Send!Places'
  <2>1. /\ \A d, e \in Dirs :
             /\ c5'[d] = c5'[e] /\ c5'[d] # None => d = e
             /\ c6'[d] = c6'[e] /\ c6'[d] \in Uploads => d = e
             /\ c5'[d] # None => c5'[d] # c6'[e]
    BY <1>1, <1>4 DEF Send!Places
  <2>2. None \notin Uploads  BY PartsAssumption DEF Send!UploadAssumption
  <2>3. ASSUME NEW v \in Uploads, Send!Opened(v)'
        PROVE  /\ c4'[v].inode \in Uploads
               /\ \A d \in Dirs \ {c4'[v].to} : c5'[d] # c4'[v].inode /\ c6'[d] # c4'[v].inode
               /\ \A w \in Uploads : Send!Opened(w)' /\ c4'[v].inode = c4'[w].inode
                                       => c4'[v].to = c4'[w].to
    <3>1. v # u /\ Send!Opened(v) /\ c4'[v] = c4[v]  BY <1>2, <1>3, <2>3
    <3>2. \A w \in Uploads : Send!Opened(w)' => Send!Opened(w) /\ c4'[w] = c4[w]
      BY <1>2, <1>3
    <3>3. c4[v].inode \in Uploads  BY <1>1, <3>1 DEF Send!Places
    <3>4. \A d \in Dirs \ {c4[v].to} : c5[d] # c4[v].inode /\ c6[d] # c4[v].inode
      BY <1>1, <3>1 DEF Send!Places
    <3>5. \A w \in Uploads : Send!Opened(w) /\ c4[v].inode = c4[w].inode => c4[v].to = c4[w].to
      BY <1>1, <3>1 DEF Send!Places
    <3>6. \A d \in Dirs \ {c4[v].to} : c5'[d] # c4[v].inode  BY <1>4, <2>2, <3>3, <3>4
    <3>. QED BY <3>1, <3>2, <3>3, <3>4, <3>5, <3>6
  <2>4. ASSUME NEW v \in Uploads, c4'[v].at \in {"idle", "sent", "named"}
        PROVE  /\ \A d \in Dirs : c5'[d] # v /\ c6'[d] # v
               /\ \A w \in Uploads : Send!Opened(w)' => c4'[w].inode # v
    <3>1. v # u /\ c4'[v] = c4[v]  BY <2>4
    <3>2. /\ \A d \in Dirs : c5[d] # v /\ c6[d] # v
          /\ \A w \in Uploads : Send!Opened(w) => c4[w].inode # v
      BY <1>1, <2>4, <3>1 DEF Send!Places
    <3>3. \A w \in Uploads : Send!Opened(w)' => Send!Opened(w) /\ c4'[w] = c4[w]
      BY <1>2, <1>3
    <3>. QED BY <1>4, <2>2, <3>2, <3>3
  <2>. QED BY <2>1, <2>3, <2>4 DEF Send!Places
<1>7. Send!Alone'
  <2>1. \A v, w \in Uploads : Send!UnderWay(v)' /\ Send!UnderWay(w)' /\ c4'[v].to = c4'[w].to
                                /\ v # w => c4'[v].to \in c9'
    BY <1>1, <1>2, <1>3 DEF Send!Alone
  <2>2. ASSUME NEW v \in Uploads, Send!Opened(v)', c4'[v].to \notin c9'
        PROVE  /\ c5'[c4'[v].to] = c4'[v].inode
               /\ c7'[c4'[v].inode] = [c \in Send!Chunks |-> IF c <= c4'[v].got THEN v ELSE None]
    <3>1. v # u /\ Send!Opened(v) /\ c4'[v] = c4[v]  BY <1>2, <1>3, <2>2
    <3>2. /\ c5[c4[v].to] = c4[v].inode
          /\ c7[c4[v].inode] = [c \in Send!Chunks |-> IF c <= c4[v].got THEN v ELSE None]
      BY <1>1, <2>2, <3>1 DEF Send!Alone
    <3>3. c4[v].inode \in Uploads /\ c4[v].to \in Dirs /\ Send!UnderWay(v)
      BY <1>1, <3>1 DEF Send!Places, Request, Send!UnderWay, Send!Opened
    <3>4. Send!UnderWay(u) => c4[u].to # c4[v].to
      BY <1>1, <2>2, <3>1, <3>3 DEF Send!Alone
    <3>5. c5'[c4[v].to] = c5[c4[v].to]
      BY <1>1, <3>3, <3>4 DEF SendTypes
    <3>6. c7'[c4[v].inode] = c7[c4[v].inode]
      <4>1. SUFFICES ASSUME Send!Opened(u), c4[u].inode = c4[v].inode  PROVE FALSE
        BY <3>3
      <4>2. c4[u].to = c4[v].to  BY <1>1, <3>1, <4>1 DEF Send!Places
      <4>. QED BY <3>4, <4>1, <4>2 DEF Send!Opened, Send!UnderWay
    <3>. QED BY <3>1, <3>2, <3>5, <3>6
  <2>3. \A v \in Uploads : c4'[v].at = "read" => c4'[v].got = c4'[v].size
    BY <1>1 DEF Send!Alone
  <2>. QED BY <2>1, <2>2, <2>3 DEF Send!Alone
<1>8. OnDisk'
  <2>1. ASSUME NEW d \in Dirs \ c9, c6[d] \in Uploads  PROVE Send!Whole(c6[d])'
    <3>1. Send!Whole(c6[d])  BY <1>1, <2>1 DEF OnDisk
    <3>2. PICK w \in Uploads :
            /\ c4[w].at = "over" /\ c4[w].got = c4[w].size
            /\ c7[c6[d]] = [c \in Send!Chunks |-> IF c <= c4[w].size THEN w ELSE None]
      BY <3>1 DEF Send!Whole
    <3>3. w # u /\ c4'[w] = c4[w]  BY <3>2
    <3>4. c7'[c6[d]] = c7[c6[d]]
      <4>1. SUFFICES ASSUME Send!Opened(u), c6[d] = c4[u].inode  PROVE FALSE
        BY <2>1
      <4>2. d = c4[u].to  BY <1>1, <4>1 DEF Send!Places
      <4>3. c5[d] = c6[d]  BY <1>1, <4>1, <4>2 DEF Send!Alone
      <4>4. None \notin Uploads  BY PartsAssumption DEF Send!UploadAssumption
      <4>. QED BY <1>1, <2>1, <4>3, <4>4 DEF Send!Places
    <3>. QED BY <3>2, <3>3, <3>4 DEF Send!Whole
  <2>2. ASSUME NEW d \in Dirs \ c9, ~c10, \A v \in Uploads : Send!UnderWay(v)' => c4'[v].to # d
        PROVE  c5'[d] = None
    <3>1. CASE Send!UnderWay(u) /\ c4[u].to = d
      BY <1>1, <3>1 DEF SendTypes
    <3>2. CASE ~(Send!UnderWay(u) /\ c4[u].to = d)
      <4>1. \A v \in Uploads : Send!UnderWay(v) => c4[v].to # d
        BY <1>3, <2>2, <3>2
      <4>2. c5[d] = None  BY <1>1, <2>2, <4>1 DEF OnDisk
      <4>. QED BY <1>4, <4>2
    <3>. QED BY <3>1, <3>2
  <2>3. ASSUME ~c10, NEW v \in c8'  PROVE Send!UnderWay(v)'
    <3>1. v \in Uploads /\ v \in c8 /\ Send!UnderWay(v)
      BY <1>1, <2>3 DEF OnDisk, SendTypes
    <3>. QED BY <1>3, <2>3, <3>1
  <2>4. c6' = c6 /\ c9' = c9 /\ c10' = c10  OBVIOUS
  <2>. QED BY <2>1, <2>2, <2>3, <2>4 DEF OnDisk
<1>. QED BY <1>1, <1>5, <1>6, <1>7, <1>8, UploadInvStays

\* Its task is created.
LEMMA Creates ==
  ASSUME Send!UploadInv, NEW u \in Uploads, c4[u].at = "sent",
         c4' = [c4 EXCEPT ![u].at = "named"], c8' = c8 \cup {u},
         c9' = c9 \cup {d \in {c4[u].to} : \E v \in Uploads : Send!UnderWay(v) /\ c4[v].to = d},
         UNCHANGED <<c1, c2, c3, c5, c6, c7, c10>>
  PROVE  Send!UploadInv'
<1>1. /\ SendTypes /\ c4 \in [Uploads -> Send!Requests]
      /\ \A v \in Uploads : Request(v)
      /\ Send!Places /\ Send!Alone /\ OnDisk
  BY UploadInvIs
<1>2. /\ c4' \in [Uploads -> Send!Requests] /\ \A v \in Uploads : v # u => c4'[v] = c4[v]
      /\ c4'[u].at = "named" /\ c4'[u].to = c4[u].to /\ c4'[u].got = c4[u].got
      /\ c4'[u].size = c4[u].size
  BY <1>1 DEF Send!Requests
<1>3. /\ ~Send!Opened(u)' /\ ~Send!Opened(u) /\ Send!UnderWay(u)' /\ ~Send!UnderWay(u)
      /\ c4'[u].at # "over"
  BY <1>2 DEF Send!UnderWay, Send!Opened
<1>4. \A v \in Uploads : v # u => /\ Send!UnderWay(v)' <=> Send!UnderWay(v)
                                  /\ Send!Opened(v)' <=> Send!Opened(v)
  BY <1>2 DEF Send!UnderWay, Send!Opened
<1>. HIDE DEF Send!Requests
<1>5. c4[u].to \in Dirs  BY <1>1 DEF Request
<1>6. c9 \subseteq c9' /\ c9' \subseteq Dirs  BY <1>1, <1>5 DEF SendTypes
<1>7. SendTypes'  BY <1>1, <1>6 DEF SendTypes
<1>8. \A v \in Uploads : Request(v)'
  <2>1. Request(u)'  BY <1>1, <1>2, <1>5 DEF Request
  <2>. QED BY <1>1, <1>2, <1>4, <2>1 DEF Request
<1>9. Send!Places'
  <2>1. \A v \in Uploads : Send!Opened(v)' => v # u /\ Send!Opened(v) /\ c4'[v] = c4[v]
    BY <1>2, <1>3, <1>4
  <2>2. \A v \in Uploads : c4'[v].at \in {"idle", "sent", "named"}
                             => c4[v].at \in {"idle", "sent", "named"}
    BY <1>2
  <2>. QED BY <1>1, <2>1, <2>2 DEF Send!Places
<1>10. Send!Alone'
  <2>1. ASSUME NEW v \in Uploads, Send!UnderWay(v), v # u, c4[v].to = c4[u].to
        PROVE  c4[u].to \in c9'
    BY <2>1
  <2>2. \A v, w \in Uploads : Send!UnderWay(v)' /\ Send!UnderWay(w)' /\ c4'[v].to = c4'[w].to
                                /\ v # w => c4'[v].to \in c9'
    <3>1. \A v, w \in Uploads : Send!UnderWay(v) /\ Send!UnderWay(w) /\ c4[v].to = c4[w].to
                                /\ v # w => c4[v].to \in c9'
      BY <1>1, <1>6 DEF Send!Alone
    <3>2. \A v \in Uploads : v # u => (Send!UnderWay(v)' <=> Send!UnderWay(v)) /\ c4'[v].to = c4[v].to
      BY <1>2, <1>4
    <3>. QED BY <1>2, <2>1, <3>1, <3>2
  <2>3. \A v \in Uploads : Send!Opened(v)' => v # u /\ Send!Opened(v) /\ c4'[v] = c4[v]
    BY <1>2, <1>3, <1>4
  <2>4. \A v \in Uploads : c4'[v].at = "read" => c4'[v] = c4[v]
    BY <1>2
  <2>. QED BY <1>1, <1>6, <2>2, <2>3, <2>4 DEF Send!Alone
<1>11. OnDisk'
  <2>1. ASSUME NEW i, Send!Whole(i)  PROVE Send!Whole(i)'
    BY <1>2, <2>1 DEF Send!Whole
  <2>2. \A v \in Uploads : Send!UnderWay(v) => Send!UnderWay(v)' /\ c4'[v].to = c4[v].to
    BY <1>2, <1>3, <1>4
  <2>3. \A v \in c8 : v \in Uploads  BY <1>1 DEF SendTypes
  <2>4. c6' = c6 /\ c5' = c5 /\ c10' = c10  OBVIOUS
  <2>5. ASSUME ~c10, NEW v \in c8'  PROVE Send!UnderWay(v)'
    BY <1>1, <1>3, <2>2, <2>3, <2>5 DEF OnDisk
  <2>6. ASSUME NEW d \in Dirs \ c9'
        PROVE  /\ c6[d] \in Uploads => Send!Whole(c6[d])'
               /\ ~c10 /\ (\A v \in Uploads : Send!UnderWay(v)' => c4'[v].to # d) => c5[d] = None
    BY <1>1, <1>6, <2>1, <2>2, <2>6 DEF OnDisk
  <2>. QED BY <2>4, <2>5, <2>6 DEF OnDisk
<1>. QED BY <1>2, <1>7, <1>8, <1>9, <1>10, <1>11, UploadInvStays

\* It opens the temporary file, or the one that is there.
LEMMA Opens ==
  ASSUME Send!UploadAssumption, Send!UploadInv, NEW u \in Uploads, Send!OpenTmp(u)
  PROVE  Send!UploadInv'
<1>. DEFINE d == c4[u].to
            file == IF c5[d] = None THEN u ELSE c5[d]
<1>1. /\ SendTypes /\ c4 \in [Uploads -> Send!Requests]
      /\ \A v \in Uploads : Request(v)
      /\ Send!Places /\ Send!Alone /\ OnDisk
  BY UploadInvIs
<1>2. /\ c4[u].at = "named" /\ c5' = [c5 EXCEPT ![d] = file]
      /\ c7' = [c7 EXCEPT ![file] = Send!NoBytes]
      /\ c4' = [c4 EXCEPT ![u].at = "writing", ![u].inode = file]
      /\ UNCHANGED <<c1, c2, c3, c6, c8, c9, c10>>
  BY DEF Send!OpenTmp, Send!wizardVars
<1>3. d \in Dirs /\ c4[u].got = 0  BY <1>1, <1>2 DEF Request, Send!UnderWay
<1>4. file \in Uploads  BY <1>1, <1>3 DEF SendTypes
<1>5. file = u \/ (file = c5[d] /\ c5[d] # None)  OBVIOUS
<1>6. c5[d] \in {None, file}  OBVIOUS
<1>. HIDE DEF file
<1>7. /\ c4' \in [Uploads -> Send!Requests] /\ \A v \in Uploads : v # u => c4'[v] = c4[v]
      /\ c4'[u].at = "writing" /\ c4'[u].to = d /\ c4'[u].inode = file
      /\ c4'[u].got = c4[u].got /\ c4'[u].size = c4[u].size
  BY <1>1, <1>2, <1>4 DEF Send!Requests
<1>8. /\ Send!UnderWay(u)' /\ Send!UnderWay(u) /\ Send!Opened(u)'
      /\ \A v \in Uploads : v # u => /\ Send!UnderWay(v)' <=> Send!UnderWay(v)
                                     /\ Send!Opened(v)' <=> Send!Opened(v)
  BY <1>2, <1>7 DEF Send!UnderWay, Send!Opened
<1>9. \A v \in Uploads : (Send!UnderWay(v)' <=> Send!UnderWay(v)) /\ c4'[v].to = c4[v].to
  BY <1>7, <1>8
<1>. HIDE DEF d
<1>10. c5'[d] = file /\ \A e \in Dirs : e # d => c5'[e] = c5[e]
  BY <1>1, <1>2, <1>3 DEF SendTypes
<1>11. /\ \A e \in Dirs : c5[e] # u /\ c6[e] # u
       /\ \A v \in Uploads : Send!Opened(v) => c4[v].inode # u
  BY <1>1, <1>2 DEF Send!Places
<1>12. \A e \in Dirs : c6[e] # file /\ (e # d => c5[e] # file)
  BY <1>1, <1>3, <1>5, <1>11 DEF Send!Places
<1>13. \A v \in Uploads : Send!Opened(v) /\ c4[v].inode = file => c4[v].to = d
  <2>1. CASE file = u  BY <1>11, <2>1
  <2>2. CASE file = c5[d]  BY <1>1, <1>3, <2>2 DEF Send!Places
  <2>. QED BY <1>5, <2>1, <2>2
<1>14. c7'[file] = Send!NoBytes /\ \A i \in Uploads : i # file => c7'[i] = c7[i]
  BY <1>1, <1>2, <1>4 DEF SendTypes
<1>15. SendTypes'
  <2>1. Send!NoBytes \in [Send!Chunks -> Uploads \cup {None}]  BY DEF Send!NoBytes
  <2>2. c5' \in [Dirs -> Uploads \cup {None}]  BY <1>1, <1>2, <1>4 DEF SendTypes
  <2>3. c7' \in [Uploads -> [Send!Chunks -> Uploads \cup {None}]]
    BY <1>1, <1>2, <2>1 DEF SendTypes
  <2>. QED BY <1>1, <1>2, <2>2, <2>3 DEF SendTypes
<1>16. \A v \in Uploads : Request(v)'
  <2>1. Request(u)'  BY <1>1, <1>3, <1>7 DEF Request, d
  <2>. QED BY <1>1, <1>7, <1>8, <2>1 DEF Request
<1>17. Send!Places'
  <2>1. /\ \A e, g \in Dirs :
             /\ c5'[e] = c5'[g] /\ c5'[e] # None => e = g
             /\ c6'[e] = c6'[g] /\ c6'[e] \in Uploads => e = g
             /\ c5'[e] # None => c5'[e] # c6'[g]
    BY <1>1, <1>2, <1>10, <1>12 DEF Send!Places
  <2>2. ASSUME NEW v \in Uploads, Send!Opened(v)'
        PROVE  /\ c4'[v].inode \in Uploads
               /\ \A e \in Dirs \ {c4'[v].to} : c5'[e] # c4'[v].inode /\ c6'[e] # c4'[v].inode
               /\ \A w \in Uploads : Send!Opened(w)' /\ c4'[v].inode = c4'[w].inode
                                       => c4'[v].to = c4'[w].to
    <3>1. CASE v = u
      BY <1>2, <1>4, <1>7, <1>8, <1>10, <1>12, <1>13, <3>1
    <3>2. CASE v # u
      <4>1. Send!Opened(v) /\ c4'[v] = c4[v]  BY <1>7, <1>8, <2>2, <3>2
      <4>2. /\ c4[v].inode \in Uploads
            /\ \A e \in Dirs \ {c4[v].to} : c5[e] # c4[v].inode /\ c6[e] # c4[v].inode
        BY <1>1, <4>1 DEF Send!Places
      <4>3. c4[v].inode = file => c4[v].to = d  BY <1>13, <4>1
      <4>4. \A e \in Dirs \ {c4[v].to} : c5'[e] # c4[v].inode  BY <1>10, <4>2, <4>3
      <4>5. \A w \in Uploads : Send!Opened(w)' /\ c4[v].inode = c4'[w].inode
                                  => c4[v].to = c4'[w].to
        <5>1. ASSUME NEW w \in Uploads, w # u, Send!Opened(w)', c4[v].inode = c4'[w].inode
              PROVE  c4[v].to = c4'[w].to
          BY <1>1, <1>7, <1>8, <4>1, <5>1 DEF Send!Places
        <5>. QED BY <1>7, <4>3, <5>1
      <4>. QED BY <1>2, <4>1, <4>2, <4>4, <4>5
    <3>. QED BY <3>1, <3>2
  <2>3. ASSUME NEW v \in Uploads, c4'[v].at \in {"idle", "sent", "named"}
        PROVE  /\ \A e \in Dirs : c5'[e] # v /\ c6'[e] # v
               /\ \A w \in Uploads : Send!Opened(w)' => c4'[w].inode # v
    <3>1. v # u /\ c4[v].at \in {"idle", "sent", "named"}  BY <1>7, <2>3
    <3>2. /\ \A e \in Dirs : c5[e] # v /\ c6[e] # v
          /\ \A w \in Uploads : Send!Opened(w) => c4[w].inode # v
      BY <1>1, <3>1 DEF Send!Places
    <3>3. file # v  BY <1>3, <1>5, <3>1, <3>2
    <3>. QED BY <1>2, <1>7, <1>8, <1>10, <3>2, <3>3
  <2>. QED BY <2>1, <2>2, <2>3 DEF Send!Places
<1>18. Send!Alone'
  <2>1. \A v, w \in Uploads : Send!UnderWay(v)' /\ Send!UnderWay(w)' /\ c4'[v].to = c4'[w].to
                                /\ v # w => c4'[v].to \in c9'
    BY <1>1, <1>2, <1>9 DEF Send!Alone
  <2>2. ASSUME NEW v \in Uploads, Send!Opened(v)', c4'[v].to \notin c9'
        PROVE  /\ c5'[c4'[v].to] = c4'[v].inode
               /\ c7'[c4'[v].inode] = [c \in Send!Chunks |-> IF c <= c4'[v].got THEN v ELSE None]
    <3>1. CASE v = u
      <4>1. Send!NoBytes = [c \in Send!Chunks |-> IF c <= 0 THEN v ELSE None]
        BY PartsAssumption DEF Send!NoBytes, Send!Chunks, Send!UploadAssumption
      <4>. QED BY <1>3, <1>7, <1>10, <1>14, <3>1, <4>1
    <3>2. CASE v # u
      <4>1. Send!Opened(v) /\ c4'[v] = c4[v] /\ c4[v].to \notin c9
        BY <1>2, <1>7, <1>8, <2>2, <3>2
      <4>2. /\ c5[c4[v].to] = c4[v].inode
            /\ c7[c4[v].inode] = [c \in Send!Chunks |-> IF c <= c4[v].got THEN v ELSE None]
        BY <1>1, <4>1 DEF Send!Alone
      <4>3. c4[v].inode \in Uploads /\ c4[v].to \in Dirs /\ Send!UnderWay(v)
        BY <1>1, <4>1 DEF Send!Places, Request, Send!UnderWay, Send!Opened
      <4>4. c4[v].to # d
        BY <1>1, <1>8, <3>2, <4>1, <4>3 DEF Send!Alone, d
      <4>5. c4[v].inode # file  BY <1>13, <4>1, <4>4
      <4>. QED BY <1>10, <1>14, <4>1, <4>2, <4>3, <4>4, <4>5
    <3>. QED BY <3>1, <3>2
  <2>3. \A v \in Uploads : c4'[v].at = "read" => c4'[v].got = c4'[v].size
    BY <1>1, <1>7 DEF Send!Alone
  <2>. QED BY <2>1, <2>2, <2>3 DEF Send!Alone
<1>19. OnDisk'
  <2>1. ASSUME NEW e \in Dirs \ c9, c6[e] \in Uploads  PROVE Send!Whole(c6[e])'
    <3>1. PICK w \in Uploads :
            /\ c4[w].at = "over" /\ c4[w].got = c4[w].size
            /\ c7[c6[e]] = [c \in Send!Chunks |-> IF c <= c4[w].size THEN w ELSE None]
      BY <1>1, <2>1 DEF Send!Whole, OnDisk
    <3>2. w # u /\ c4'[w] = c4[w]  BY <1>2, <1>7, <3>1
    <3>3. c7'[c6[e]] = c7[c6[e]]  BY <1>12, <1>14, <2>1
    <3>. QED BY <1>2, <3>1, <3>2, <3>3 DEF Send!Whole
  <2>2. ASSUME NEW e \in Dirs \ c9, ~c10, \A v \in Uploads : Send!UnderWay(v)' => c4'[v].to # e
        PROVE  c5'[e] = None
    <3>1. e # d  BY <1>7, <1>8, <2>2
    <3>. QED BY <1>1, <1>9, <1>10, <2>2, <3>1 DEF OnDisk
  <2>3. ~c10 => \A v \in c8 : Send!UnderWay(v)'
    BY <1>1, <1>9 DEF OnDisk, SendTypes
  <2>. QED BY <1>2, <2>1, <2>2, <2>3 DEF OnDisk
<1>. QED BY <1>7, <1>15, <1>16, <1>17, <1>18, <1>19, UploadInvStays

\* It writes a chunk, and is not paused.
LEMMA Writes ==
  ASSUME Send!UploadInv, NEW u \in Uploads, c4[u].at = "writing", c4[u].got < c4[u].size,
         c7' = [c7 EXCEPT ![c4[u].inode][c4[u].got + 1] = u],
         c4' = [c4 EXCEPT ![u].got = @ + 1],
         SendTypes', UNCHANGED <<c1, c2, c3, c5, c6, c8, c9, c10>>
  PROVE  Send!UploadInv'
<1>1. /\ SendTypes /\ c4 \in [Uploads -> Send!Requests]
      /\ \A v \in Uploads : Request(v)
      /\ Send!Places /\ Send!Alone /\ OnDisk
  BY UploadInvIs
<1>. DEFINE file == c4[u].inode
            n == c4[u].got
<1>2. /\ MaxChunks \in Nat /\ n \in 0..MaxChunks /\ c4[u].size \in 0..MaxChunks
      /\ n + 1 \in 0..MaxChunks /\ n + 1 \in Send!Chunks
  BY <1>1, PartsAssumption DEF Send!UploadAssumption, Send!Requests, Send!Chunks
<1>3. /\ c4' \in [Uploads -> Send!Requests] /\ \A v \in Uploads : v # u => c4'[v] = c4[v]
      /\ c4'[u].at = "writing" /\ c4'[u].to = c4[u].to /\ c4'[u].inode = c4[u].inode
      /\ c4'[u].got = n + 1 /\ c4'[u].size = c4[u].size
  BY <1>1, <1>2 DEF Send!Requests
<1>4. ASSUME NEW v \in Uploads
      PROVE  /\ c4'[v].at = c4[v].at /\ c4'[v].to = c4[v].to /\ c4'[v].inode = c4[v].inode
             /\ Send!UnderWay(v)' <=> Send!UnderWay(v)
             /\ Send!Opened(v)' <=> Send!Opened(v)
  BY <1>3 DEF Send!UnderWay, Send!Opened
<1>. HIDE DEF file, n
<1>5. Send!UnderWay(u) /\ Send!Opened(u) /\ file \in Uploads
  BY <1>1 DEF Send!UnderWay, Send!Opened, Send!Places, file
<1>6. /\ \A i \in Uploads : i # file => c7'[i] = c7[i]
      /\ c7'[file] = [c7[file] EXCEPT ![n + 1] = u]
  BY <1>1, <1>5 DEF SendTypes, file, n
<1>7. \A v \in Uploads : Request(v)'
  <2>1. Request(u)'  BY <1>1, <1>2, <1>3, <1>4 DEF Request, n
  <2>. QED BY <1>1, <1>3, <1>4, <2>1 DEF Request
<1>8. Send!Places'  BY <1>1, <1>4 DEF Send!Places
<1>9. Send!Alone'
  <2>1. \A v, w \in Uploads : Send!UnderWay(v)' /\ Send!UnderWay(w)' /\ c4'[v].to = c4'[w].to
                                /\ v # w => c4'[v].to \in c9'
    BY <1>1, <1>4 DEF Send!Alone
  <2>2. ASSUME NEW v \in Uploads, Send!Opened(v)', c4'[v].to \notin c9'
        PROVE  /\ c5'[c4'[v].to] = c4'[v].inode
               /\ c7'[c4'[v].inode] = [c \in Send!Chunks |-> IF c <= c4'[v].got THEN v ELSE None]
    <3>1. Send!Opened(v) /\ c4[v].to \notin c9  BY <1>4, <2>2
    <3>2. /\ c5[c4[v].to] = c4[v].inode
          /\ c7[c4[v].inode] = [c \in Send!Chunks |-> IF c <= c4[v].got THEN v ELSE None]
      BY <1>1, <3>1 DEF Send!Alone
    <3>3. CASE v = u
      <4>1. c7[file] = [c \in Send!Chunks |-> IF c <= n THEN u ELSE None]
        BY <3>2, <3>3 DEF file, n
      <4>2. \A c \in Send!Chunks : c <= n + 1 <=> c <= n \/ c = n + 1
        BY <1>2 DEF Send!Chunks
      <4>3. c7'[file] = [c \in Send!Chunks |-> IF c <= n + 1 THEN u ELSE None]
        BY <1>2, <1>6, <4>1, <4>2
      <4>. QED BY <1>3, <3>2, <3>3, <4>3 DEF file
    <3>4. CASE v # u
      <4>1. c4[v].inode \in Uploads /\ Send!UnderWay(v)
        BY <1>1, <3>1 DEF Send!Places, Send!UnderWay, Send!Opened
      <4>2. c4[v].to # c4[u].to  BY <1>1, <1>5, <3>1, <3>4, <4>1 DEF Send!Alone
      <4>3. c4[v].inode # file  BY <1>1, <1>5, <3>1, <4>2 DEF Send!Places, file
      <4>4. c7'[c4[v].inode] = c7[c4[v].inode]  BY <1>6, <4>1, <4>3
      <4>. QED BY <1>3, <3>2, <3>4, <4>4
    <3>. QED BY <3>3, <3>4
  <2>3. \A v \in Uploads : c4'[v].at = "read" => c4'[v].got = c4'[v].size
    BY <1>1, <1>3 DEF Send!Alone
  <2>. QED BY <2>1, <2>2, <2>3 DEF Send!Alone
<1>10. OnDisk'
  <2>1. ASSUME NEW d \in Dirs \ c9, c6[d] \in Uploads  PROVE Send!Whole(c6[d])'
    <3>1. PICK w \in Uploads :
            /\ c4[w].at = "over" /\ c4[w].got = c4[w].size
            /\ c7[c6[d]] = [c \in Send!Chunks |-> IF c <= c4[w].size THEN w ELSE None]
      BY <1>1, <2>1 DEF Send!Whole, OnDisk
    <3>2. w # u /\ c4'[w] = c4[w]  BY <1>3, <3>1
    <3>3. c6[d] # file
      <4>1. SUFFICES ASSUME c6[d] = file  PROVE FALSE
        OBVIOUS
      <4>2. d = c4[u].to  BY <1>1, <1>5, <4>1 DEF Send!Places, file
      <4>3. c5[d] = c6[d]  BY <1>1, <1>5, <4>1, <4>2 DEF Send!Alone, file
      <4>4. None \notin Uploads  BY PartsAssumption DEF Send!UploadAssumption
      <4>. QED BY <1>1, <2>1, <4>3, <4>4 DEF Send!Places
    <3>4. c7'[c6[d]] = c7[c6[d]]  BY <1>6, <2>1, <3>3
    <3>. QED BY <3>1, <3>2, <3>4 DEF Send!Whole
  <2>2. ~c10 => \A v \in c8 : Send!UnderWay(v)'  BY <1>1, <1>4 DEF OnDisk, SendTypes
  <2>. QED BY <1>1, <1>4, <2>1, <2>2 DEF OnDisk
<1>. QED BY <1>3, <1>7, <1>8, <1>9, <1>10, UploadInvStays

\* It takes the place of the model, with the temporary file there is.
LEMMA Renames ==
  ASSUME Send!UploadAssumption, Send!UploadInv, NEW u \in Uploads, Send!Rename(u)
  PROVE  Send!UploadInv'
<1>. DEFINE d == c4[u].to
<1>1. /\ SendTypes /\ c4 \in [Uploads -> Send!Requests]
      /\ \A v \in Uploads : Request(v)
      /\ Send!Places /\ Send!Alone /\ OnDisk
  BY UploadInvIs
<1>2. /\ c4[u].at = "read" /\ c5[d] # None
      /\ c6' = [c6 EXCEPT ![d] = c5[d]] /\ c5' = [c5 EXCEPT ![d] = None]
      /\ c8' = c8 \ {u} /\ c4' = [c4 EXCEPT ![u] = Send!Over(@)]
      /\ UNCHANGED <<c1, c2, c3, c7, c9, c10>>
  BY DEF Send!Rename, Send!wizardVars, Send!Ended
<1>3. /\ c4' \in [Uploads -> Send!Requests] /\ \A v \in Uploads : v # u => c4'[v] = c4[v]
      /\ c4'[u].at = "over" /\ c4'[u].got = c4[u].got /\ c4'[u].size = c4[u].size
  BY <1>1, <1>2, Overs
<1>4. /\ Send!UnderWay(u) /\ ~Send!UnderWay(u)' /\ Send!Opened(u) /\ ~Send!Opened(u)'
      /\ \A v \in Uploads : v # u => /\ Send!UnderWay(v)' <=> Send!UnderWay(v)
                                     /\ Send!Opened(v)' <=> Send!Opened(v)
  BY <1>2, <1>3 DEF Send!UnderWay, Send!Opened
<1>5. d \in Dirs /\ c5[d] \in Uploads  BY <1>1, <1>2, <1>4 DEF Request, SendTypes
<1>. HIDE DEF d
<1>6. /\ c5'[d] = None /\ \A e \in Dirs : e # d => c5'[e] = c5[e]
      /\ c6'[d] = c5[d] /\ \A e \in Dirs : e # d => c6'[e] = c6[e]
  BY <1>1, <1>2, <1>5 DEF SendTypes
<1>7. \A v \in Uploads : Send!Opened(v)' => v # u /\ Send!Opened(v) /\ c4'[v] = c4[v]
  BY <1>3, <1>4
<1>8. SendTypes'  BY <1>1, <1>2, <1>5 DEF SendTypes
<1>9. None \notin Uploads  BY DEF Send!UploadAssumption
<1>10. \A v \in Uploads : Request(v)'
  <2>1. Request(u)'  BY <1>1, <1>3, <1>4 DEF Request
  <2>. QED BY <1>1, <1>3, <1>4, <2>1 DEF Request
<1>11. Send!Places'
  <2>1. ASSUME NEW e \in Dirs, NEW g \in Dirs
        PROVE  /\ c5'[e] = c5'[g] /\ c5'[e] # None => e = g
               /\ c6'[e] = c6'[g] /\ c6'[e] \in Uploads => e = g
               /\ c5'[e] # None => c5'[e] # c6'[g]
    BY <1>1, <1>2, <1>5, <1>6 DEF Send!Places
  <2>2. ASSUME NEW v \in Uploads, Send!Opened(v)'
        PROVE  /\ c4'[v].inode \in Uploads
               /\ \A e \in Dirs \ {c4'[v].to} : c5'[e] # c4'[v].inode /\ c6'[e] # c4'[v].inode
               /\ \A w \in Uploads : Send!Opened(w)' /\ c4'[v].inode = c4'[w].inode
                                       => c4'[v].to = c4'[w].to
    <3>1. Send!Opened(v) /\ c4'[v] = c4[v]  BY <1>7, <2>2
    <3>2. /\ c4[v].inode \in Uploads
          /\ \A e \in Dirs \ {c4[v].to} : c5[e] # c4[v].inode /\ c6[e] # c4[v].inode
          /\ \A w \in Uploads : Send!Opened(w) /\ c4[v].inode = c4[w].inode => c4[v].to = c4[w].to
      BY <1>1, <3>1 DEF Send!Places
    <3>. QED BY <1>6, <1>7, <1>9, <3>1, <3>2
  <2>3. ASSUME NEW v \in Uploads, c4'[v].at \in {"idle", "sent", "named"}
        PROVE  /\ \A e \in Dirs : c5'[e] # v /\ c6'[e] # v
               /\ \A w \in Uploads : Send!Opened(w)' => c4'[w].inode # v
    <3>1. c4[v].at \in {"idle", "sent", "named"}  BY <1>3, <2>3
    <3>2. /\ \A e \in Dirs : c5[e] # v /\ c6[e] # v
          /\ \A w \in Uploads : Send!Opened(w) => c4[w].inode # v
      BY <1>1, <3>1 DEF Send!Places
    <3>. QED BY <1>5, <1>6, <1>7, <1>9, <3>2
  <2>. QED BY <2>1, <2>2, <2>3 DEF Send!Places
<1>12. Send!Alone'
  <2>1. \A v, w \in Uploads : Send!UnderWay(v)' /\ Send!UnderWay(w)' /\ c4'[v].to = c4'[w].to
                                /\ v # w => c4'[v].to \in c9'
    BY <1>1, <1>2, <1>3, <1>4 DEF Send!Alone
  <2>2. ASSUME NEW v \in Uploads, Send!Opened(v)', c4'[v].to \notin c9'
        PROVE  /\ c5'[c4'[v].to] = c4'[v].inode
               /\ c7'[c4'[v].inode] = [c \in Send!Chunks |-> IF c <= c4'[v].got THEN v ELSE None]
    <3>1. v # u /\ Send!Opened(v) /\ c4'[v] = c4[v] /\ c4[v].to \notin c9
      BY <1>2, <1>7, <2>2
    <3>2. c4[v].to \in Dirs /\ Send!UnderWay(v)
      BY <1>1, <3>1 DEF Request, Send!UnderWay, Send!Opened
    <3>3. c4[v].to # d  BY <1>1, <1>4, <3>1, <3>2 DEF Send!Alone, d
    <3>. QED BY <1>1, <1>2, <1>6, <3>1, <3>2, <3>3 DEF Send!Alone
  <2>3. \A v \in Uploads : c4'[v].at = "read" => c4'[v].got = c4'[v].size
    BY <1>1, <1>3 DEF Send!Alone
  <2>. QED BY <2>1, <2>2, <2>3 DEF Send!Alone
<1>13. OnDisk'
  <2>1. ASSUME NEW i, Send!Whole(i)  PROVE Send!Whole(i)'
    <3>1. PICK w \in Uploads :
            /\ c4[w].at = "over" /\ c4[w].got = c4[w].size
            /\ c7[i] = [c \in Send!Chunks |-> IF c <= c4[w].size THEN w ELSE None]
      BY <2>1 DEF Send!Whole
    <3>2. c4'[w] = c4[w] /\ c7' = c7  BY <1>2, <1>3, <3>1
    <3>. QED BY <3>1, <3>2 DEF Send!Whole
  <2>2. ASSUME NEW i, i = c5[d], d \notin c9  PROVE Send!Whole(i)'
    <3>1. /\ c5[d] = c4[u].inode /\ c4[u].got = c4[u].size
          /\ c7[c4[u].inode] = [c \in Send!Chunks |-> IF c <= c4[u].got THEN u ELSE None]
      BY <1>1, <1>2, <1>4, <2>2 DEF Send!Alone, d
    <3>2. /\ c4'[u].at = "over" /\ c4'[u].got = c4'[u].size
          /\ c7'[i] = [c \in Send!Chunks |-> IF c <= c4'[u].size THEN u ELSE None]
      BY <1>2, <1>3, <2>2, <3>1
    <3>. QED BY <3>2 DEF Send!Whole
  <2>3. ASSUME NEW e \in Dirs \ c9, c6'[e] \in Uploads  PROVE Send!Whole(c6[e])'
    <3>1. PICK i : i = c6'[e]  OBVIOUS
    <3>2. Send!Whole(i)'
      <4>1. CASE e = d
        BY <1>6, <2>2, <2>3, <3>1, <4>1
      <4>2. CASE e # d
        BY <1>1, <1>6, <2>1, <2>3, <3>1, <4>2 DEF OnDisk
      <4>. QED BY <4>1, <4>2
    <3>. QED BY <3>1, <3>2 DEF Send!Whole
  <2>4. ASSUME NEW e \in Dirs \ c9, ~c10, \A v \in Uploads : Send!UnderWay(v)' => c4'[v].to # e
        PROVE  c5'[e] = None
    <3>1. CASE e = d
      BY <1>6, <3>1
    <3>2. CASE e # d
      <4>1. \A v \in Uploads : Send!UnderWay(v) => c4[v].to # e
        BY <1>3, <1>4, <2>4, <3>2 DEF d
      <4>. QED BY <1>1, <1>6, <2>4, <3>2, <4>1 DEF OnDisk
    <3>. QED BY <3>1, <3>2
  <2>5. ASSUME ~c10, NEW v \in c8'  PROVE Send!UnderWay(v)'
    <3>1. v \in Uploads /\ v # u /\ Send!UnderWay(v)
      BY <1>1, <1>2, <2>5 DEF OnDisk, SendTypes
    <3>. QED BY <1>4, <3>1
  <2>. QED BY <1>2, <2>3, <2>4, <2>5 DEF OnDisk
<1>. QED BY <1>3, <1>8, <1>10, <1>11, <1>12, <1>13, UploadInvStays

\* It is sent, to the folder that is chosen.
LEMMA Chooses ==
  ASSUME Send!UploadAssumption, Send!UploadInv, NEW u \in Uploads, NEW size \in 0..MaxChunks,
         Send!ChooseFile(u, size)
  PROVE  Send!UploadInv'
<1>1. /\ SendTypes /\ c4 \in [Uploads -> Send!Requests]
      /\ \A v \in Uploads : Request(v)
      /\ Send!Places /\ Send!Alone /\ OnDisk
  BY UploadInvIs
<1>2. /\ c4[u].at = "idle" /\ c3 \in Dirs
      /\ c4' = [c4 EXCEPT ![u] = [Send!Idle EXCEPT !.at = "sent", !.to = c3, !.size = size]]
      /\ c1' = 1 /\ c2' = None /\ c3' = None /\ UNCHANGED <<c5, c6, c7, c8, c9, c10>>
  BY <1>1 DEF Send!ChooseFile, Send!diskVars, SendTypes
<1>. DEFINE r == [Send!Idle EXCEPT !.at = "sent", !.to = c3, !.size = size]
<1>3. /\ r \in Send!Requests /\ r.at = "sent" /\ r.to = c3 /\ r.got = 0 /\ r.size = size
  <2>1. /\ Send!Idle \in Send!Requests /\ Send!Idle.got = 0
    BY DEF Send!Idle, Send!Requests, Send!UploadAssumption
  <2>. QED BY <1>2, <2>1 DEF Send!Requests
<1>. HIDE DEF r
<1>4. c4' = [c4 EXCEPT ![u] = r]  BY <1>2 DEF r
<1>5. /\ c4' \in [Uploads -> Send!Requests] /\ c4'[u] = r
      /\ \A v \in Uploads : v # u => c4'[v] = c4[v]
  BY <1>1, <1>3, <1>4
<1>12. UNCHANGED <<c5, c6, c7, c8, c9, c10>>  BY <1>2
<1>6. /\ \A v \in Uploads : (Send!UnderWay(v)' <=> Send!UnderWay(v))
                            /\ (Send!Opened(v)' <=> Send!Opened(v))
      /\ ~Send!UnderWay(u) /\ ~Send!Opened(u)
  BY <1>2, <1>3, <1>5 DEF Send!UnderWay, Send!Opened
<1>7. SendTypes'  BY <1>1, <1>2 DEF SendTypes
<1>8. \A v \in Uploads : Request(v)'
  <2>1. c4'[u].got = 0 /\ 0 <= c4'[u].size /\ c4'[u].to \in Dirs
    <3>1. size \in Nat  BY DEF Send!UploadAssumption
    <3>2. c3 \in Dirs  BY <1>2
    <3>3. r.got = 0 /\ 0 <= r.size /\ r.to \in Dirs  BY <1>3, <3>1, <3>2
    <3>. QED BY <1>5, <3>3
  <2>2. Request(u)'  BY <2>1 DEF Request
  <2>. QED BY <1>1, <1>5, <1>6, <2>2 DEF Request
<1>9. Send!Places'
  <2>1. \A v \in Uploads : Send!Opened(v)' => Send!Opened(v) /\ c4'[v] = c4[v]
    BY <1>5, <1>6
  <2>2. \A v \in Uploads : c4'[v].at \in {"idle", "sent", "named"}
                             => c4[v].at \in {"idle", "sent", "named"}
    BY <1>2, <1>5
  <2>. QED BY <1>1, <1>12, <2>1, <2>2 DEF Send!Places
<1>10. Send!Alone'
  <2>1. \A v \in Uploads : Send!UnderWay(v)' => Send!UnderWay(v) /\ c4'[v] = c4[v]
    BY <1>5, <1>6
  <2>2. \A v \in Uploads : Send!Opened(v)' => Send!Opened(v) /\ c4'[v] = c4[v]
    BY <1>5, <1>6
  <2>3. \A v \in Uploads : c4'[v].at = "read" => c4'[v] = c4[v]
    BY <1>3, <1>5
  <2>. QED BY <1>1, <1>12, <2>1, <2>2, <2>3 DEF Send!Alone
<1>11. OnDisk'
  <2>1. ASSUME NEW i, Send!Whole(i)  PROVE Send!Whole(i)'
    <3>1. PICK w \in Uploads :
            /\ c4[w].at = "over" /\ c4[w].got = c4[w].size
            /\ c7[i] = [c \in Send!Chunks |-> IF c <= c4[w].size THEN w ELSE None]
      BY <2>1 DEF Send!Whole
    <3>2. c4'[w] = c4[w] /\ c7' = c7  BY <1>2, <1>5, <3>1
    <3>. QED BY <3>1, <3>2 DEF Send!Whole
  <2>2. \A v \in Uploads : Send!UnderWay(v) => Send!UnderWay(v)' /\ c4'[v].to = c4[v].to
    BY <1>5, <1>6
  <2>3. \A v \in c8 : v \in Uploads  BY <1>1 DEF SendTypes
  <2>. QED BY <1>1, <1>2, <2>1, <2>2, <2>3 DEF OnDisk
<1>. QED BY <1>5, <1>7, <1>8, <1>9, <1>10, <1>11, UploadInvStays

\* ComfyUI is restarted.
LEMMA Crashes ==
  ASSUME Send!UploadInv, Send!Crash
  PROVE  Send!UploadInv'
<1>1. /\ SendTypes /\ c4 \in [Uploads -> Send!Requests]
      /\ \A v \in Uploads : Request(v)
      /\ Send!Places /\ Send!Alone /\ OnDisk
  BY UploadInvIs
<1>2. /\ c4' = [u \in Uploads |-> IF c4[u].at = "idle" THEN c4[u] ELSE Send!Over(c4[u])]
      /\ c10' = TRUE /\ UNCHANGED <<c1, c2, c3, c5, c6, c7, c8, c9>>
  BY DEF Send!Crash, Send!wizardVars, Send!diskVars
<1>3. ASSUME NEW u \in Uploads
      PROVE  /\ c4'[u] \in Send!Requests /\ c4'[u].got = c4[u].got /\ c4'[u].size = c4[u].size
             /\ \/ c4[u].at = "idle" /\ c4'[u] = c4[u]
                \/ c4'[u].at = "over"
  BY <1>1, <1>2, Overs
<1>4. c4' \in [Uploads -> Send!Requests]  BY <1>2, <1>3
<1>5. \A u \in Uploads : ~Send!UnderWay(u)' /\ ~Send!Opened(u)' /\ c4'[u].at \notin {"sent", "read"}
  BY <1>3 DEF Send!UnderWay, Send!Opened
<1>6. SendTypes'  BY <1>1, <1>2 DEF SendTypes
<1>7. \A u \in Uploads : Request(u)'  BY <1>1, <1>3, <1>5 DEF Request
<1>8. Send!Places'
  <2>1. \A u \in Uploads : c4'[u].at \in {"idle", "sent", "named"} => c4[u].at = "idle"
    BY <1>3
  <2>. QED BY <1>1, <1>2, <1>5, <2>1 DEF Send!Places
<1>9. Send!Alone'  BY <1>5 DEF Send!Alone
<1>10. ASSUME NEW i, Send!Whole(i)  PROVE Send!Whole(i)'
  <2>1. PICK w \in Uploads :
          /\ c4[w].at = "over" /\ c4[w].got = c4[w].size
          /\ c7[i] = [c \in Send!Chunks |-> IF c <= c4[w].size THEN w ELSE None]
    BY <1>10 DEF Send!Whole
  <2>2. c4'[w].at = "over" /\ c4'[w].got = c4'[w].size /\ c4'[w].size = c4[w].size /\ c7' = c7
    BY <1>2, <1>3, <2>1
  <2>. QED BY <2>1, <2>2 DEF Send!Whole
<1>11. OnDisk'  BY <1>1, <1>2, <1>10 DEF OnDisk
<1>. QED BY <1>4, <1>6, <1>7, <1>8, <1>9, <1>11, UploadInvStays

\* The wizard alone.
LEMMA WizardMoves ==
  ASSUME Send!UploadInv, UNCHANGED <<c4, c5, c6, c7, c8, c9, c10>>,
         c1' \in 1..3, c2' \in Kinds \cup {None}, c3' \in Dirs \cup {None},
         c1' = 3 => c3' # None
  PROVE  Send!UploadInv'
<1>1. /\ SendTypes /\ c4 \in [Uploads -> Send!Requests]
      /\ \A v \in Uploads : Request(v)
      /\ Send!Places /\ Send!Alone /\ OnDisk
  BY UploadInvIs
<1>2. SendTypes'  BY <1>1 DEF SendTypes
<1>3. \A v \in Uploads : Request(v)'  BY <1>1 DEF Request, Send!UnderWay
<1>4. Send!Places'  BY <1>1 DEF Send!Places, Send!Opened
<1>5. Send!Alone'  BY <1>1 DEF Send!Alone, Send!Opened, Send!UnderWay
<1>6. OnDisk'  BY <1>1 DEF OnDisk, Send!Whole, Send!UnderWay
<1>. QED BY <1>1, <1>2, <1>3, <1>4, <1>5, <1>6, UploadInvStays

\* It is refused, or its cleanup removes what is under the temporary name.
LEMMA Cleans ==
  ASSUME Send!UploadInv, NEW u \in Uploads,
         c4[u].at \notin {"idle", "over"}, c4' = Send!Ended(u),
         UNCHANGED <<c1, c2, c3, c6, c7, c9, c10>>,
         \/ c5' = c5 /\ c4[u].at = "sent" /\ c8' = c8
         \/ c5' = [c5 EXCEPT ![c4[u].to] = None] /\ Send!UnderWay(u) /\ c8' = c8 \ {u}
  PROVE  Send!UploadInv'
<1>1. SendTypes /\ c4 \in [Uploads -> Send!Requests] /\ \A v \in Uploads : Request(v)
  BY UploadInvIs
<1>2. c4' = [c4 EXCEPT ![u] = Send!Over(@)]  BY DEF Send!Ended
<1>3. /\ c4' \in [Uploads -> Send!Requests] /\ \A v \in Uploads : v # u => c4'[v] = c4[v]
      /\ c4'[u].at = "over" /\ c4'[u].got <= c4'[u].size
  BY <1>1, <1>2, Overs DEF Request
<1>4. c4[u].at = "sent" => ~Send!UnderWay(u)  BY DEF Send!UnderWay
<1>5. SendTypes'  BY <1>1 DEF SendTypes
<1>. QED BY <1>3, <1>4, <1>5, Leaves

LEMMA ChunkKeeps ==
  ASSUME Send!UploadAssumption, Send!UploadInv, NEW u \in Uploads, Send!Chunk(u)
  PROVE  Send!UploadInv'
<1>1. /\ SendTypes /\ c4 \in [Uploads -> Send!Requests]
      /\ \A v \in Uploads : Request(v)
      /\ Send!Places
  BY UploadInvIs
<1>2. /\ c4[u].at = "writing" /\ c4[u].got < c4[u].size
      /\ c7' = [c7 EXCEPT ![c4[u].inode][c4[u].got + 1] = u]
      /\ UNCHANGED <<c1, c2, c3, c6, c9, c10>>
  BY DEF Send!Chunk, Send!wizardVars
<1>3. Send!Opened(u) /\ Send!UnderWay(u) /\ c4[u].inode \in Uploads /\ c4[u].to \in Dirs
  BY <1>1, <1>2 DEF Send!Opened, Send!UnderWay, Send!Places, Request
<1>4. c4[u].got + 1 \in Send!Chunks /\ c4[u].got + 1 \in 0..MaxChunks
  BY <1>1, <1>2 DEF Send!UploadAssumption, Send!Requests, Send!Chunks
<1>5. /\ c7' \in [Uploads -> [Send!Chunks -> Uploads \cup {None}]]
      /\ \A i \in Uploads : c7'[i] # c7[i] => i = c4[u].inode
  BY <1>1, <1>2, <1>3 DEF SendTypes
<1>6. CASE c4[u].paused
  <2>. DEFINE r == [c4[u] EXCEPT !.got = @ + 1]
  <2>1. /\ c4' = [c4 EXCEPT ![u] = Send!Over(r)]
        /\ c5' = [c5 EXCEPT ![c4[u].to] = None] /\ c8' = c8 \ {u}
    <3>1. c4' = [c4 EXCEPT ![u] = Send!Over(r)]
      BY <1>6 DEF Send!Chunk
    <3>2. c5' = [c5 EXCEPT ![c4[u].to] = None] /\ c8' = c8 \ {u}
      BY <1>6 DEF Send!Chunk
    <3>. QED BY <3>1, <3>2
  <2>2. r \in Send!Requests /\ r.got = c4[u].got + 1 /\ r.size = c4[u].size
    BY <1>1, <1>4 DEF Send!Requests
  <2>. HIDE DEF r
  <2>3. /\ c4' \in [Uploads -> Send!Requests] /\ \A v \in Uploads : v # u => c4'[v] = c4[v]
        /\ c4'[u].at = "over" /\ c4'[u].got = c4[u].got + 1 /\ c4'[u].size = c4[u].size
    BY <1>1, <2>1, <2>2, Overs
  <2>4. c4'[u].got <= c4'[u].size
    BY <1>1, <1>2, <2>3 DEF Send!Requests, Send!UploadAssumption
  <2>5. SendTypes'  BY <1>1, <1>2, <1>5, <2>1 DEF SendTypes
  <2>. QED BY <1>2, <1>3, <1>5, <2>1, <2>3, <2>4, <2>5, Leaves
<1>7. CASE ~c4[u].paused
  <2>1. c4' = [c4 EXCEPT ![u].got = @ + 1] /\ UNCHANGED <<c5, c8>>
    BY <1>7 DEF Send!Chunk
  <2>2. SendTypes'  BY <1>1, <1>2, <1>5, <2>1 DEF SendTypes
  <2>. QED BY <1>2, <2>1, <2>2, Writes
<1>. QED BY <1>6, <1>7

LEMMA MarkKeeps ==
  ASSUME Send!UploadInv, NEW u \in Uploads,
         Send!BodyEnds(u) \/ Send!Pause(u) \/ Send!Delete(u)
  PROVE  Send!UploadInv'
<1>1. c4 \in [Uploads -> Send!Requests]  BY UploadInvIs
<1>2. CASE Send!BodyEnds(u)
  <2>1. /\ c4[u].at = "writing" /\ c4[u].got = c4[u].size /\ c4' = [c4 EXCEPT ![u].at = "read"]
        /\ UNCHANGED <<c1, c2, c3, c5, c6, c7, c8, c9, c10>>
    BY <1>2 DEF Send!BodyEnds, Send!wizardVars, Send!diskVars
  <2>2. /\ c4' \in [Uploads -> Send!Requests] /\ \A v \in Uploads : v # u => c4'[v] = c4[v]
        /\ c4'[u].at = "read" /\ c4'[u].to = c4[u].to /\ c4'[u].inode = c4[u].inode
        /\ c4'[u].size = c4[u].size /\ c4'[u].got = c4[u].got
    BY <1>1, <2>1 DEF Send!Requests
  <2>. QED BY <2>1, <2>2, Marks
<1>3. ASSUME NEW p \in BOOLEAN, c4' = [c4 EXCEPT ![u].paused = p], c8' \subseteq c8,
             UNCHANGED <<c1, c2, c3, c5, c6, c7, c9, c10>>
      PROVE  Send!UploadInv'
  <2>1. /\ c4' \in [Uploads -> Send!Requests] /\ \A v \in Uploads : v # u => c4'[v] = c4[v]
        /\ c4'[u].at = c4[u].at /\ c4'[u].to = c4[u].to /\ c4'[u].inode = c4[u].inode
        /\ c4'[u].size = c4[u].size /\ c4'[u].got = c4[u].got
    BY <1>1, <1>3 DEF Send!Requests
  <2>. QED BY <1>3, <2>1, Marks
<1>4. CASE Send!Pause(u)
  BY <1>3, <1>4 DEF Send!Pause, Send!wizardVars, Send!diskVars
<1>5. CASE Send!Delete(u)
  <2>1. /\ c4' = [c4 EXCEPT ![u].paused = Send!UnderWay(u) \/ @] /\ c8' = c8 \ {u}
        /\ UNCHANGED <<c1, c2, c3, c5, c6, c7, c9, c10>>
    BY <1>5 DEF Send!Delete, Send!wizardVars, Send!diskVars
  <2>2. PICK p \in BOOLEAN : c4' = [c4 EXCEPT ![u].paused = p]
    BY <2>1, Zenon
  <2>. QED BY <1>3, <2>1, <2>2
<1>. QED BY <1>2, <1>4, <1>5

LEMMA SendStep ==
  ASSUME Send!UploadAssumption, Send!UploadInv, [Send!Next]_(Send!uploadVars)
  PROVE  Send!UploadInv'
<1>1. SendTypes /\ c4 \in [Uploads -> Send!Requests]  BY UploadInvIs
<1>2. ASSUME NEW k \in Kinds, Send!PickType(k)  PROVE Send!UploadInv'
  BY <1>1, <1>2, WizardMoves DEF Send!PickType, SendTypes, Send!diskVars
<1>3. ASSUME NEW d \in Dirs, Send!PickFolder(d)  PROVE Send!UploadInv'
  BY <1>1, <1>3, WizardMoves DEF Send!PickFolder, SendTypes, Send!diskVars
<1>4. CASE Send!HandleConfirmSubdir
  BY <1>1, <1>4, WizardMoves DEF Send!HandleConfirmSubdir, SendTypes, Send!diskVars
<1>5. CASE Send!HandleBackTypeSelect
  BY <1>1, <1>5, WizardMoves DEF Send!HandleBackTypeSelect, SendTypes, Send!diskVars
<1>6. ASSUME NEW to \in 1..2, Send!Tab(to)  PROVE Send!UploadInv'
  BY <1>1, <1>6, WizardMoves DEF Send!Tab, SendTypes, Send!diskVars
<1>7. CASE Send!Crash  BY <1>7, Crashes
<1>8. ASSUME NEW u \in Uploads, Send!CreateLocalTask(u)  PROVE Send!UploadInv'
  <2>1. c4[u].at = "sent" /\ UNCHANGED <<c1, c2, c3, c5, c6, c7, c10>>
    BY <1>8 DEF Send!CreateLocalTask, Send!wizardVars, Send!diskVars
  <2>2. CASE c4' = Send!Ended(u) /\ UNCHANGED <<c8, c9>>  BY <2>1, <2>2, Cleans
  <2>3. CASE /\ c4' = [c4 EXCEPT ![u].at = "named"] /\ c8' = c8 \cup {u}
             /\ c9' = c9 \cup {d \in {c4[u].to} :
                                 \E v \in Uploads : Send!UnderWay(v) /\ c4[v].to = d}
    BY <2>1, <2>3, Creates
  <2>. QED BY <1>8, <2>2, <2>3 DEF Send!CreateLocalTask
<1>9. ASSUME NEW u \in Uploads, Send!CleanupLocalTask(u), Send!UnderWay(u)
      PROVE  Send!UploadInv'
  <2>1. c4[u].at \notin {"idle", "over"}  BY <1>9 DEF Send!UnderWay
  <2>. QED BY <1>9, <2>1, Cleans DEF Send!CleanupLocalTask, Send!wizardVars
<1>10. ASSUME NEW u \in Uploads, Send!Breaks(u) \/ Send!RenameFails(u)
       PROVE  Send!UploadInv'
  BY <1>9, <1>10 DEF Send!Breaks, Send!RenameFails, Send!UnderWay
<1>11. CASE UNCHANGED Send!uploadVars
  <2>1. UNCHANGED <<c1, c2, c3, c4, c5, c6, c7, c8, c9, c10>>
    BY <1>11 DEF Send!uploadVars, Send!wizardVars, Send!diskVars
  <2>. QED BY <1>1, <2>1, WizardMoves DEF SendTypes
<1>12. ASSUME NEW u \in Uploads,
              \/ \E size \in 0..MaxChunks : Send!ChooseFile(u, size)
              \/ Send!OpenTmp(u) \/ Send!Chunk(u) \/ Send!BodyEnds(u) \/ Send!Rename(u)
              \/ Send!Pause(u) \/ Send!Delete(u)
       PROVE  Send!UploadInv'
  BY <1>12, Chooses, Opens, ChunkKeeps, MarkKeeps, Renames
<1>. QED BY <1>2, <1>3, <1>4, <1>5, <1>6, <1>7, <1>8, <1>10, <1>11, <1>12 DEF Send!Next

LEMMA SendStart == Send!UploadAssumption /\ Send!Init => Send!UploadInv
<1>. SUFFICES ASSUME Send!UploadAssumption, Send!Init  PROVE Send!UploadInv
  OBVIOUS
<1>1. Send!Idle \in Send!Requests /\ Send!Idle.at = "idle"
      /\ Send!Idle.got = 0 /\ Send!Idle.size = 0
  BY DEF Send!Idle, Send!Requests, Send!UploadAssumption
<1>2. /\ c4 \in [Uploads -> Send!Requests]
      /\ \A u \in Uploads : /\ c4[u].at = "idle" /\ c4[u].got = 0 /\ c4[u].size = 0
                            /\ ~Send!UnderWay(u) /\ ~Send!Opened(u)
  BY <1>1 DEF Send!Init, Send!UnderWay, Send!Opened
<1>3. Send!NoBytes \in [Send!Chunks -> Uploads \cup {None}]  BY DEF Send!NoBytes
<1>4. SendTypes
  <2>1. c1 \in 1..3 /\ c1 # 3 /\ c2 = None /\ c3 = None
    BY DEF Send!Init
  <2>4. c8 = {} /\ c9 = {} /\ c10 \in BOOLEAN
    BY DEF Send!Init
  <2>2. c5 \in [Dirs -> Uploads \cup {None}] /\ c6 \in [Dirs -> Uploads \cup {Old, None}]
    BY DEF Send!Init
  <2>3. c7 \in [Uploads -> [Send!Chunks -> Uploads \cup {None}]]
    BY <1>3 DEF Send!Init
  <2>. QED BY <2>1, <2>2, <2>3, <2>4 DEF SendTypes
<1>5. \A u \in Uploads : Request(u)  BY <1>2 DEF Request
<1>6. /\ \A d \in Dirs : c5[d] = None /\ c6[d] \notin Uploads
      /\ None \notin Uploads /\ c8 = {} /\ c9 = {} /\ c10 = FALSE
  BY DEF Send!Init, Send!UploadAssumption
<1>7. Send!Places  BY <1>2, <1>6 DEF Send!Places
<1>8. Send!Alone  BY <1>2 DEF Send!Alone
<1>9. OnDisk  BY <1>6 DEF OnDisk
<1>. QED BY <1>2, <1>4, <1>5, <1>7, <1>8, <1>9, UploadInvIs

-----------------------------------------------------------------------------
(* Sets are of the same size for a component as for these proofs. *)

\* A set is finite, and has its size, in the instances of the parts as it does here.
LEMMA SameSizes ==
  /\ \A S : Rows!IsFiniteSet(S) <=> IsFiniteSet(S)
  /\ \A S : Pick!IsFiniteSet(S) <=> IsFiniteSet(S)
  /\ \A S : Broom!IsFiniteSet(S) <=> IsFiniteSet(S)
  /\ \A S : Rows!Cardinality(S) = Cardinality(S)
  /\ \A S : Pick!Cardinality(S) = Cardinality(S)
  /\ \A S : Broom!Cardinality(S) = Cardinality(S)
BY DEF Rows!IsFiniteSet, Pick!IsFiniteSet, Broom!IsFiniteSet, IsFiniteSet,
       Rows!Cardinality, Pick!Cardinality, Broom!Cardinality, Cardinality

-----------------------------------------------------------------------------
(* The questions about ZipNN.  Of the variables the proof names the question   *)
(* c1, the epoch c2, the epochs that are settled c3, the reads in flight c4,   *)
(* the task c5, and the history of displaced questions c6.                     *)

\* A question that is asked is one.
LEMMA QuestionsAre ==
  ASSUME Ask!ConfirmAssumption,
         NEW kind \in {"compress", "decompress", "delta", "batch", "delete"}, NEW i \in Ask!Items
  PROVE  Ask!Question(kind, i) # Nothing
BY DEF Ask!ConfirmAssumption, Ask!Question, Ask!Items, Ask!Models

\* Every step of the question, its reads and its task keeps the invariant.
LEMMA ConfirmStep ==
  ASSUME Ask!ConfirmAssumption, Ask!ConfirmInv, [Ask!Next]_(Ask!confirmVars)
  PROVE  Ask!ConfirmInv'
<1>. USE DEF Ask!ConfirmInv
<1>1. ASSUME NEW i \in Ask!Items, Ask!RequestOther(i)  PROVE Ask!ConfirmInv'
  <2>1. /\ c1' = Ask!Question(Ask!Kind(i), i) /\ c1 = Nothing
        /\ UNCHANGED <<c2, c3, c4, c5, c6>> /\ i \in Delta \cup Batch
    BY <1>1 DEF Ask!RequestOther
  <2>2. Ask!Kind(i) \in {"delta", "batch"}
    BY <2>1 DEF Ask!Kind, Ask!ConfirmAssumption
  <2>3. c1' # Nothing  BY <2>1, <2>2, QuestionsAre
  <2>. QED BY <2>1, <2>2, <2>3 DEF Ask!Question
<1>2. ASSUME NEW m \in Ask!Items, Ask!ConfirmSingleZipnn(m)  PROVE Ask!ConfirmInv'
  <2>1. /\ c1' = Ask!Question(Ask!Kind(m), m) /\ m \in Plain \cup Packed /\ c2' = c2 + 1
        /\ c4' = c4 \cup {[model |-> m, epoch |-> c2'] : p \in {m} \cap Plain}
        /\ UNCHANGED c3
    BY <1>2 DEF Ask!ConfirmSingleZipnn
  <2>2. IF m \in Plain THEN Ask!Kind(m) = "compress" ELSE Ask!Kind(m) = "decompress"
    BY <2>1 DEF Ask!Kind, Ask!ConfirmAssumption
  <2>3. c1' # Nothing  BY <2>1, <2>2, QuestionsAre
  <2>4. \A i \in c4' :
          /\ i.epoch \in 1..c2'
          /\ i.epoch = c2' => m \in Plain /\ i.model = m
    BY <2>1
  <2>. QED BY <2>1, <2>2, <2>3, <2>4 DEF Ask!Question
<1>3. ASSUME NEW i \in Ask!Items, Ask!Displace(i)  PROVE Ask!ConfirmInv'
  <2>1. c1' # Nothing /\ c1' = Ask!Question("delete", i)
    BY <1>3, QuestionsAre DEF Ask!Displace
  <2>2. /\ c6' = (c6 \/ (c1 # Nothing /\ Ask!OwnEpoch # {}))
        /\ UNCHANGED <<c2, c3, c4, c5>>
    BY <1>3 DEF Ask!Displace
  <2>. QED BY <2>1, <2>2 DEF Ask!Question, Ask!OwnEpoch
<1>4. ASSUME NEW i \in c4, Ask!InspectAnswered(i)  PROVE Ask!ConfirmInv'
  <2>1. /\ c4' = c4 \ {i} /\ UNCHANGED <<c2, c3, c5, c6>>
        /\ \/ c1' = c1
           \/ c1' = [c1 EXCEPT !.listed = i.model] /\ i.model \in Extended /\ Ask!Upgrades(i)
    BY <1>4 DEF Ask!InspectAnswered
  <2>2. CASE c1' = c1
    BY <2>1, <2>2
  <2>3. CASE c1' = [c1 EXCEPT !.listed = i.model] /\ i.model \in Extended /\ Ask!Upgrades(i)
    <3>1. i.epoch = c2 /\ c2 \notin c3 /\ c1 # Nothing /\ c2 # 0
      BY <2>3 DEF Ask!Upgrades
    <3>2. /\ c1'.kind = c1.kind /\ c1'.of = c1.of
          /\ c1'.listed = i.model /\ i.model \in Plain
          /\ c1' = [kind |-> c1.kind, of |-> c1.of, listed |-> i.model]
      BY <2>3, <3>1 DEF Ask!ConfirmAssumption
    <3>3. c1' # Nothing
      BY <3>1, <3>2 DEF Ask!ConfirmAssumption, Ask!Items, Ask!Models
    <3>4. \/ c1.kind = "compress" /\ c1.of = i.model
          \/ c1.kind \notin {"compress", "decompress"} /\ c6
      BY <3>1
    <3>. QED BY <2>1, <3>1, <3>2, <3>3, <3>4
  <2>. QED BY <2>1, <2>2, <2>3
<1>5. CASE Ask!Accept \/ Ask!Reject
  <2>1. /\ c1 # Nothing /\ c1' = Nothing /\ c3' = c3 \cup Ask!OwnEpoch
        /\ UNCHANGED <<c2, c4, c6>>
    BY <1>5 DEF Ask!Accept, Ask!Reject
  <2>2. Ask!OwnEpoch \subseteq 1..c2
    BY <2>1 DEF Ask!OwnEpoch
  <2>. QED BY <2>1, <2>2 DEF Ask!OwnEpoch
<1>6. CASE Ask!TaskOver
  BY <1>6 DEF Ask!TaskOver
<1>7. CASE UNCHANGED Ask!confirmVars
  BY <1>7 DEF Ask!confirmVars
<1>. QED BY <1>1, <1>2, <1>3, <1>4, <1>5, <1>6, <1>7 DEF Ask!Next

\* At the start nothing is asked.
LEMMA ConfirmStart ==
  ASSUME Ask!Init
  PROVE  Ask!ConfirmInv
BY DEF Ask!Init, Ask!ConfirmInv

\* The invariant says what a question lists.
LEMMA ConfirmTells ==
  ASSUME Ask!ConfirmInv
  PROVE  Ask!OwnTypesListed
BY DEF Ask!ConfirmInv, Ask!OwnTypesListed

-----------------------------------------------------------------------------
(* The clean-up of the library: the library c1, what the lists show c2, the    *)
(* scans c3 and their flag c4, what is picked c5 and asked about c6, what the  *)
(* loop has still to delete c7 and where it was found c8, the changes by       *)
(* others c9, and the histories c10 and c11.                                   *)

\* A list of a set's members is a sequence of them.
LEMMA Ordered ==
  ASSUME NEW S, IsFiniteSet(S), NEW s \in Broom!Listings(S)
  PROVE  s \in Seq(S)
<1>1. Broom!Cardinality(S) \in Nat  BY SameSizes, FS_CardinalityType
<1>2. s \in [1..Broom!Cardinality(S) -> S]
  BY DEF Broom!Listings, Broom!Bijection, Broom!Injection
<1>. QED BY <1>1, <1>2

\* What a deletion of something listed takes of the models that were there has two names.
LEMMA TakesNoModel ==
  ASSUME Broom!HygieneAssumption, NEW lib,
         NEW i \in Broom!Orphans(lib) \cup Broom!EmptyFolders(lib)
  PROVE  Broom!Takes(i) \cap Broom!OfModels(lib) \subseteq Broom!Shared
<1>. SUFFICES ASSUME NEW g \in Broom!Takes(i), g \in Broom!OfModels(lib)
              PROVE  g \in Broom!Shared
  OBVIOUS
<1>0. PICK m \in lib \cap Model : g = m \/ g \in Broom!Claims(m)
  BY DEF Broom!OfModels
<1>1. g \in Files /\ m \in Files /\ g \notin Folders /\ (g # m => FolderOf[g] = FolderOf[m])
  BY <1>0 DEF Broom!Claims, Broom!OfModels, Broom!HygieneAssumption
<1>2. CASE i \in Broom!EmptyFolders(lib)
  <2>1. i \in Folders /\ lib \cap Model \cap Broom!Within(i) = {}
    BY <1>2 DEF Broom!EmptyFolders
  <2>2. FolderOf[g] = i  BY <1>1, <2>1 DEF Broom!Takes, Broom!Within
  <2>3. FolderOf[m] = i  BY <1>1, <2>2
  <2>. QED BY <1>0, <1>1, <2>1, <2>3 DEF Broom!Within
<1>3. CASE i \in Broom!Orphans(lib)
  <2>1. i \in Sidecar /\ i \notin Folders /\ i \notin Model /\ i \notin Broom!Claims(m)
    BY <1>0, <1>3 DEF Broom!Orphans, Broom!HygieneAssumption
  <2>2. g = i \/ g \in Broom!Claims(i)  BY <2>1 DEF Broom!Takes
  <2>3. g # i /\ g # m
    BY <1>0, <2>1, <2>2 DEF Broom!Claims, Broom!HygieneAssumption
  <2>4. g \in Sidecar /\ Stem[i] \in Owners[g] /\ Stem[m] \in Owners[g]
        /\ FolderOf[i] = FolderOf[m]
    BY <1>0, <2>2, <2>3 DEF Broom!Claims
  <2>5. Stem[i] # Stem[m]
    BY <2>1, <2>4 DEF Broom!Claims, Broom!HygieneAssumption
  <2>. QED BY <2>4, <2>5 DEF Broom!Shared
<1>. QED BY <1>2, <1>3

\* A sequence of one has nothing behind its head.
LEMMA HeadAndTail ==
  ASSUME NEW S, NEW s \in Seq(S), s # <<>>
  PROVE  /\ Head(s) \in Broom!Range(s) /\ Tail(s) \in Seq(S)
              /\ Broom!Range(Tail(s)) \subseteq Broom!Range(s)
         /\ Len(s) = 1 => Broom!Range(Tail(s)) = {}
<1>1. Len(s) \in Nat /\ Len(s) > 0 /\ Head(s) = s[1] /\ DOMAIN s = 1..Len(s)
  BY EmptySeq
<1>2. /\ Tail(s) \in Seq(S) /\ DOMAIN Tail(s) = 1..Len(s) - 1
      /\ \A j \in 1..Len(s) - 1 : Tail(s)[j] = s[j + 1]
  BY <1>1
<1>3. \A j \in 1..Len(s) - 1 : j + 1 \in 1..Len(s)
  BY <1>1
<1>. QED BY <1>1, <1>2, <1>3 DEF Broom!Range

\* One request of the loop.
LEMMA DeleteKeeps ==
  ASSUME Broom!HygieneAssumption, Broom!HygieneInv, c7 # <<>>, NEW lost, Broom!Goes(lost),
         lost \subseteq Broom!Takes(Head(c7))
  PROVE  Broom!HygieneInv'
<1>1. /\ Head(c7) \in Broom!Orphans(c8) \cup Broom!EmptyFolders(c8)
      /\ c7' \in Seq(Files \cup Folders) /\ Broom!Range(c7') \subseteq Broom!Range(c7)
      /\ Len(c7) = 1 => Broom!Range(c7') = {}
  BY HeadAndTail DEF Broom!HygieneInv, Broom!TypeOK, Broom!Goes
<1>2. c11' \subseteq Broom!Shared
  <2>1. lost \cap Broom!OfModels(c8) \subseteq Broom!Shared
    BY <1>1, TakesNoModel
  <2>. QED BY <2>1 DEF Broom!Goes, Broom!HygieneInv
<1>3. UNCHANGED <<c2, c6, c9>> /\ c1' = c1 \ lost /\ c10' = (c10 \/ lost # {})
  BY DEF Broom!Goes
<1>4. \/ UNCHANGED <<c3, c5, c4, c8>>
      \/ /\ c3' = Append(c3, Broom!Sent) /\ c5' = {} /\ c4' = TRUE
         /\ c8' = {} /\ Broom!Range(c7') = {}
  BY <1>1 DEF Broom!Goes
<1>5. /\ c3' \in Seq([at : {"sent", "answer"}, found : Broom!Libraries])
      /\ c3 # <<>> => c3' # <<>>
  <2>1. Broom!Sent \in [at : {"sent", "answer"}, found : Broom!Libraries]
    BY DEF Broom!Sent, Broom!Libraries
  <2>2. c3 \in Seq([at : {"sent", "answer"}, found : Broom!Libraries])
    BY DEF Broom!HygieneInv, Broom!TypeOK
  <2>3. Append(c3, Broom!Sent) \in Seq([at : {"sent", "answer"}, found : Broom!Libraries])
        /\ Append(c3, Broom!Sent) # <<>>
    BY <2>1, <2>2, AppendProperties
  <2>. QED BY <1>4, <2>2, <2>3
<1>6. Broom!TypeOK'
  <2>1. Broom!Shared \subseteq Files  BY DEF Broom!Shared, Broom!HygieneAssumption
  <2>. QED BY <1>1, <1>2, <1>3, <1>4, <1>5, <2>1
         DEF Broom!HygieneInv, Broom!TypeOK, Broom!Libraries
<1>. QED BY <1>1, <1>2, <1>3, <1>4, <1>5, <1>6 DEF Broom!HygieneInv

\* An answer that is shown, or that fails, leaves the queue of scans.
LEMMA ScansLeft ==
  ASSUME NEW S, NEW s \in Seq(S), NEW k \in DOMAIN s
  PROVE  SubSeq(s, 1, k - 1) \o SubSeq(s, k + 1, Len(s)) \in Seq(S)
<1>1. Len(s) \in Nat /\ k \in 1..Len(s)  OBVIOUS
<1>2. SubSeq(s, 1, k - 1) \in Seq(S) /\ SubSeq(s, k + 1, Len(s)) \in Seq(S)
  BY <1>1
<1>. QED BY <1>2

LEMMA HygieneStep ==
  ASSUME Broom!HygieneAssumption, Broom!HygieneInv, [Broom!Next]_(Broom!hygieneVars)
  PROVE  Broom!HygieneInv'
<1>1. CASE Broom!Scan
  <2>1. c3' \in Seq([at : {"sent", "answer"}, found : Broom!Libraries]) /\ c3' # <<>>
    BY <1>1 DEF Broom!Scan, Broom!HygieneInv, Broom!TypeOK, Broom!Sent, Broom!Libraries
  <2>. QED BY <1>1, <2>1 DEF Broom!Scan, Broom!HygieneInv, Broom!TypeOK
<1>2. CASE \E i \in Files \cup Folders : Broom!Toggle(i)
  <2>1. PICK i \in Files \cup Folders : Broom!Toggle(i)  BY <1>2
  <2>2. c5' \in Broom!Libraries
    BY <2>1 DEF Broom!Toggle, Broom!HygieneInv, Broom!TypeOK, Broom!Libraries
  <2>. QED BY <2>1, <2>2 DEF Broom!Toggle, Broom!HygieneInv, Broom!TypeOK
<1>3. CASE Broom!DeleteSelected
  <2>1. c6' = [what |-> c5 \cap Broom!Listed, found |-> c2]
          /\ c5 \cap Broom!Listed \in Broom!Libraries
    BY <1>3 DEF Broom!DeleteSelected, Broom!HygieneInv, Broom!TypeOK, Broom!Libraries
  <2>. QED BY <1>3, <2>1 DEF Broom!DeleteSelected, Broom!HygieneInv, Broom!TypeOK, Broom!Listed
<1>4. CASE Broom!Reject
  BY <1>4 DEF Broom!Reject, Broom!HygieneInv, Broom!TypeOK, Broom!NoAsk, Broom!Libraries
<1>5. CASE Broom!Accept
  <2>0. PICK s \in Broom!Listings(c6.what \cap Files), t \in Broom!Listings(c6.what \cap Folders) :
          c7' = s \o t
    BY <1>5 DEF Broom!Accept
  <2>1. IsFiniteSet(c6.what \cap Files) /\ IsFiniteSet(c6.what \cap Folders)
    BY SameSizes, FS_Subset DEF Broom!HygieneAssumption
  <2>2. s \in Seq(c6.what) /\ t \in Seq(c6.what)
    <3>1. s \in Seq(c6.what \cap Files)  BY <2>1, Ordered
    <3>2. t \in Seq(c6.what \cap Folders)  BY <2>1, Ordered
    <3>. QED BY <3>1, <3>2
  <2>3. s \o t \in Seq(c6.what)
    BY <2>2
  <2>4. c7' = s \o t /\ c8' = c6.found /\ c6' = Broom!NoAsk /\ c6 # Broom!NoAsk
        /\ UNCHANGED <<c1, c2, c3, c4, c5, c9, c10, c11>>
    BY <1>5, <2>0 DEF Broom!Accept
  <2>5. Broom!Range(c7') \subseteq c6.what
    BY <2>3, <2>4 DEF Broom!Range
  <2>6. c6.what \subseteq Files \cup Folders /\ c6.found \in Broom!Libraries
    BY DEF Broom!HygieneInv, Broom!TypeOK, Broom!Libraries
  <2>7. c7' \in Seq(Files \cup Folders)
    BY <2>3, <2>4, <2>6
  <2>. QED BY <2>4, <2>5, <2>6, <2>7 DEF Broom!HygieneInv, Broom!TypeOK, Broom!NoAsk,
       Broom!Libraries
<1>6. CASE Broom!Delete
  <2>1. PICK lost : Broom!Goes(lost) /\ lost \subseteq Broom!Takes(Head(c7)) /\ c7 # <<>>
    BY <1>6 DEF Broom!Delete
  <2>. QED BY <2>1, DeleteKeeps
<1>7. CASE Broom!ChangeElsewhere
  <2>1. c1' \in Broom!Libraries
    BY <1>7 DEF Broom!ChangeElsewhere, Broom!HygieneInv, Broom!TypeOK, Broom!Libraries,
         Broom!HygieneAssumption
  <2>2. c9' \in 0..MaxChanges
    BY <1>7 DEF Broom!ChangeElsewhere, Broom!HygieneInv, Broom!TypeOK, Broom!HygieneAssumption
  <2>. QED BY <1>7, <2>1, <2>2 DEF Broom!ChangeElsewhere, Broom!HygieneInv, Broom!TypeOK
<1>8. ASSUME NEW k \in DOMAIN c3, Broom!ScanReads(k)  PROVE Broom!HygieneInv'
  <2>1. /\ c3' = [c3 EXCEPT ![k] = [at |-> "answer", found |-> c1]]
        /\ c3 \in Seq([at : {"sent", "answer"}, found : Broom!Libraries]) /\ c1 \in Broom!Libraries
    BY <1>8 DEF Broom!ScanReads, Broom!HygieneInv, Broom!TypeOK
  <2>2. c3' \in Seq([at : {"sent", "answer"}, found : Broom!Libraries]) /\ c3' # <<>>
    BY <2>1
  <2>. QED BY <1>8, <2>2 DEF Broom!ScanReads, Broom!HygieneInv, Broom!TypeOK
<1>9. ASSUME NEW k \in DOMAIN c3, Broom!ScanAnswered(k)  PROVE Broom!HygieneInv'
  <2>0. c3 \in Seq([at : {"sent", "answer"}, found : Broom!Libraries])
    BY DEF Broom!HygieneInv, Broom!TypeOK
  <2>1. c3[k].found \in Broom!Libraries
    <3>1. k \in 1..Len(c3)  BY <2>0
    <3>2. c3[k] \in [at : {"sent", "answer"}, found : Broom!Libraries]  BY <2>0, <3>1, ElementOfSeq
    <3>. QED BY <3>2
  <2>2. c3' \in Seq([at : {"sent", "answer"}, found : Broom!Libraries])
    BY <1>9, <2>0, ScansLeft DEF Broom!ScanAnswered, Broom!AllBut
  <2>. QED BY <1>9, <2>1, <2>2 DEF Broom!ScanAnswered, Broom!HygieneInv, Broom!TypeOK
<1>10. ASSUME NEW k \in DOMAIN c3, Broom!ScanFails(k)  PROVE Broom!HygieneInv'
  <2>1. c3' \in Seq([at : {"sent", "answer"}, found : Broom!Libraries])
    BY <1>10, ScansLeft DEF Broom!ScanFails, Broom!AllBut, Broom!HygieneInv, Broom!TypeOK
  <2>. QED BY <1>10, <2>1 DEF Broom!ScanFails, Broom!HygieneInv, Broom!TypeOK
<1>11. CASE UNCHANGED Broom!hygieneVars
  BY <1>11 DEF Broom!hygieneVars, Broom!HygieneInv, Broom!TypeOK
<1>. QED BY <1>1, <1>2, <1>3, <1>4, <1>5, <1>6, <1>7, <1>8, <1>9, <1>10, <1>11 DEF Broom!Next

LEMMA HygieneStart ==
  ASSUME Broom!HygieneAssumption, Broom!Init
  PROVE  Broom!HygieneInv
<1>1. Broom!TypeOK
  <2>1. c3 \in Seq([at : {"sent", "answer"}, found : Broom!Libraries])
    <3>1. Broom!Sent \in [at : {"sent", "answer"}, found : Broom!Libraries]
      BY DEF Broom!Sent, Broom!Libraries
    <3>. QED BY <3>1 DEF Broom!Init
  <2>2. c6 \in [what : Broom!Libraries, found : Broom!Libraries]
    BY DEF Broom!Init, Broom!NoAsk, Broom!Libraries
  <2>3. {c1, c2, c5, c8} \subseteq Broom!Libraries /\ c11 \subseteq Files
    BY DEF Broom!Init, Broom!Libraries
  <2>4. c7 \in Seq(Files \cup Folders) /\ c4 \in BOOLEAN /\ c10 \in BOOLEAN
    BY EmptySeq DEF Broom!Init
  <2>5. c9 = 0 /\ MaxChanges \in Nat
    BY DEF Broom!Init, Broom!HygieneAssumption
  <2>. QED BY <2>1, <2>2, <2>3, <2>4, <2>5 DEF Broom!TypeOK
<1>2. Broom!Range(c7) = {}
  BY DEF Broom!Init, Broom!Range
<1>. QED BY <1>1, <1>2 DEF Broom!HygieneInv, Broom!Init, Broom!NoAsk, Broom!Sent

LEMMA HygieneTells == Broom!HygieneInv => Broom!HygieneSafe
BY DEF Broom!HygieneInv, Broom!HygieneSafe, Broom!Listed

-----------------------------------------------------------------------------
(* Choosing and deleting models: the files c1, what is listed c2, the mode c3, *)
(* what is selected c4, the question c5, the loops c6, the requests c7, what   *)
(* was agreed to c8, and the history of overlapping loops c9.                  *)

\* What a confirmation asks is not "nothing".
LEMMA AsksAre ==
  ASSUME Pick!SelectionAssumption, NEW o \in Pick!Ask
  PROVE  o # Nothing
BY DEF Pick!SelectionAssumption, Pick!Ask, Pick!Caller

\* What is not "nothing" is of one of the two kinds.
LEMMA KindsOfAsk ==
  ASSUME NEW o \in Pick!Ask
  PROVE  /\ o.kind \in {"bulk", "one"}
         /\ o.kind = "bulk" => o.nodes \subseteq Node
         /\ o.kind = "one" => o.node \in Node /\ o.by \in Pick!Caller
BY DEF Pick!Ask

\* A loop goes on, with its next node or to its end, and keeps what the invariant says.
LEMMA LoopKeeps ==
  ASSUME Pick!SelectionAssumption, Pick!SelectionInv, NEW l \in Loop, NEW nodes \in Seq(Node),
           NEW o,
         Pick!LoopOn(l, nodes, c7, o), o \in {c5, Nothing},
         ~c9' /\ o = c5 => c5 = Nothing \/ c5.kind # "one" \/ c5.by # l,
         c9' \in BOOLEAN, ~c9' => ~c9,
         ~c9' => \A k \in Loop \ {l} : c7[k].at = "rest",
         c2' \subseteq Node, UNCHANGED <<c1, c3, c8>>
  PROVE  Pick!SelectionInv'
<1>. DEFINE s == c7[l]
<1>1. /\ c7 \in [Pick!Caller -> Pick!Step] /\ l \in Pick!Caller /\ c6 \in [Loop -> Seq(Node)]
  BY DEF Pick!SelectionInv, Pick!TypeOK, Pick!Caller
<1>2. CASE nodes = <<>>
  <2>1. /\ c5' = o /\ c4' = {} /\ c6' = [c6 EXCEPT ![l] = <<>>]
        /\ c7' = [c7 EXCEPT ![l] = Pick!Rest]
    BY <1>2 DEF Pick!LoopOn
  <2>2. Pick!Rest \in Pick!Step  BY DEF Pick!Rest, Pick!Step
  <2>3. Pick!TypeOK'
    BY <1>1, <2>1, <2>2, EmptySeq DEF Pick!SelectionInv, Pick!TypeOK
  <2>4. c7'[l].at = "rest" /\ \A c \in Pick!Caller \ {l} : c7'[c] = c7[c]
    BY <1>1, <2>1 DEF Pick!Rest
  <2>5. \A c \in Pick!Caller : c7'[c].at = "sent" => c7'[c].node \in c8'
    BY <2>4 DEF Pick!SelectionInv, Pick!Caller
  <2>6. Pick!OnlyAgreed'  BY DEF Pick!SelectionInv, Pick!OnlyAgreed
  <2>7. ~c9' => \A k \in Loop : c7'[k].at = "rest"
    BY <2>4 DEF Pick!Caller
  <2>8. Pick!LoopGoesOn'  BY <2>7 DEF Pick!LoopGoesOn
  <2>9. ~c9' /\ c5' # Nothing /\ c5'.kind = "one" /\ c5'.by \in Loop =>
          c7'[c5'.by].at = "asked"
    BY <1>1, <2>1, <2>4 DEF Pick!SelectionInv, Pick!Caller
  <2>. QED BY <2>3, <2>5, <2>6, <2>7, <2>8, <2>9 DEF Pick!SelectionInv
<1>3. CASE nodes # <<>>
  <2>. DEFINE q == [kind |-> "one", node |-> Head(nodes), by |-> l]
              t == [at |-> "asked", node |-> Head(nodes)]
  <2>1. /\ c5' = q /\ c4' = c4 /\ c6' = [c6 EXCEPT ![l] = Tail(nodes)]
        /\ c7' = [c7 EXCEPT ![l] = t]
    BY <1>3 DEF Pick!LoopOn, Pick!Require
  <2>2. Head(nodes) \in Node /\ Tail(nodes) \in Seq(Node)
    BY <1>3
  <2>3. q \in Pick!Ask /\ t \in Pick!Step
    BY <1>1, <2>2 DEF Pick!Ask, Pick!Step
  <2>4. q # Nothing  BY <2>3, AsksAre
  <2>5. Pick!TypeOK'
    BY <1>1, <2>1, <2>2, <2>3 DEF Pick!SelectionInv, Pick!TypeOK
  <2>6. c7'[l].at = "asked" /\ \A c \in Pick!Caller \ {l} : c7'[c] = c7[c]
    BY <1>1, <2>1
  <2>7. c5'.kind = "one" /\ c5'.by = l /\ c5' # Nothing
    BY <2>1, <2>4
  <2>8. \A c \in Pick!Caller : c7'[c].at = "sent" => c7'[c].node \in c8'
    BY <2>6 DEF Pick!SelectionInv, Pick!Caller
  <2>9. Pick!OnlyAgreed'  BY DEF Pick!SelectionInv, Pick!OnlyAgreed
  <2>10. ~c9' => \A k \in Loop : c7'[k].at # "rest" => k = l
    BY <2>6 DEF Pick!SelectionInv, Pick!Caller
  <2>11. Pick!LoopGoesOn'  BY <2>7, <2>10 DEF Pick!LoopGoesOn
  <2>. QED BY <2>5, <2>6, <2>7, <2>8, <2>9, <2>10, <2>11 DEF Pick!SelectionInv
<1>. QED BY <1>2, <1>3

\* The remove of a card ends.
LEMMA CardRests ==
  ASSUME Pick!SelectionAssumption, Pick!SelectionInv,
         c7' = [c7 EXCEPT !["card"] = Pick!Rest],
         \/ c5' = c5
         \/ c5' = Nothing /\ c5 # Nothing /\ c5.kind = "one" /\ c5.by = "card",
         c2' \subseteq Node, UNCHANGED <<c1, c3, c8, c9, c6, c4>>
  PROVE  Pick!SelectionInv'
<1>1. /\ c7 \in [Pick!Caller -> Pick!Step] /\ "card" \in Pick!Caller /\ "card" \notin Loop
  BY DEF Pick!SelectionInv, Pick!TypeOK, Pick!Caller, Pick!SelectionAssumption
<1>2. Pick!Rest \in Pick!Step  BY DEF Pick!Rest, Pick!Step
<1>3. Pick!TypeOK'
  BY <1>1, <1>2 DEF Pick!SelectionInv, Pick!TypeOK
<1>4. c7'["card"].at = "rest" /\ \A c \in Loop : c7'[c] = c7[c]
  BY <1>1 DEF Pick!Rest, Pick!Caller
<1>5. \A c \in Pick!Caller : c7'[c].at = "sent" => c7'[c].node \in c8'
  BY <1>4 DEF Pick!SelectionInv, Pick!Caller
<1>6. Pick!OnlyAgreed'  BY DEF Pick!SelectionInv, Pick!OnlyAgreed
<1>7. Pick!LoopGoesOn'  BY <1>1, <1>4 DEF Pick!SelectionInv, Pick!LoopGoesOn
<1>8. ~c9' => \A k, l \in Loop : c7'[k].at # "rest" /\ c7'[l].at # "rest" => k = l
  BY <1>4 DEF Pick!SelectionInv
<1>9. ~c9' /\ c5' # Nothing /\ c5'.kind = "one" /\ c5'.by \in Loop =>
        c7'[c5'.by].at = "asked"
  BY <1>4 DEF Pick!SelectionInv
<1>. QED BY <1>3, <1>5, <1>6, <1>7, <1>8, <1>9 DEF Pick!SelectionInv

\* Selecting touches no deletion.
LEMMA SelectsOnly ==
  ASSUME Pick!SelectionInv, UNCHANGED <<c1, Pick!asking>>, c2' \subseteq Node, c3' \in BOOLEAN,
         c4' \subseteq Node
  PROVE  Pick!SelectionInv'
BY DEF Pick!SelectionInv, Pick!TypeOK, Pick!OnlyAgreed, Pick!LoopGoesOn, Pick!asking

\* Every step of the selection, the confirmation and the deletions keeps the invariant.
LEMMA SelectionStep ==
  ASSUME Pick!SelectionAssumption, Pick!SelectionInv, [Pick!Next]_(Pick!selectionVars)
  PROVE  Pick!SelectionInv'
<1>0. /\ c7 \in [Pick!Caller -> Pick!Step] /\ c6 \in [Loop -> Seq(Node)]
      /\ "card" \in Pick!Caller /\ "card" \notin Loop /\ Loop \subseteq Pick!Caller
      /\ c5 # Nothing => c5 \in Pick!Ask
      /\ c1 \subseteq Node /\ c2 \subseteq Node /\ c4 \subseteq Node
  BY DEF Pick!SelectionInv, Pick!TypeOK, Pick!Caller, Pick!SelectionAssumption
<1>1. CASE Pick!Enter \/ Pick!Exit \/ Pick!Clear \/ Pick!Rescan
  <2>1. UNCHANGED <<c1, Pick!asking>> /\ c2' \subseteq Node /\ c3' \in BOOLEAN /\ c4' \subseteq Node
    BY <1>0, <1>1 DEF Pick!Enter, Pick!Exit, Pick!Clear, Pick!Rescan, Pick!SelectionInv, Pick!TypeOK
  <2>. QED BY <2>1, SelectsOnly
<1>2. ASSUME NEW n \in Node, Pick!Toggle(n)  PROVE Pick!SelectionInv'
  <2>1. UNCHANGED <<c1, Pick!asking>> /\ c2' \subseteq Node /\ c3' \in BOOLEAN /\ c4' \subseteq Node
    BY <1>0, <1>2 DEF Pick!Toggle, Pick!SelectionInv, Pick!TypeOK
  <2>. QED BY <2>1, SelectsOnly
<1>3. CASE Pick!AskBulk
  <2>1. /\ c5 = Nothing /\ c5' = [kind |-> "bulk", nodes |-> c4 \cap c2]
        /\ UNCHANGED <<c1, c2, c3, c4, c6, c7, c8, c9>>
    BY <1>3 DEF Pick!AskBulk, Pick!Free, Pick!Require, Pick!SelectedNodes
  <2>2. c5' \in Pick!Ask /\ c5'.kind = "bulk"
    BY <1>0, <2>1 DEF Pick!Ask
  <2>3. Pick!TypeOK'  BY <2>1, <2>2 DEF Pick!SelectionInv, Pick!TypeOK
  <2>. QED BY <2>1, <2>2, <2>3 DEF Pick!SelectionInv, Pick!OnlyAgreed, Pick!LoopGoesOn
<1>4. ASSUME NEW n \in Node, Pick!AskOne(n)  PROVE Pick!SelectionInv'
  <2>1. /\ c5 = Nothing /\ c5' = [kind |-> "one", node |-> n, by |-> "card"]
        /\ c7' = [c7 EXCEPT !["card"] = [at |-> "asked", node |-> n]]
        /\ UNCHANGED <<c1, c2, c3, c4, c6, c8, c9>>
    BY <1>4 DEF Pick!AskOne, Pick!Free, Pick!Require
  <2>2. c5' \in Pick!Ask /\ c5'.kind = "one" /\ c5'.by = "card"
    BY <1>0, <2>1 DEF Pick!Ask
  <2>3. [at |-> "asked", node |-> n] \in Pick!Step  BY DEF Pick!Step
  <2>4. Pick!TypeOK'  BY <1>0, <2>1, <2>2, <2>3 DEF Pick!SelectionInv, Pick!TypeOK
  <2>5. c7'["card"].at = "asked" /\ \A c \in Loop : c7'[c] = c7[c]
    BY <1>0, <2>1
  <2>. QED BY <1>0, <2>1, <2>2, <2>4, <2>5 DEF Pick!SelectionInv, Pick!OnlyAgreed,
       Pick!LoopGoesOn, Pick!Caller
<1>5. ASSUME NEW l \in Loop, Pick!AcceptBulk(l)  PROVE Pick!SelectionInv'
  <2>1. /\ c5 \in Pick!Ask /\ c5.kind = "bulk" /\ c7[l] = Pick!Rest
        /\ c9' = (c9 \/ \E k \in Loop : c7[k] # Pick!Rest)
        /\ UNCHANGED <<c1, c2, c3, c8>>
    BY <1>5 DEF Pick!AcceptBulk
  <2>2. PICK nodes \in Pick!Bijection(1..Pick!Cardinality(c5.nodes), c5.nodes) :
                Pick!LoopOn(l, nodes, c7, Nothing)
    BY <1>5 DEF Pick!AcceptBulk
  <2>3. nodes \in Seq(Node)
    <3>1. Pick!IsFiniteSet(c5.nodes) /\ c5.nodes \subseteq Node
      BY <2>1, KindsOfAsk, SameSizes, FS_Subset DEF Pick!SelectionAssumption
    <3>2. Pick!Cardinality(c5.nodes) \in Nat  BY <3>1, SameSizes, FS_CardinalityType
    <3>3. nodes \in [1..Pick!Cardinality(c5.nodes) -> c5.nodes]
      BY <2>2 DEF Pick!Bijection, Pick!Injection
    <3>. QED BY <3>1, <3>2, <3>3
  <2>4. ~c9' => ~c9 /\ \A k \in Loop \ {l} : c7[k].at = "rest"
    <3>1. Pick!Rest.at = "rest"  BY DEF Pick!Rest
    <3>. QED BY <2>1, <3>1
  <2>5. c9' \in BOOLEAN  BY <2>1
  <2>. QED BY <1>0, <2>1, <2>2, <2>3, <2>4, <2>5, LoopKeeps
<1>6. CASE Pick!AcceptOne
  <2>. DEFINE c == c5.by
  <2>1. /\ c5 # Nothing /\ c5.kind = "one" /\ c5' = Nothing
        /\ c7' = [c7 EXCEPT ![c] = [at |-> "sent", node |-> c5.node]]
        /\ c8' = c8 \cup {c5.node}
        /\ UNCHANGED <<c1, c2, c3, c4, c6, c9>>
    BY <1>6, AsksAre DEF Pick!AcceptOne
  <2>2. c \in Pick!Caller /\ c5.node \in Node
    BY <1>0, <2>1, KindsOfAsk
  <2>3. [at |-> "sent", node |-> c5.node] \in Pick!Step  BY <2>2 DEF Pick!Step
  <2>4. Pick!TypeOK'  BY <1>0, <2>1, <2>2, <2>3 DEF Pick!SelectionInv, Pick!TypeOK
  <2>5. c7'[c].at = "sent" /\ c7'[c].node \in c8' /\ \A k \in Pick!Caller \ {c} : c7'[k] = c7[k]
    BY <1>0, <2>1, <2>2
  <2>6. Pick!OnlyAgreed'  BY <2>1 DEF Pick!SelectionInv, Pick!OnlyAgreed
  <2>7. ~c9' => \A l \in Loop : c7'[l].at # "asked"
    BY <1>0, <2>1, <2>5 DEF Pick!SelectionInv, Pick!LoopGoesOn
  <2>8. ~c9' => \A k, l \in Loop : c7'[k].at # "rest" /\ c7'[l].at # "rest" => k = l
    <3>1. ~c9' => \A k \in Loop : c7'[k].at # "rest" => c7[k].at # "rest"
      BY <2>1, <2>5, <1>0 DEF Pick!SelectionInv
    <3>. QED BY <2>1, <3>1 DEF Pick!SelectionInv
  <2>9. \A k \in Pick!Caller : c7'[k].at = "sent" => c7'[k].node \in c8'
    BY <2>1, <2>5 DEF Pick!SelectionInv
  <2>. QED BY <2>1, <2>4, <2>6, <2>7, <2>8, <2>9 DEF Pick!SelectionInv, Pick!LoopGoesOn
<1>7. CASE Pick!Reject
  <2>1. c5 \in Pick!Ask /\ c5 # Nothing /\ UNCHANGED <<c1, c2, c3, c8, c9>>
    BY <1>0, <1>7 DEF Pick!Reject
  <2>2. CASE c5.kind = "bulk"
    <3>1. c5' = Nothing /\ UNCHANGED <<c4, c6, c7>>
      BY <1>7, <2>2 DEF Pick!Reject
    <3>2. Pick!TypeOK'  BY <2>1, <3>1 DEF Pick!SelectionInv, Pick!TypeOK
    <3>. QED BY <2>1, <2>2, <3>1, <3>2 DEF Pick!SelectionInv, Pick!OnlyAgreed, Pick!LoopGoesOn
  <2>3. CASE c5.kind = "one" /\ c5.by \in Loop
    <3>1. Pick!LoopOn(c5.by, c6[c5.by], c7, Nothing)
      BY <1>7, <2>3 DEF Pick!Reject, Pick!Resolved
    <3>2. ~c9 => \A k \in Loop \ {c5.by} : c7[k].at = "rest"
      BY <1>0, <2>1, <2>3 DEF Pick!SelectionInv
    <3>3. c6[c5.by] \in Seq(Node) /\ c9 \in BOOLEAN
      BY <1>0, <2>3 DEF Pick!SelectionInv, Pick!TypeOK
    <3>. QED BY <1>0, <2>1, <2>3, <3>1, <3>2, <3>3, LoopKeeps
  <2>4. CASE c5.kind = "one" /\ c5.by \notin Loop
    <3>1. c5.by = "card"  BY <2>1, <2>4, KindsOfAsk DEF Pick!Caller
    <3>2. /\ c7' = [c7 EXCEPT !["card"] = Pick!Rest] /\ c5' = Nothing
          /\ UNCHANGED <<c6, c4>>
      BY <1>0, <1>7, <2>4, <3>1 DEF Pick!Reject, Pick!Resolved
    <3>. QED BY <1>0, <2>1, <2>4, <3>1, <3>2, CardRests
  <2>. QED BY <2>1, <2>2, <2>3, <2>4, KindsOfAsk
<1>8. ASSUME NEW c \in Pick!Caller, Pick!Deleted(c)  PROVE Pick!SelectionInv'
  <2>1. /\ c7[c].at = "sent" /\ c1' = c1 \ Pick!Within[c7[c].node]
        /\ UNCHANGED <<c2, c3, c4, c5, c6, c8, c9>>
    BY <1>8 DEF Pick!Deleted
  <2>2. PICK at \in {"done", "failed"} : c7' = [c7 EXCEPT ![c].at = at]
    BY <1>8 DEF Pick!Deleted
  <2>3. c7[c].node \in c8  BY <2>1 DEF Pick!SelectionInv
  <2>4. Pick!OnlyAgreed'  BY <2>1, <2>3 DEF Pick!SelectionInv, Pick!OnlyAgreed
  <2>5. c7[c] \in Pick!Step  BY <1>0
  <2>6. [c7[c] EXCEPT !.at = at] \in Pick!Step  BY <2>5 DEF Pick!Step
  <2>7. c7' \in [Pick!Caller -> Pick!Step]  BY <1>0, <2>2, <2>6
  <2>8. Pick!TypeOK'  BY <2>1, <2>7 DEF Pick!SelectionInv, Pick!TypeOK
  <2>9. c7'[c].at = at /\ \A k \in Pick!Caller \ {c} : c7'[k] = c7[k]
    BY <1>0, <2>2, <2>5 DEF Pick!Step
  <2>10. ~c9' => \A k \in Loop : c7'[k].at # "rest" => c7[k].at # "rest"
    BY <1>0, <2>1, <2>9
  <2>11. \A k \in Loop : c7'[k].at = "asked" <=> c7[k].at = "asked"
    BY <1>0, <2>1, <2>9
  <2>12. \A k \in Pick!Caller : c7'[k].at = "sent" => c7'[k].node \in c8'
    BY <2>1, <2>9 DEF Pick!SelectionInv
  <2>13. Pick!LoopGoesOn'  BY <2>1, <2>11 DEF Pick!SelectionInv, Pick!LoopGoesOn
  <2>. QED BY <2>1, <2>4, <2>8, <2>10, <2>11, <2>12, <2>13 DEF Pick!SelectionInv
<1>9. ASSUME NEW c \in Pick!Caller, Pick!Answered(c)  PROVE Pick!SelectionInv'
  <2>1. /\ c7[c].at \in {"done", "failed"} /\ UNCHANGED <<c1, c3, c8, c9>>
        /\ c2' \subseteq Node /\ Pick!Resolved(c, c5)
    BY <1>0, <1>9 DEF Pick!Answered
  <2>2. CASE c \in Loop
    <3>1. Pick!LoopOn(c, c6[c], c7, c5)  BY <2>1, <2>2 DEF Pick!Resolved
    <3>2. ~c9 => \A k \in Loop \ {c} : c7[k].at = "rest"
      BY <2>1, <2>2 DEF Pick!SelectionInv
    <3>3. c6[c] \in Seq(Node) /\ c9 \in BOOLEAN
      BY <1>0, <2>2 DEF Pick!SelectionInv, Pick!TypeOK
    <3>4. ~c9 => c5 = Nothing \/ c5.kind # "one" \/ c5.by # c
      BY <2>1, <2>2 DEF Pick!SelectionInv
    <3>. QED BY <1>0, <2>1, <2>2, <3>1, <3>2, <3>3, <3>4, LoopKeeps
  <2>3. CASE c \notin Loop
    <3>1. c = "card"  BY <2>3 DEF Pick!Caller
    <3>2. c7' = [c7 EXCEPT !["card"] = Pick!Rest] /\ c5' = c5 /\ UNCHANGED <<c6, c4>>
      BY <2>1, <2>3, <3>1 DEF Pick!Resolved
    <3>. QED BY <2>1, <3>1, <3>2, CardRests
  <2>. QED BY <2>2, <2>3
<1>10. CASE UNCHANGED Pick!selectionVars
  BY <1>0, <1>10, SelectsOnly DEF Pick!selectionVars, Pick!SelectionInv, Pick!TypeOK
<1>. QED BY <1>1, <1>2, <1>3, <1>4, <1>5, <1>6, <1>7, <1>8, <1>9, <1>10 DEF Pick!Next

LEMMA SelectionStart ==
  ASSUME Pick!SelectionAssumption, Pick!Init
  PROVE  Pick!SelectionInv
<1>1. Pick!Rest \in Pick!Step /\ Pick!Rest.at = "rest"  BY DEF Pick!Rest, Pick!Step
<1>2. c6 \in [Loop -> Seq(Node)]  BY EmptySeq DEF Pick!Init
<1>3. Pick!TypeOK  BY <1>1, <1>2 DEF Pick!Init, Pick!TypeOK
<1>. QED BY <1>1, <1>3 DEF Pick!Init, Pick!SelectionInv, Pick!OnlyAgreed, Pick!LoopGoesOn,
     Pick!Caller

-----------------------------------------------------------------------------
(* The bar of the selection: what is listed c1, what is ticked c2, the         *)
(* question c3, the delta window c4, and what the last step has started c5.    *)

\* What is ticked is never of both kinds of folder.
OneKind(t) == Batches!OfKind(t, "folder") = {} \/ Batches!OfKind(t, "znn-folder") = {}

LEMMA ToggledKeeps ==
  ASSUME NEW t, OneKind(t), NEW n, NEW kind
  PROVE  OneKind(Batches!Toggled(t, n, kind))
<1>1. CASE n \in DOMAIN t
  BY <1>1 DEF Batches!Toggled, OneKind, Batches!OfKind, Batches!Restrict
<1>2. CASE n \notin DOMAIN t /\ kind = "znn-folder" /\ Batches!OfKind(t, "folder") # {}
  BY <1>2 DEF Batches!Toggled
<1>3. CASE n \notin DOMAIN t /\ ~(kind = "znn-folder" /\ Batches!OfKind(t, "folder") # {})
  <2>. DEFINE out == IF kind = "folder" THEN Batches!OfKind(t, "znn-folder") ELSE {}
              u == Batches!Toggled(t, n, kind)
  <2>1. u = Batches!With(Batches!Restrict(t, DOMAIN t \ out), n, kind)
    BY <1>3 DEF Batches!Toggled
  <2>2. /\ DOMAIN u = (DOMAIN t \ out) \cup {n} /\ u[n] = kind
        /\ \A m \in DOMAIN t \ out : u[m] = t[m]
    BY <1>3, <2>1 DEF Batches!With, Batches!Restrict
  <2>. HIDE DEF u
  <2>3. CASE kind = "folder"
    <3>1. Batches!OfKind(u, "znn-folder") = {}
      BY <2>2, <2>3 DEF Batches!OfKind
    <3>. QED BY <3>1 DEF OneKind, u
  <2>4. CASE kind = "znn-folder"
    <3>1. Batches!OfKind(u, "folder") = {}
      BY <1>3, <2>2, <2>4 DEF Batches!OfKind
    <3>. QED BY <3>1 DEF OneKind, u
  <2>5. CASE kind \notin {"folder", "znn-folder"}
    <3>1. Batches!OfKind(u, "folder") \subseteq Batches!OfKind(t, "folder")
      BY <2>2, <2>5 DEF Batches!OfKind
    <3>2. Batches!OfKind(u, "znn-folder") \subseteq Batches!OfKind(t, "znn-folder")
      BY <2>2, <2>5 DEF Batches!OfKind
    <3>. QED BY <3>1, <3>2 DEF OneKind, u
  <2>. QED BY <2>3, <2>4, <2>5
<1>. QED BY <1>1, <1>2, <1>3

\* A question about folders of one kind says what it will do.
LEMMA SaysItsModes ==
  ASSUME NEW folders, folders # {}, NEW fresh,
         \/ \A f \in folders : Batches!Direction(f, c1) = "decompress"
         \/ \A f \in folders : Batches!Direction(f, c1) # "decompress"
  PROVE  Batches!AsSaid([modes |-> [f \in folders |-> Batches!ModeFor(f, c1)],
           says |-> Batches!Says(folders, c1),
                 fresh |-> fresh])
<1>. DEFINE modes == {Batches!ModeFor(f, c1) : f \in folders}
            q == [modes |-> [f \in folders |-> Batches!ModeFor(f, c1)],
              says |-> Batches!Says(folders, c1),
                  fresh |-> fresh]
<1>1. Batches!Range(q.modes) = modes  BY DEF Batches!Range
<1>2. q.says = IF modes = {"decompress"} THEN "decompress"
               ELSE IF "auto" \in modes THEN "auto" ELSE "compress"
  BY DEF Batches!Says
<1>3. \A f \in folders : Batches!ModeFor(f, c1) = "decompress" <=>
        Batches!Direction(f, c1) = "decompress"
  BY DEF Batches!ModeFor
<1>4. modes # {} /\ modes \subseteq {"decompress", "auto", "compress"}
  BY DEF Batches!ModeFor
<1>5. modes = {"decompress"} \/ "decompress" \notin modes
  BY <1>3, <1>4
<1>. HIDE DEF q, modes
<1>6. Batches!AsSaid(q)
  <2>1. CASE modes = {"decompress"}
    BY <1>1, <1>2, <2>1 DEF Batches!AsSaid
  <2>2. CASE "decompress" \notin modes /\ "auto" \in modes
    <3>1. q.says = "auto"  BY <1>2, <2>2
    <3>. QED BY <1>1, <2>2, <3>1 DEF Batches!AsSaid
  <2>3. CASE "decompress" \notin modes /\ "auto" \notin modes
    <3>1. modes = {"compress"}  BY <1>4, <2>3
    <3>2. q.says = "compress"  BY <1>2, <2>3
    <3>. QED BY <1>1, <3>1, <3>2 DEF Batches!AsSaid
  <2>. QED BY <1>5, <2>1, <2>2, <2>3
<1>. QED BY <1>6 DEF q

\* Asking.
LEMMA AskKeeps ==
  ASSUME Batches!BarInv, NEW folders, NEW fresh, Batches!Ask(folders, fresh),
         fresh => \/ \A f \in folders : Batches!Direction(f, c1) = "decompress"
                  \/ \A f \in folders : Batches!Direction(f, c1) # "decompress"
  PROVE  Batches!BarInv'
<1>1. /\ c3' = [modes |-> [f \in folders |-> Batches!ModeFor(f, c1)],
           says |-> Batches!Says(folders, c1),
                   fresh |-> fresh]
      /\ c5' = Nothing /\ folders # {} /\ UNCHANGED <<c2, c4>>
  BY DEF Batches!Ask
<1>2. c3'.fresh => Batches!AsSaid(c3')
  BY <1>1, SaysItsModes
<1>. QED BY <1>1, <1>2 DEF Batches!BarInv, Batches!BatchDoesWhatItSays, Batches!DeltaOfTwo,
     Batches!OfKind, Batches!AsSaid

\* Every step of the bar, its question and its window keeps the invariant.
LEMMA BatchStep ==
  ASSUME Batches!BarAssumption, Batches!BarInv, [Batches!Next]_(Batches!barVars)
  PROVE  Batches!BarInv'
<1>1. ASSUME NEW n \in Batches!Entry, Batches!Toggle(n)  PROVE Batches!BarInv'
  <2>1. PICK kind \in {Batches!KindOf(n), "model"} : c2' = Batches!Toggled(c2, n, kind)
    BY <1>1 DEF Batches!Toggle
  <2>2. c5' = Nothing /\ UNCHANGED <<c3, c4>>
    BY <1>1 DEF Batches!Toggle
  <2>3. OneKind(c2')
    BY <2>1, ToggledKeeps DEF Batches!BarInv, OneKind
  <2>4. Batches!Range(c2') \subseteq Batches!Kind
    <3>1. kind \in Batches!Kind  BY DEF Batches!KindOf, Batches!Kind
    <3>. QED BY <2>1, <3>1 DEF Batches!BarInv, Batches!Toggled, Batches!With, Batches!Restrict,
         Batches!Range
  <2>. QED BY <2>2, <2>3, <2>4 DEF OneKind, Batches!BarInv, Batches!BatchDoesWhatItSays,
       Batches!DeltaOfTwo
<1>2. ASSUME NEW f \in Directory, Batches!RequestZipnn(f)  PROVE Batches!BarInv'
  BY <1>2, AskKeeps DEF Batches!RequestZipnn
<1>3. CASE Batches!RequestBatch
  <2>. DEFINE fresh == \A f \in Batches!SelectedFolders : c2[f] = Batches!KindOf(f)
  <2>1. Batches!Ask(Batches!SelectedFolders, fresh)  BY <1>3 DEF Batches!RequestBatch
  <2>2. ASSUME fresh, NEW f \in Batches!SelectedFolders, NEW g \in Batches!SelectedFolders,
               Batches!Direction(f, c1) = "decompress", Batches!Direction(g, c1) # "decompress"
        PROVE  FALSE
    <3>1. c2[f] = "znn-folder" /\ c2[g] = "folder"
      BY <2>2 DEF Batches!KindOf, Batches!SelectedFolders
    <3>2. f \in DOMAIN c2 /\ g \in DOMAIN c2
      BY DEF Batches!SelectedFolders
    <3>. QED BY <3>1, <3>2 DEF Batches!BarInv, Batches!OfKind
  <2>. HIDE DEF fresh
  <2>. QED BY <2>1, <2>2, AskKeeps
<1>4. CASE Batches!Clear
  BY <1>4 DEF Batches!Clear, Batches!BarInv, Batches!BatchDoesWhatItSays, Batches!DeltaOfTwo,
       Batches!Range, Batches!OfKind
<1>5. CASE Batches!Rescan \/ Batches!Reject \/ Batches!CloseDelta
  BY <1>5 DEF Batches!Rescan, Batches!Reject, Batches!CloseDelta, Batches!BarInv,
       Batches!BatchDoesWhatItSays, Batches!DeltaOfTwo, Batches!Range
<1>6. CASE Batches!Accept
  <2>1. /\ c3 # Nothing /\ c3' = Nothing /\ UNCHANGED <<c2, c4>>
        /\ c5' = [modes |-> c3.modes, says |-> c3.says, fresh |-> c3.fresh]
    BY <1>6 DEF Batches!Accept, Batches!Modes
  <2>2. DOMAIN c5' = {"modes", "says", "fresh"}  BY <2>1
  <2>3. c5'.fresh => Batches!AsSaid(c5')
    BY <2>1 DEF Batches!BarInv, Batches!AsSaid
  <2>. QED BY <2>1, <2>2, <2>3 DEF Batches!BarInv, Batches!BatchDoesWhatItSays, Batches!DeltaOfTwo
<1>7. CASE Batches!OpenDelta
  <2>1. PICK p \in Batches!DeltaPair :
          c4' = [pair |-> p, base |-> IF c4 = Nothing THEN 1 ELSE c4.base]
    BY <1>7 DEF Batches!OpenDelta
  <2>2. DOMAIN p = 1..2 /\ p[1] # p[2]
    <3>. DEFINE S == DOMAIN c2 \cap c1 \cap Loose
    <3>1. p \in S \X S /\ p[1] # p[2]  BY <2>1 DEF Batches!DeltaPair
    <3>. QED BY <3>1
  <2>3. c5' = Nothing /\ UNCHANGED <<c2, c3>>
    BY <1>7 DEF Batches!OpenDelta
  <2>. QED BY <2>1, <2>2, <2>3 DEF Batches!BarInv, Batches!BatchDoesWhatItSays, Batches!DeltaOfTwo
<1>8. ASSUME NEW i \in 1..2, Batches!PickBase(i)  PROVE Batches!BarInv'
  <2>1. /\ c4 # Nothing /\ c4' = [c4 EXCEPT !.base = i] /\ c5' = Nothing
        /\ UNCHANGED <<c2, c3>>
    BY <1>8 DEF Batches!PickBase
  <2>. QED BY <2>1 DEF Batches!BarInv, Batches!BatchDoesWhatItSays, Batches!DeltaOfTwo
<1>9. CASE Batches!Submit
  <2>1. /\ c4 # Nothing /\ c4' = Nothing /\ UNCHANGED <<c2, c3>>
        /\ c5' = [base |-> c4.pair[c4.base],
                   ft |-> CHOOSE m \in Batches!Range(c4.pair) : m # c4.pair[c4.base]]
    BY <1>9 DEF Batches!Submit
  <2>2. \E m \in Batches!Range(c4.pair) : m # c4.pair[c4.base]
    BY <2>1 DEF Batches!BarInv, Batches!Range
  <2>3. c5'.base # c5'.ft  BY <2>1, <2>2
  <2>4. DOMAIN c5' = {"base", "ft"}  BY <2>1
  <2>. QED BY <2>1, <2>3, <2>4 DEF Batches!BarInv, Batches!BatchDoesWhatItSays, Batches!DeltaOfTwo
<1>10. CASE UNCHANGED Batches!barVars
  BY <1>10 DEF Batches!barVars, Batches!BarInv, Batches!BatchDoesWhatItSays, Batches!DeltaOfTwo,
       Batches!Range
<1>. QED BY <1>1, <1>2, <1>3, <1>4, <1>5, <1>6, <1>7, <1>8, <1>9, <1>10 DEF Batches!Next

\* At the start nothing is ticked and nothing asked.
LEMMA BatchStart ==
  ASSUME Batches!Init
  PROVE  Batches!BarInv
BY DEF Batches!Init, Batches!BarInv, Batches!BatchDoesWhatItSays, Batches!DeltaOfTwo,
     Batches!Range, Batches!OfKind

-----------------------------------------------------------------------------
(* The canvas: its nodes c1, the node selected last c2, and the widgets        *)
(* written without a look at their list c3.                                    *)

\* One widget of a node is written: with a model that its list has, or as an odd one.
LEMMA WriteKeeps ==
  ASSUME Canvas!DropAssumption, Canvas!CanvasInv, NEW n \in DOMAIN c1, NEW index, NEW p \in Path,
         c1' = [c1 EXCEPT ![n].held[index] = p],
         c3 \subseteq c3',
         \/ [node |-> n, index |-> index] \in c3'
         \/ index \in Canvas!Places(c1[n].kind) /\ p \in Widgets[c1[n].kind][index]
  PROVE  Canvas!CanvasInv'
<1> DEFINE Item == [kind : NodeKind,
                    held : UNION {[Canvas!Places(k) -> Path \cup {Nothing}] : k \in NodeKind}]
           node == [c1[n] EXCEPT !.held[index] = p]
<1>0. c1 \in Seq(Item)
  BY DEF Canvas!CanvasInv
<1> HIDE DEF Item
<1>1. c1[n] \in Item /\ n \in 1..Len(c1)
  BY <1>0
<1> USE DEF Item
<1>2. c1' = [c1 EXCEPT ![n] = node]
  BY <1>1
<1>3. PICK k \in NodeKind : c1[n].held \in [Canvas!Places(k) -> Path \cup {Nothing}]
  BY <1>1
<1>4. node.kind = c1[n].kind /\ node.held = [c1[n].held EXCEPT ![index] = p]
  BY <1>1
<1>5. node.held \in [Canvas!Places(k) -> Path \cup {Nothing}]
  BY <1>3, <1>4
<1>6. node \in Item
  BY <1>1, <1>4, <1>5
<1>7. c1' \in Seq(Item) /\ DOMAIN c1' = DOMAIN c1
  BY <1>0, <1>1, <1>2, <1>6
<1>8. \A m \in DOMAIN c1' : c1'[m] = IF m = n THEN node ELSE c1[m]
  BY <1>1, <1>2, <1>7
<1>9. DOMAIN node.held = Canvas!Places(node.kind)
  BY <1>4, <1>3 DEF Canvas!CanvasInv
<1>10. \A m \in DOMAIN c1' : DOMAIN c1'[m].held = Canvas!Places(c1'[m].kind)
  BY <1>7, <1>8, <1>9 DEF Canvas!CanvasInv
<1>11. Canvas!HoldsWhatItLists'
  <2> SUFFICES ASSUME NEW m \in DOMAIN c1', NEW i \in Canvas!Places(c1'[m].kind),
                      c1'[m].held[i] # Nothing, [node |-> m, index |-> i] \notin c3'
               PROVE  c1'[m].held[i] \in Widgets[c1'[m].kind][i]
    BY DEF Canvas!HoldsWhatItLists, Canvas!Places
  <2>1. CASE m = n /\ i = index
    <3>1. c1'[m].held[i] = p /\ c1'[m].kind = c1[n].kind
      BY <2>1, <1>3, <1>4, <1>7, <1>8 DEF Canvas!CanvasInv
    <3> QED
      BY <2>1, <3>1
  <2>2. CASE ~(m = n /\ i = index)
    <3>1. c1'[m].kind = c1[m].kind /\ c1'[m].held[i] = c1[m].held[i]
      BY <2>2, <1>3, <1>4, <1>7, <1>8 DEF Canvas!CanvasInv
    <3> QED
      BY <3>1, <1>7 DEF Canvas!CanvasInv, Canvas!HoldsWhatItLists
  <2> QED
    BY <2>1, <2>2
<1> QED
  BY <1>7, <1>10, <1>11 DEF Canvas!CanvasInv, Canvas!Places

\* A node is added, one of its widgets being odd.
LEMMA AddKeeps ==
  ASSUME Canvas!DropAssumption, Canvas!CanvasInv, NEW kind \in NodeKind, NEW index, NEW p \in Path,
         Canvas!Added(kind, index, p)
  PROVE  Canvas!CanvasInv'
<1> DEFINE Item == [kind : NodeKind,
                    held : UNION {[Canvas!Places(k) -> Path \cup {Nothing}] : k \in NodeKind}]
           node == [Canvas!Fresh(kind) EXCEPT !.held[index] = p]
           new  == Len(c1) + 1
<1>1. c1 \in Seq(Item) /\ Len(c1) \in Nat
  BY DEF Canvas!CanvasInv
<1>2. node = [kind |-> kind, held |-> [[i \in Canvas!Places(kind) |-> Nothing] EXCEPT ![index] = p]]
  BY DEF Canvas!Fresh
<1>3. node.held \in [Canvas!Places(kind) -> Path \cup {Nothing}] /\ node.kind = kind
  BY <1>2
<1>4. node \in Item
  BY <1>2, <1>3
<1>5. c1' = Append(c1, node) /\ c3' = c3 \cup {[node |-> Len(c1'), index |-> index]}
  BY DEF Canvas!Added
<1>6. /\ c1' \in Seq(Item) /\ Len(c1') = new /\ DOMAIN c1' = 1..new
      /\ \A m \in 1..new : c1'[m] = IF m = new THEN node ELSE c1[m]
  BY <1>1, <1>4, <1>5
<1>7. \A m \in DOMAIN c1' : DOMAIN c1'[m].held = Canvas!Places(c1'[m].kind)
  <2> TAKE m \in DOMAIN c1'
  <2>1. DOMAIN node.held = Canvas!Places(kind)
    BY <1>3
  <2> HIDE DEF node, Item
  <2> QED
    BY <2>1, <1>1, <1>3, <1>6 DEF Canvas!CanvasInv
<1>8. Canvas!HoldsWhatItLists'
  <2> SUFFICES ASSUME NEW m \in DOMAIN c1', NEW i \in Canvas!Places(c1'[m].kind),
                      c1'[m].held[i] # Nothing, [node |-> m, index |-> i] \notin c3'
               PROVE  c1'[m].held[i] \in Widgets[c1'[m].kind][i]
    BY DEF Canvas!HoldsWhatItLists, Canvas!Places
  <2>1. CASE m = new
    <3>1. i # index
      BY <2>1, <1>5, <1>6
    <3>2. c1'[m].held[i] = Nothing
      BY <2>1, <3>1, <1>2, <1>3, <1>6
    <3> QED
      BY <3>2
  <2>2. CASE m # new
    <3>1. c1'[m] = c1[m] /\ m \in DOMAIN c1
      BY <2>2, <1>1, <1>6
    <3> QED
      BY <3>1, <1>5 DEF Canvas!CanvasInv, Canvas!HoldsWhatItLists
  <2> QED
    BY <2>1, <2>2
<1> QED
  BY <1>6, <1>7, <1>8 DEF Canvas!CanvasInv, Canvas!Places

LEMMA CanvasStep ==
  ASSUME Canvas!DropAssumption, Canvas!CanvasInv, [Canvas!Next]_(Canvas!canvasVars)
  PROVE  Canvas!CanvasInv'
<1>1. ASSUME NEW p \in Path, Canvas!AddModelNode(p)
      PROVE  Canvas!CanvasInv'
  <2>1. ClickKind[PathType[p]] \in NodeKind
    BY <1>1 DEF Canvas!AddModelNode, Canvas!DropAssumption
  <2> QED
    BY <1>1, <2>1, AddKeeps DEF Canvas!AddModelNode
<1>2. ASSUME NEW p \in Path, NEW n \in {0} \cup DOMAIN c1, NEW under, Canvas!Drop(p, n, under)
      PROVE  Canvas!CanvasInv'
  <2> DEFINE index == IF n = 0 THEN 0 ELSE Canvas!DropIndex(n, p, under)
  <2>1. CASE index = 0
    <3>1. DropKind[PathType[p]] \in NodeKind
      BY <1>2, <2>1 DEF Canvas!Drop, Canvas!DropAssumption
    <3> QED
      BY <1>2, <2>1, <3>1, AddKeeps DEF Canvas!Drop
  <2>2. CASE index # 0
    <3>1. n \in DOMAIN c1 /\ index = Canvas!DropIndex(n, p, under)
      BY <2>2
    <3>2. /\ c1' = [c1 EXCEPT ![n].held[index] = p]
          /\ c3' = IF Canvas!Counted(n, p) THEN c3 \cup {[node |-> n, index |-> index]} ELSE c3
      BY <1>2, <2>2 DEF Canvas!Drop
    <3>3. CASE Canvas!Counted(n, p)
      BY <3>1, <3>2, <3>3, WriteKeeps
    <3>4. CASE ~Canvas!Counted(n, p)
      <4>1. index \in Canvas!Matching(n, p)
        BY <2>2, <3>1, <3>4 DEF Canvas!DropIndex
      <4> QED
        BY <3>1, <3>2, <3>4, <4>1, WriteKeeps DEF Canvas!Matching
    <3> QED
      BY <3>3, <3>4
  <2> QED
    BY <2>1, <2>2
<1>3. CASE UNCHANGED Canvas!canvasVars
  BY <1>3 DEF Canvas!canvasVars, Canvas!CanvasInv, Canvas!HoldsWhatItLists, Canvas!Places
<1>4. CASE Canvas!Next
  <2>1. PICK p \in Path :
          \/ Canvas!AddModelNode(p) \/ Canvas!Drop(p, 0, 0)
          \/ \E n \in DOMAIN c1 : \E under \in {0} \cup Canvas!Places(c1[n].kind) :
               Canvas!Drop(p, n, under)
    BY <1>4 DEF Canvas!Next
  <2> QED
    BY <1>1, <1>2, <2>1
<1> QED
  BY <1>3, <1>4

\* At the start a node without values.
LEMMA CanvasStart ==
  ASSUME Canvas!DropAssumption, Canvas!Init
  PROVE  Canvas!CanvasInv
<1> DEFINE Item == [kind : NodeKind,
                    held : UNION {[Canvas!Places(k) -> Path \cup {Nothing}] : k \in NodeKind}]
<1>1. PICK kind \in NodeKind : c1 = <<Canvas!Fresh(kind)>>
  BY DEF Canvas!Init
<1>2. Canvas!Fresh(kind) \in Item
  BY DEF Canvas!Fresh
<1>3. c1 \in Seq(Item) /\ DOMAIN c1 = {1} /\ c1[1] = Canvas!Fresh(kind)
  BY <1>1, <1>2
<1>4. Canvas!HoldsWhatItLists
  BY <1>3 DEF Canvas!HoldsWhatItLists, Canvas!Fresh
<1> QED
  BY <1>3, <1>4 DEF Canvas!CanvasInv, Canvas!Fresh

-----------------------------------------------------------------------------
(* The download list.  On the server the uploads c1, the rows c2, the tasks    *)
(* that run c3, those being deleted c4 and the stray coroutine c17; between    *)
(* the two the events c5, the answers c7 and the requests c12; on the page the *)
(* list c6, the connection c8 with its drops c9, the prompts c10 and c11, what *)
(* they paused c13; and the histories c14, c15 and c16.                        *)

\* Ranks: the members of a finite set of numbers are counted off in their order.
LEMMA Ranks ==
  ASSUME NEW L \in Nat, NEW K \in SUBSET (1..L)
  PROVE  /\ IsFiniteSet(K) /\ Cardinality(K) \in Nat
         /\ \A k \in 1..Cardinality(K) : \E i \in K : Cardinality({j \in K : j <= i}) = k
         /\ \A i \in K : Cardinality({j \in K : j <= i}) \in 1..Cardinality(K)
         /\ \A a, b \in K : Cardinality({j \in K : j <= a}) = Cardinality({j \in K : j <= b}) =>
              a = b
<1> DEFINE upto(i) == {j \in K : j <= i}
           rank == [i \in K |-> Cardinality(upto(i))]
           N == Cardinality(K)
<1>1. IsFiniteSet(K) /\ N \in Nat
  <2>1. IsFiniteSet(1..L)
    BY FS_Interval
  <2>2. IsFiniteSet(K)
    BY <2>1, FS_Subset
  <2> QED
    BY <2>2, FS_CardinalityType
<1>2. ASSUME NEW i \in K
      PROVE  IsFiniteSet(upto(i)) /\ Cardinality(upto(i)) \in 1..N
  <2>1. upto(i) \in SUBSET K /\ upto(i) # {}
    BY <1>2
  <2>2. IsFiniteSet(upto(i)) /\ Cardinality(upto(i)) <= N
    BY <1>1, <2>1, FS_Subset
  <2>3. Cardinality(upto(i)) \in Nat /\ Cardinality(upto(i)) # 0
    BY <2>1, <2>2, FS_EmptySet, FS_CardinalityType
  <2> QED
    BY <1>1, <2>2, <2>3
<1>3. ASSUME NEW a \in K, NEW b \in K, a < b
      PROVE  Cardinality(upto(a)) # Cardinality(upto(b))
  <2>1. a \in Nat /\ b \in Nat /\ \A j \in K : j \in Nat
    OBVIOUS
  <2>2. \A j \in upto(a) : j \in upto(b)
    BY <1>3, <2>1
  <2>3. b \in upto(b) /\ b \notin upto(a)
    BY <1>3, <2>1
  <2>4. upto(a) \in SUBSET upto(b) /\ upto(a) # upto(b)
    BY <2>2, <2>3
  <2> QED
    BY <1>2, <2>4, FS_Subset
<1>4. ASSUME NEW a \in K, NEW b \in K, Cardinality(upto(a)) = Cardinality(upto(b))
      PROVE  a = b
  BY <1>3, <1>4
<1>5. rank \in [K -> 1..N] /\ \A a, b \in K : rank[a] = rank[b] => a = b
  BY <1>2, <1>4
<1>6. rank \in Injection(K, 1..N)
  BY <1>5 DEF Injection, IsInjective
<1>7. IsFiniteSet(1..N) /\ Cardinality(1..N) = N
  BY <1>1, FS_Interval
<1>8. rank \in Surjection(K, 1..N)
  BY <1>6, <1>7, FS_Injection
<1>9. \A k \in 1..N : \E i \in K : rank[i] = k
  BY <1>8 DEF Surjection
<1>10. \A k \in 1..N : \E i \in K : Cardinality(upto(i)) = k
  BY <1>9
<1> QED
  BY <1>1, <1>2, <1>4, <1>10

\* Without the rows of a task, each of the others has its place, and there is nothing else.
LEMMA WithoutIs ==
  ASSUME c6 \in Seq([id : Tasks, status : Rows!Shown]), NEW t
  PROVE  /\ Rows!Without(t) \in Seq([id : Tasks, status : Rows!Shown])
         /\ \E at \in [DOMAIN Rows!Without(t) -> DOMAIN c6] :
              /\ \A k \in DOMAIN Rows!Without(t) :
                   Rows!Without(t)[k] = c6[at[k]] /\ c6[at[k]].id # t
              /\ \A k, m \in DOMAIN Rows!Without(t) : at[k] = at[m] => k = m
              /\ \A i \in DOMAIN c6 : c6[i].id # t => \E k \in DOMAIN Rows!Without(t) : at[k] = i
<1> DEFINE K == {i \in DOMAIN c6 : c6[i].id # t}
           N == Rows!Cardinality(K)
           rank(i) == Rows!Cardinality({j \in K : j <= i})
           nth(k) == CHOOSE i \in K : rank(i) = k
           at == [k \in 1..N |-> nth(k)]
<1>1. Len(c6) \in Nat /\ K \in SUBSET (1..Len(c6))
  OBVIOUS
<1>2. /\ N \in Nat
      /\ \A k \in 1..N : \E i \in K : rank(i) = k
      /\ \A i \in K : rank(i) \in 1..N
      /\ \A a, b \in K : rank(a) = rank(b) => a = b
  <2> DEFINE upto(i) == {j \in K : j <= i}
  <2> HIDE DEF K
  <2>1. N = Cardinality(K) /\ \A i : rank(i) = Cardinality(upto(i))
    BY SameSizes
  <2>2. /\ Cardinality(K) \in Nat
        /\ \A k \in 1..Cardinality(K) : \E i \in K : Cardinality(upto(i)) = k
        /\ \A i \in K : Cardinality(upto(i)) \in 1..Cardinality(K)
        /\ \A a, b \in K : Cardinality(upto(a)) = Cardinality(upto(b)) => a = b
    BY <1>1, Ranks
  <2> HIDE DEF N, rank, upto
  <2> QED
    BY <2>1, <2>2
<1>3. Rows!Without(t) = [k \in 1..N |-> c6[nth(k)]]
  BY DEF Rows!Without
<1> HIDE DEF rank
<1>4. \A k \in 1..N : nth(k) \in K /\ rank(nth(k)) = k
  BY <1>2
<1>0. \A i \in K : c6[i] \in [id : Tasks, status : Rows!Shown] /\ c6[i].id # t
  <2> DEFINE R == [id : Tasks, status : Rows!Shown]
  <2>1. c6 \in Seq(R)
    OBVIOUS
  <2> HIDE DEF R
  <2>2. \A i \in DOMAIN c6 : c6[i] \in R
    BY <2>1
  <2> QED
    BY <2>2 DEF R
<1> HIDE DEF nth
<1>5. at \in [1..N -> DOMAIN c6] /\ \A k \in 1..N : at[k] = nth(k)
  BY <1>4
<1>6. /\ DOMAIN Rows!Without(t) = 1..N
      /\ \A k \in 1..N :
           Rows!Without(t)[k] = c6[nth(k)] /\ c6[nth(k)] \in [id : Tasks, status : Rows!Shown]
  <2> HIDE DEF K, at
  <2> QED
    BY <1>3, <1>4, <1>0
<1>7. Rows!Without(t) \in Seq([id : Tasks, status : Rows!Shown])
  BY <1>2, <1>3, <1>6
<1>8. \A k, m \in 1..N : nth(k) = nth(m) => k = m
  BY <1>4
<1>9. \A i \in K : nth(rank(i)) = i
  BY <1>2, <1>4
<1>10. \A k \in 1..N : Rows!Without(t)[k] = c6[at[k]] /\ c6[at[k]].id # t
  BY <1>4, <1>5, <1>6
<1>11. \A i \in DOMAIN c6 : c6[i].id # t => \E k \in 1..N : at[k] = i
  <2> SUFFICES ASSUME NEW i \in K
               PROVE  \E k \in 1..N : at[k] = i
    OBVIOUS
  <2>1. rank(i) \in 1..N /\ at[rank(i)] = i
    BY <1>2, <1>5, <1>9
  <2> QED
    BY <2>1
<1> HIDE DEF at, K
<1>12. \E where \in [DOMAIN Rows!Without(t) -> DOMAIN c6] :
        /\ \A k \in DOMAIN Rows!Without(t) :
             Rows!Without(t)[k] = c6[where[k]] /\ c6[where[k]].id # t
        /\ \A k, m \in DOMAIN Rows!Without(t) : where[k] = where[m] => k = m
        /\ \A i \in DOMAIN c6 : c6[i].id # t => \E k \in DOMAIN Rows!Without(t) : where[k] = i
  <2>1. at \in [DOMAIN Rows!Without(t) -> DOMAIN c6]
    BY <1>5, <1>6
  <2> WITNESS at \in [DOMAIN Rows!Without(t) -> DOMAIN c6]
  <2> QED
    BY <1>5, <1>6, <1>8, <1>10, <1>11
<1> QED
  BY <1>7, <1>12

-----------------------------------------------------------------------------
(* Events *)

LEMMA ListEventsAre ==
  ASSUME NEW e \in Rows!Events
  PROVE  /\ e.sort \in Rows!EventSorts =>
              e.row \in Rows!Rows /\ e \in [sort : Rows!EventSorts, row : Rows!Rows]
         /\ e.sort \in Rows!EventSorts \/ e.sort \in {"exec", "idle"}
BY DEF Rows!Events, Rows!Signal, Rows!EventSorts

\* One more event.
LEMMA MailGrows ==
  ASSUME c5 \in Seq(Rows!Events), NEW e \in Rows!Events, c5' = Append(c5, e),
         NEW n \in 0..Len(c5), NEW t
  PROVE  /\ Rows!Mail(n, t)' = Rows!Mail(n, t) \cup (IF Rows!About(e, t) THEN {Len(c5) + 1} ELSE {})
         /\ c5'[Len(c5) + 1] = e
         /\ \A i \in Rows!Mail(n, t) : c5'[i] = c5[i] /\ i \in Nat /\ i <= Len(c5)
<1>1. Len(c5) \in Nat /\ Len(c5') = Len(c5) + 1
      /\ c5'[Len(c5) + 1] = e /\ \A i \in 1..Len(c5) : c5'[i] = c5[i]
  OBVIOUS
<1>2. \A i : i \in n + 1..Len(c5') <=> i \in n + 1..Len(c5) \/ i = Len(c5) + 1
  BY <1>1
<1>3. \A i \in n + 1..Len(c5) : i \in 1..Len(c5) /\ i \in Nat /\ i <= Len(c5)
  BY <1>1
<1> QED
  BY <1>1, <1>2, <1>3 DEF Rows!Mail

\* One event less.
LEMMA MailShrinks ==
  ASSUME c5 \in Seq(Rows!Events), c5 # <<>>, c5' = Tail(c5), NEW n \in Nat, NEW t
  PROVE  /\ Rows!Mail(n, t)' = {i \in n + 1..Len(c5) - 1 : i + 1 \in Rows!Mail(n + 1, t)}
         /\ \A i \in Rows!Mail(n, t)' :
              c5'[i] = c5[i + 1] /\ i \in Nat /\ i + 1 \in Rows!Mail(n + 1, t)
         /\ \A i \in Rows!Mail(n + 1, t) :
              i \in Nat /\ i - 1 \in Rows!Mail(n, t)' /\ c5'[i - 1] = c5[i]
<1>1. Len(c5) \in Nat /\ Len(c5) > 0 /\ Len(c5') = Len(c5) - 1
      /\ \A i \in 1..Len(c5) - 1 : c5'[i] = c5[i + 1]
  OBVIOUS
<1>2. \A i \in n + 1..Len(c5) - 1 : i \in 1..Len(c5) - 1 /\ i + 1 \in n + 1 + 1..Len(c5)
  BY <1>1
<1>3. \A i \in n + 1 + 1..Len(c5) : i \in Nat /\ i - 1 \in n + 1..Len(c5) - 1 /\ i - 1 + 1 = i
  BY <1>1
<1>4. Rows!Mail(n, t)' = {i \in n + 1..Len(c5) - 1 : i + 1 \in Rows!Mail(n + 1, t)}
  BY <1>1, <1>2 DEF Rows!Mail
<1>5. \A i \in Rows!Mail(n + 1, t) : i \in n + 1 + 1..Len(c5)
  BY DEF Rows!Mail
<1> QED
  BY <1>1, <1>2, <1>3, <1>4, <1>5

\* What the server tells, and what it does not, keeps the page on the track of a row.
LEMMA SentTracks ==
  ASSUME c5 \in Seq(Rows!Events), NEW e \in Rows!Events, c5' = Append(c5, e), NEW t \in Tasks,
         c2[t] \in Rows!Shown \cup Rows!Absent,
         Rows!About(e, t) =>
           \/ /\ e.sort = "update" /\ c2[t] \in Rows!Shown /\ c2'[t] \in Rows!Shown
              /\ e.row.status = c2'[t] /\ (t \in c4 => t \in c4')
           \/ /\ e.sort = "create" /\ c2[t] = "none" /\ c2'[t] \in Rows!Shown
              /\ e.row.status = c2'[t]
           \/ /\ e.sort \in {"delete", "complete"} /\ c2[t] # "none"
              /\ c2'[t] = "gone" \/ (c2'[t] \in Rows!Shown /\ c2[t] # "gone" /\ t \in c4'),
         ~Rows!About(e, t) => c2'[t] = c2[t] /\ (t \in c4 => t \in c4' \/ c2[t] = "gone"),
         NEW n \in 0..Len(c5), NEW seen, Rows!Tracks(n, t, seen)
  PROVE  Rows!Tracks(n, t, seen)'
<1> DEFINE mail == Rows!Mail(n, t)
           new  == Len(c5) + 1
           M    == mail \cup (IF Rows!About(e, t) THEN {new} ELSE {})
<1>1. Rows!Mail(n, t)' = M /\ c5'[new] = e /\ \A i \in mail :
        c5'[i] = c5[i] /\ i \in Nat /\ i <= Len(c5)
  BY MailGrows
<1>2. new \in Nat /\ new = Len(c5) + 1 /\ Len(c5) \in Nat /\ \A i \in mail : i < new
  BY <1>1
<1>3. /\ \A i \in mail : c5[i].sort = "create" => seen = {} /\ \A j \in mail : i <= j
      /\ c2[t] = "none" => seen = {} /\ mail = {}
      /\ c2[t] = "gone" /\ (seen # {} \/ \E i \in mail : c5[i].sort = "create") =>
           \E i \in mail : c5[i].sort \in {"delete", "complete"}
      /\ c2[t] \in Rows!Shown /\ t \notin c4 =>
           /\ \A i \in mail : c5[i].sort \in {"create", "update"}
           /\ seen # {} \/ \E i \in mail : c5[i].sort = "create"
           /\ mail = {} => seen = {c2[t]}
           /\ \A i \in mail : (\A j \in mail : j <= i) => c5[i].row.status = c2[t]
  BY DEF Rows!Tracks
<1> SUFFICES
      /\ \A i \in M : c5'[i].sort = "create" => seen = {} /\ \A j \in M : i <= j
      /\ c2'[t] = "none" => seen = {} /\ M = {}
      /\ c2'[t] = "gone" /\ (seen # {} \/ \E i \in M : c5'[i].sort = "create") =>
           \E i \in M : c5'[i].sort \in {"delete", "complete"}
      /\ c2'[t] \in Rows!Shown /\ t \notin c4' =>
           /\ \A i \in M : c5'[i].sort \in {"create", "update"}
           /\ seen # {} \/ \E i \in M : c5'[i].sort = "create"
           /\ M = {} => seen = {c2'[t]}
           /\ \A i \in M : (\A j \in M : j <= i) => c5'[i].row.status = c2'[t]
  <2> HIDE DEF M
  <2> QED
    BY <1>1 DEF Rows!Tracks
<1>4. CASE ~Rows!About(e, t)
  <2>1. M = mail /\ c2'[t] = c2[t] /\ (c2[t] \in Rows!Shown /\ t \notin c4' => t \notin c4)
    BY <1>4 DEF Rows!Shown
  <2> HIDE DEF mail, M, new
  <2> QED
    BY <1>1, <1>3, <2>1
<1>5. CASE Rows!About(e, t) /\ e.sort = "update"
  <2>1. /\ c2[t] \in Rows!Shown /\ c2'[t] \in Rows!Shown /\ e.row.status = c2'[t]
        /\ t \notin c4' => t \notin c4
        /\ M = mail \cup {new} /\ c2'[t] \notin Rows!Absent
    BY <1>5 DEF Rows!Shown, Rows!Absent
  <2>2. c2'[t] # "none" /\ c2'[t] # "gone"
    BY <2>1 DEF Rows!Absent
  <2> HIDE DEF mail, M, new
  <2>3. \A i \in M : c5'[i].sort = "create" => i \in mail /\ c5[i].sort = "create"
    BY <1>1, <1>5, <2>1
  <2>4. \A i \in M : c5'[i].sort = "create" => seen = {} /\ \A j \in M : i <= j
    <3> SUFFICES ASSUME NEW i \in M, c5'[i].sort = "create"
                 PROVE  seen = {} /\ \A j \in M : i <= j
      OBVIOUS
    <3>1. i \in mail /\ i \in Nat /\ i < new
      BY <1>1, <1>2, <2>3
    <3>2. seen = {} /\ \A j \in mail : i <= j
      BY <1>3, <2>3
    <3> QED
      BY <1>2, <2>1, <3>1, <3>2
  <2>5. ASSUME t \notin c4'
        PROVE  /\ \A i \in M : c5'[i].sort \in {"create", "update"}
               /\ seen # {} \/ \E i \in M : c5'[i].sort = "create"
               /\ M # {}
    BY <1>1, <1>3, <1>5, <2>1, <2>5
  <2>6. \A i \in M : (\A j \in M : j <= i) => i = new
    BY <1>1, <1>2, <2>1
  <2> QED
    BY <1>1, <2>1, <2>2, <2>4, <2>5, <2>6
<1>6. CASE Rows!About(e, t) /\ e.sort = "create"
  <2>1. /\ c2[t] = "none" /\ c2'[t] \in Rows!Shown /\ e.row.status = c2'[t]
             /\ c2'[t] \notin Rows!Absent
    BY <1>6 DEF Rows!Shown, Rows!Absent
  <2>2. mail = {} /\ seen = {} /\ M = {new}
    BY <1>3, <1>6, <2>1
  <2> HIDE DEF mail, M, new
  <2> QED
    BY <1>1, <1>2, <1>6, <2>1, <2>2 DEF Rows!Absent
<1>7. CASE Rows!About(e, t) /\ e.sort \in {"delete", "complete"}
  <2>1. /\ c2[t] # "none" /\ M = mail \cup {new} /\ c2'[t] # "none"
        /\ c2'[t] = "gone" \/ t \in c4'
    BY <1>7 DEF Rows!Shown
  <2>2. c2'[t] = "gone" => c2'[t] \notin Rows!Shown
    BY DEF Rows!Shown
  <2> HIDE DEF mail, M, new
  <2>3. \A i \in M : c5'[i].sort = "create" => i \in mail /\ c5[i].sort = "create"
    BY <1>1, <1>7, <2>1
  <2>4. \A i \in M : c5'[i].sort = "create" => seen = {} /\ \A j \in M : i <= j
    <3> SUFFICES ASSUME NEW i \in M, c5'[i].sort = "create"
                 PROVE  seen = {} /\ \A j \in M : i <= j
      OBVIOUS
    <3>1. i \in mail /\ i \in Nat /\ i < new
      BY <1>1, <1>2, <2>3
    <3>2. seen = {} /\ \A j \in mail : i <= j
      BY <1>3, <2>3
    <3> QED
      BY <1>2, <2>1, <3>1, <3>2
  <2>5. new \in M /\ c5'[new].sort \in {"delete", "complete"}
    BY <1>1, <1>7, <2>1
  <2> QED
    BY <2>1, <2>2, <2>4, <2>5
<1> QED
  BY <1>4, <1>5, <1>6, <1>7

\* Nothing is told.
LEMMA StillTracks ==
  ASSUME c5' = c5, NEW t \in Tasks, c2'[t] = c2[t],
         t \in c4 => t \in c4' \/ c2[t] = "gone",
         NEW n, NEW seen, Rows!Tracks(n, t, seen)
  PROVE  Rows!Tracks(n, t, seen)'
<1>1. Rows!Mail(n, t)' = Rows!Mail(n, t)
  BY DEF Rows!Mail
<1>2. c2'[t] \in Rows!Shown /\ t \notin c4' => t \notin c4
  BY DEF Rows!Shown
<1> QED
  BY <1>1, <1>2 DEF Rows!Tracks

\* What a view makes of an event.
SeenAfter(e, t, seen) ==
  IF ~Rows!About(e, t) THEN seen
  ELSE IF e.sort = "create" THEN seen \cup {e.row.status}
  ELSE IF e.sort = "update" THEN IF seen = {} THEN {} ELSE {e.row.status}
  ELSE {}

\* The page takes an event: an answer that was ahead of it is so by one less, and the
\* list, which was ahead by none, has seen it.
LEMMA TakenTracks ==
  ASSUME c5 \in Seq(Rows!Events), c5 # <<>>, c5' = Tail(c5), NEW t \in Tasks,
         c2' = c2, c4' = c4, NEW seen, NEW e, e = c5[1]
  PROVE  /\ \A n \in Nat : Rows!Tracks(n + 1, t, seen) => Rows!Tracks(n, t, seen)'
         /\ Rows!Tracks(0, t, seen) => Rows!Tracks(0, t, SeenAfter(e, t, seen))'
<1> DEFINE T(n, s) ==
      LET M == Rows!Mail(n, t)' IN
      /\ \A i \in M : c5'[i].sort = "create" => s = {} /\ \A j \in M : i <= j
      /\ c2[t] = "none" => s = {} /\ M = {}
      /\ c2[t] = "gone" /\ (s # {} \/ \E i \in M : c5'[i].sort = "create") =>
           \E i \in M : c5'[i].sort \in {"delete", "complete"}
      /\ c2[t] \in Rows!Shown /\ t \notin c4 =>
           /\ \A i \in M : c5'[i].sort \in {"create", "update"}
           /\ s # {} \/ \E i \in M : c5'[i].sort = "create"
           /\ M = {} => s = {c2[t]}
           /\ \A i \in M : (\A j \in M : j <= i) => c5'[i].row.status = c2[t]
<1>1. \A n, s : Rows!Tracks(n, t, s)' <=> T(n, s)
  BY DEF Rows!Tracks
<1>2. ASSUME NEW n \in Nat, Rows!Tracks(n + 1, t, seen)
      PROVE  T(n, seen)
  <2> DEFINE M == Rows!Mail(n, t)'
             O == Rows!Mail(n + 1, t)
  <2>1. /\ \A i \in M : c5'[i] = c5[i + 1] /\ i \in Nat /\ i + 1 \in O
        /\ \A i \in O : i \in Nat /\ i - 1 \in M /\ c5'[i - 1] = c5[i]
    BY MailShrinks
  <2>2. /\ \A i \in O : c5[i].sort = "create" => seen = {} /\ \A j \in O : i <= j
        /\ c2[t] = "none" => seen = {} /\ O = {}
        /\ c2[t] = "gone" /\ (seen # {} \/ \E i \in O : c5[i].sort = "create") =>
             \E i \in O : c5[i].sort \in {"delete", "complete"}
        /\ c2[t] \in Rows!Shown /\ t \notin c4 =>
             /\ \A i \in O : c5[i].sort \in {"create", "update"}
             /\ seen # {} \/ \E i \in O : c5[i].sort = "create"
             /\ O = {} => seen = {c2[t]}
             /\ \A i \in O : (\A j \in O : j <= i) => c5[i].row.status = c2[t]
    BY <1>2 DEF Rows!Tracks
  <2> HIDE DEF M, O
  <2>3. \A i \in M : c5'[i].sort = "create" => seen = {} /\ \A j \in M : i <= j
    <3> SUFFICES ASSUME NEW i \in M, c5'[i].sort = "create"
                 PROVE  seen = {} /\ \A j \in M : i <= j
      OBVIOUS
    <3>1. i + 1 \in O /\ c5[i + 1].sort = "create" /\ i \in Nat
      BY <2>1
    <3>2. ASSUME NEW j \in M
          PROVE  i <= j
      <4>1. i + 1 <= j + 1 /\ j \in Nat
        BY <2>1, <2>2, <3>1
      <4> QED
        BY <3>1, <4>1
    <3> QED
      BY <2>2, <3>1, <3>2
  <2>4. (\E i \in O : c5[i].sort = "create") <=> \E i \in M : c5'[i].sort = "create"
    BY <2>1
  <2>5. (\E i \in O : c5[i].sort \in {"delete", "complete"}) =>
          \E i \in M : c5'[i].sort \in {"delete", "complete"}
    BY <2>1
  <2>6. M = {} <=> O = {}
    BY <2>1
  <2>7. ASSUME NEW i \in M, \A j \in M : j <= i
        PROVE  \A j \in O : j <= i + 1
    <3> TAKE j \in O
    <3>1. j \in Nat /\ j - 1 <= i /\ i \in Nat
      BY <2>1, <2>7
    <3> QED
      BY <3>1
  <2>8. ASSUME c2[t] \in Rows!Shown, t \notin c4, NEW i \in M
        PROVE  /\ c5'[i].sort \in {"create", "update"}
               /\ (\A j \in M : j <= i) => c5'[i].row.status = c2[t]
    <3>1. i + 1 \in O /\ c5'[i] = c5[i + 1]
      BY <2>1
    <3>2. (\A j \in M : j <= i) => \A j \in O : j <= i + 1
      BY <2>7
    <3> QED
      BY <2>2, <2>8, <3>1, <3>2
  <2> QED
    BY <2>2, <2>3, <2>4, <2>5, <2>6, <2>8 DEF M
<1>3. ASSUME Rows!Tracks(0, t, seen)
      PROVE  T(0, SeenAfter(e, t, seen))
  <2> DEFINE M == Rows!Mail(0, t)'
             O == Rows!Mail(1, t)
             A == Rows!Mail(0, t)
             s == SeenAfter(e, t, seen)
  <2>1. /\ \A i \in M : c5'[i] = c5[i + 1] /\ i \in Nat /\ i + 1 \in O
        /\ \A i \in O : i \in Nat /\ i - 1 \in M /\ c5'[i - 1] = c5[i]
    <3>1. 0 \in Nat /\ 0 + 1 = 1
      OBVIOUS
    <3> QED
      BY <3>1, MailShrinks
  <2>2. /\ \A i \in A : c5[i].sort = "create" => seen = {} /\ \A j \in A : i <= j
        /\ c2[t] = "none" => seen = {} /\ A = {}
        /\ c2[t] = "gone" /\ (seen # {} \/ \E i \in A : c5[i].sort = "create") =>
             \E i \in A : c5[i].sort \in {"delete", "complete"}
        /\ c2[t] \in Rows!Shown /\ t \notin c4 =>
             /\ \A i \in A : c5[i].sort \in {"create", "update"}
             /\ seen # {} \/ \E i \in A : c5[i].sort = "create"
             /\ A = {} => seen = {c2[t]}
             /\ \A i \in A : (\A j \in A : j <= i) => c5[i].row.status = c2[t]
    BY <1>3 DEF Rows!Tracks
  <2>3. /\ A = O \cup (IF Rows!About(e, t) THEN {1} ELSE {})
        /\ \A i \in O : i >= 2 /\ i \in Nat
    <3>1. Len(c5) \in Nat /\ Len(c5) >= 1
      OBVIOUS
    <3>2. \A i : i \in 0 + 1..Len(c5) <=> i = 1 \/ i \in 1 + 1..Len(c5)
      BY <3>1
    <3>3. \A i \in 1 + 1..Len(c5) : i >= 2 /\ i \in Nat
      BY <3>1
    <3> QED
      BY <3>2, <3>3 DEF Rows!Mail
  <2>4. \A i, j \in M : i + 1 <= j + 1 => i <= j
    BY <2>1
  <2>5. e.sort \in Rows!EventSorts \/ ~Rows!About(e, t)
    BY DEF Rows!About
  <2> HIDE DEF M, O, A
  <2>6. ASSUME NEW i \in M, c5'[i].sort = "create"
        PROVE  ~Rows!About(e, t) /\ seen = {} /\ \A j \in M : i <= j
    <3>1. i + 1 \in O /\ i + 1 \in A /\ c5[i + 1].sort = "create"
      BY <2>1, <2>3, <2>6
    <3>2. seen = {} /\ \A j \in A : i + 1 <= j
      BY <2>2, <3>1
    <3>3. ~Rows!About(e, t)
      <4>1. Rows!About(e, t) => 1 \in A /\ i + 1 >= 2 /\ i \in Nat
        BY <2>1, <2>3, <3>1
      <4> QED
        BY <3>2, <4>1
    <3>4. ASSUME NEW j \in M
          PROVE  i <= j
      BY <2>1, <2>3, <2>4, <3>2
    <3> QED
      BY <3>2, <3>3, <3>4
  <2>7. CASE ~Rows!About(e, t)
    <3>1. s = seen /\ A = O
      BY <2>3, <2>7 DEF SeenAfter
    <3>2. (\E i \in O : c5[i].sort = "create") <=> \E i \in M : c5'[i].sort = "create"
      BY <2>1
    <3>3. (\E i \in O : c5[i].sort \in {"delete", "complete"}) =>
            \E i \in M : c5'[i].sort \in {"delete", "complete"}
      BY <2>1
    <3>4. M = {} <=> O = {}
      BY <2>1
    <3>5. ASSUME NEW i \in M, \A j \in M : j <= i
          PROVE  \A j \in O : j <= i + 1
      <4> TAKE j \in O
      <4>1. j \in Nat /\ j - 1 <= i /\ i \in Nat
        BY <2>1, <3>5
      <4> QED
        BY <4>1
    <3>6. ASSUME c2[t] \in Rows!Shown, t \notin c4, NEW i \in M
          PROVE  /\ c5'[i].sort \in {"create", "update"}
                 /\ (\A j \in M : j <= i) => c5'[i].row.status = c2[t]
      <4>1. i + 1 \in O /\ c5'[i] = c5[i + 1]
        BY <2>1
      <4>2. (\A j \in M : j <= i) => \A j \in O : j <= i + 1
        BY <3>5
      <4> QED
        BY <2>2, <3>1, <3>6, <4>1, <4>2
    <3> HIDE DEF s
    <3> QED
      BY <2>2, <2>6, <3>1, <3>2, <3>3, <3>4, <3>6 DEF M, s
  <2>8. CASE Rows!About(e, t)
    <3>1. A = O \cup {1} /\ c5[1] = e
      BY <2>3, <2>8
    <3>2. \A i \in M : c5'[i].sort # "create"
      BY <2>6, <2>8
    <3>3. c2[t] # "none"
      BY <2>2, <3>1
    <3>4. ASSUME c2[t] \in Rows!Shown, t \notin c4, NEW i \in M
          PROVE  /\ c5'[i].sort \in {"create", "update"}
                 /\ (\A j \in M : j <= i) => c5'[i].row.status = c2[t]
      <4>1. ASSUME \A j \in M : j <= i
            PROVE  \A j \in A : j <= i + 1
        <5> TAKE j \in A
        <5>1. CASE j = 1
          BY <2>1, <5>1
        <5>2. CASE j # 1
          <6>1. j \in O /\ j \in Nat /\ j - 1 <= i /\ i \in Nat
            BY <2>1, <3>1, <4>1, <5>2
          <6> QED
            BY <6>1
        <5> QED
          BY <5>1, <5>2
      <4>2. i + 1 \in A /\ c5'[i] = c5[i + 1]
        BY <2>1, <3>1
      <4> QED
        BY <2>2, <3>4, <4>1, <4>2
    <3>5. \A i \in O : c5[i].sort # "create"
      BY <2>1, <3>2
    <3>6. ASSUME c2[t] = "gone", s # {}
          PROVE  \E i \in M : c5'[i].sort \in {"delete", "complete"}
      <4>1. e.sort \in {"create", "update"} /\ (e.sort = "create" \/ seen # {})
        BY <2>8, <3>6 DEF SeenAfter
      <4>2. PICK i \in A : c5[i].sort \in {"delete", "complete"}
        BY <2>2, <3>1, <3>6, <4>1
      <4>3. i \in O
        BY <3>1, <4>1, <4>2
      <4> QED
        BY <2>1, <4>2, <4>3
    <3>7. ASSUME c2[t] \in Rows!Shown, t \notin c4
          PROVE  s # {} /\ (M = {} => s = {c2[t]})
      <4>1. e.sort \in {"create", "update"}
        BY <2>2, <3>1, <3>7
      <4>2. e.sort = "create" => seen = {}
        BY <2>2, <3>1
      <4>3. seen # {} \/ e.sort = "create"
        BY <2>2, <3>1, <3>5, <3>7
      <4>4. s = {e.row.status}
        BY <2>8, <4>1, <4>2, <4>3 DEF SeenAfter
      <4>5. M = {} => O = {}
        BY <2>1
      <4>6. M = {} => e.row.status = c2[t]
        <5> HAVE M = {}
        <5>1. A = {1}
          BY <3>1, <4>5
        <5>2. \A j \in A : j <= 1
          BY <5>1
        <5> QED
          BY <2>2, <3>1, <3>7, <5>1, <5>2
      <4> QED
        BY <4>4, <4>6
    <3> HIDE DEF s
    <3> QED
      BY <3>2, <3>3, <3>4, <3>6, <3>7 DEF M, s
  <2> QED
    BY <2>7, <2>8
<1> HIDE DEF T
<1> QED
  BY <1>1, <1>2, <1>3

-----------------------------------------------------------------------------
(* The list *)

\* What the list shows of each task is what the event makes of what it showed, every
\* task once if what is created was not there.
LEMMA ListedSees ==
  ASSUME c6 \in Seq([id : Tasks, status : Rows!Shown]),
           NEW e \in [sort : Rows!EventSorts, row : Rows!Rows],
         e.sort \in {"create", "update"} => e.row.status \in Rows!Shown, c6' = Rows!Listed(e)
  PROVE  /\ c6' \in Seq([id : Tasks, status : Rows!Shown])
         /\ \A i \in DOMAIN c6' :
              c6'[i].id = e.row.id \/ \E k \in DOMAIN c6 : c6'[i].id = c6[k].id
         /\ \A t : Rows!Seen(t)' = SeenAfter(e, t, Rows!Seen(t))
         /\ \A t : (Rows!About(e, t) /\ e.sort = "create" => Rows!Seen(t) = {})
              /\ (\A i, j \in Rows!Copies(t) : i = j)
                     => \A i, j \in Rows!Copies(t)' : i = j
<1> DEFINE R == [id : Tasks, status : Rows!Shown]
           L == Len(c6)
           new == L + 1
<1>1. c6 \in Seq(R) /\ L \in Nat /\ DOMAIN c6 = 1..L
  OBVIOUS
<1>2. \A t : Rows!Copies(t) = {i \in 1..L : c6[i].id = t}
  BY <1>1 DEF Rows!Copies
<1>3. e.sort \in Rows!EventSorts /\ e.row \in Rows!Rows /\ \A t : Rows!About(e, t) <=> e.row.id = t
  BY DEF Rows!About
<1> HIDE DEF R
<1>4. \A i \in 1..L : c6[i] \in R
  BY <1>1
<1>5. CASE e.sort = "create"
  <2>1. c6' = <<e.row>> \o c6 /\ e.row \in R
    BY <1>5 DEF Rows!Listed, R, Rows!Rows
  <2>2. c6' \in Seq(R) /\ Len(c6') = new /\ DOMAIN c6' = 1..new
        /\ c6'[1] = e.row /\ \A i \in 1..L : c6'[i + 1] = c6[i]
    BY <1>1, <2>1
  <2>3. \A i \in 1..new : i = 1 \/ (i - 1 \in 1..L /\ i - 1 + 1 = i /\ c6'[i] = c6[i - 1])
    <3> TAKE i \in 1..new
    <3>1. i = 1 \/ (i - 1 \in 1..L /\ i - 1 + 1 = i)
      BY <1>1
    <3> QED
      BY <2>2, <3>1
  <2>4. \A i \in 1..L : i + 1 \in 1..new /\ i + 1 # 1
    BY <1>1
  <2>5. 1 \in 1..new
    BY <1>1
  <2>6. ASSUME NEW t
        PROVE  Rows!Seen(t)' = SeenAfter(e, t, Rows!Seen(t))
    <3>1. Rows!Seen(t)' = {c6'[i].status : i \in {k \in 1..new : c6'[k].id = t}}
      BY <2>2 DEF Rows!Seen, Rows!Copies
    <3>2. Rows!Seen(t) = {c6[i].status : i \in {k \in 1..L : c6[k].id = t}}
      BY <1>2 DEF Rows!Seen
    <3>3. \A s : s \in Rows!Seen(t)' <=> (e.row.id = t /\ s = e.row.status) \/ s \in Rows!Seen(t)
      <4> TAKE s
      <4>1. ASSUME s \in Rows!Seen(t)'
            PROVE  (e.row.id = t /\ s = e.row.status) \/ s \in Rows!Seen(t)
        <5>1. PICK i \in 1..new : c6'[i].id = t /\ s = c6'[i].status
          BY <3>1, <4>1
        <5> QED
          BY <2>2, <2>3, <3>2, <5>1
      <4>2. ASSUME s \in Rows!Seen(t)
            PROVE  s \in Rows!Seen(t)'
        <5>1. PICK i \in 1..L : c6[i].id = t /\ s = c6[i].status
          BY <3>2, <4>2
        <5>2. i + 1 \in 1..new /\ c6'[i + 1].id = t /\ s = c6'[i + 1].status
          BY <2>2, <2>4, <5>1
        <5> QED
          BY <3>1, <5>2
      <4>3. e.row.id = t => e.row.status \in Rows!Seen(t)'
        BY <2>2, <2>5, <3>1
      <4> QED
        BY <4>1, <4>2, <4>3
    <3> HIDE DEF new
    <3> QED
      BY <1>3, <1>5, <3>3 DEF SeenAfter
  <2>7. ASSUME NEW t, Rows!About(e, t) => Rows!Seen(t) = {}, \A i, j \in Rows!Copies(t) : i = j
        PROVE  \A i, j \in Rows!Copies(t)' : i = j
    <3>1. Rows!Copies(t)' = {k \in 1..new : c6'[k].id = t}
      BY <2>2 DEF Rows!Copies
    <3>2. e.row.id = t => Rows!Copies(t) = {}
      BY <1>3, <2>7 DEF Rows!Seen
    <3>3. \A i \in Rows!Copies(t)' :
            (i = 1 /\ e.row.id = t) \/ (i - 1 \in Rows!Copies(t) /\ i \in Nat)
      BY <1>2, <2>2, <2>3, <3>1
    <3> QED
      BY <2>7, <3>2, <3>3
  <2>8. \A i \in DOMAIN c6' :
           c6'[i].id = e.row.id \/ \E k \in DOMAIN c6 : c6'[i].id = c6[k].id
    <3> TAKE i \in DOMAIN c6'
    <3>1. i \in 1..new
      BY <2>2
    <3>2. CASE i = 1
      BY <2>2, <3>2
    <3>3. CASE i # 1
      <4>1. i - 1 \in DOMAIN c6 /\ c6'[i] = c6[i - 1]
        BY <1>1, <2>3, <3>1, <3>3
      <4> QED
        BY <4>1
    <3> QED
      BY <3>2, <3>3
  <2> QED
    BY <1>5, <2>2, <2>6, <2>7, <2>8 DEF R
<1>6. CASE e.sort = "update"
  <2>1. c6' = [i \in 1..L |-> IF c6[i].id = e.row.id THEN e.row ELSE c6[i]] /\ e.row \in R
    BY <1>1, <1>6 DEF Rows!Listed, R, Rows!Rows
  <2>2. c6' \in Seq(R) /\ DOMAIN c6' = 1..L
    BY <1>1, <1>4, <2>1
  <2>3. \A i \in 1..L : c6'[i].id = c6[i].id
    BY <2>1
  <2>4. \A t : Rows!Copies(t)' = Rows!Copies(t)
    BY <1>2, <2>2, <2>3 DEF Rows!Copies
  <2>5. ASSUME NEW t
        PROVE  Rows!Seen(t)' = SeenAfter(e, t, Rows!Seen(t))
    <3>1. Rows!Seen(t)' = {c6'[i].status : i \in Rows!Copies(t)}
            /\ Rows!Seen(t) = {c6[i].status : i \in Rows!Copies(t)}
      BY <2>4 DEF Rows!Seen
    <3>2. CASE e.row.id = t
      <4>1. \A i \in Rows!Copies(t) : c6'[i].status = e.row.status
        BY <1>2, <2>1, <3>2
      <4>2. Rows!Copies(t) = {} <=> Rows!Seen(t) = {}
        <5>1. \A i \in Rows!Copies(t) : c6[i].status \in Rows!Seen(t)
          BY <3>1
        <5>2. \A s \in Rows!Seen(t) : \E i \in Rows!Copies(t) : TRUE
          BY <3>1
        <5> QED
          BY <5>1, <5>2
      <4>3. Rows!Seen(t)' = IF Rows!Copies(t) = {} THEN {} ELSE {e.row.status}
        BY <3>1, <4>1
      <4> QED
        BY <1>3, <1>6, <3>2, <4>2, <4>3 DEF SeenAfter
    <3>3. CASE e.row.id # t
      <4>1. \A i \in Rows!Copies(t) : c6'[i].status = c6[i].status
        BY <1>2, <2>1, <3>3
      <4> QED
        BY <1>3, <3>1, <3>3, <4>1 DEF SeenAfter
    <3> QED
      BY <3>2, <3>3
  <2> QED
    BY <1>1, <1>6, <2>2, <2>3, <2>4, <2>5 DEF R
<1>7. CASE e.sort \in {"delete", "complete"}
  <2>1. c6' = Rows!Without(e.row.id)
    BY <1>7 DEF Rows!Listed
  <2> DEFINE D == DOMAIN c6'
  <2>2. /\ c6' \in Seq(R)
        /\ \E at \in [D -> 1..L] :
              /\ \A k \in D : c6'[k] = c6[at[k]] /\ c6[at[k]].id # e.row.id
              /\ \A k, m \in D : at[k] = at[m] => k = m
              /\ \A i \in 1..L : c6[i].id # e.row.id => \E k \in D : at[k] = i
    <3> DEFINE W == Rows!Without(e.row.id)
    <3>1. /\ W \in Seq(R)
          /\ \E at \in [DOMAIN W -> DOMAIN c6] :
              /\ \A k \in DOMAIN W : W[k] = c6[at[k]] /\ c6[at[k]].id # e.row.id
              /\ \A k, m \in DOMAIN W : at[k] = at[m] => k = m
              /\ \A i \in DOMAIN c6 : c6[i].id # e.row.id => \E k \in DOMAIN W : at[k] = i
      BY <1>1, WithoutIs DEF R
    <3> HIDE DEF W
    <3>2. c6' = W
      BY <2>1 DEF W
    <3> HIDE DEF D
    <3>3. D = DOMAIN W
      BY <3>2 DEF D
    <3>4. c6' \in Seq(R)
      BY <3>1, <3>2
    <3> HIDE DEF L
    <3>5. PICK at \in [DOMAIN W -> DOMAIN c6] :
              /\ \A k \in DOMAIN W : W[k] = c6[at[k]] /\ c6[at[k]].id # e.row.id
              /\ \A k, m \in DOMAIN W : at[k] = at[m] => k = m
              /\ \A i \in DOMAIN c6 : c6[i].id # e.row.id => \E k \in DOMAIN W : at[k] = i
      BY <3>1
    <3>6. at \in [D -> 1..L]
      BY <1>1, <3>3, <3>5
    <3>7. /\ \A k \in D : c6'[k] = c6[at[k]] /\ c6[at[k]].id # e.row.id
          /\ \A k, m \in D : at[k] = at[m] => k = m
          /\ \A i \in 1..L : c6[i].id # e.row.id => \E k \in D : at[k] = i
      BY <1>1, <3>2, <3>3, <3>5
    <3> QED
      BY <3>4, <3>6, <3>7
  <2>3. PICK at \in [D -> 1..L] :
              /\ \A k \in D : c6'[k] = c6[at[k]] /\ c6[at[k]].id # e.row.id
              /\ \A k, m \in D : at[k] = at[m] => k = m
              /\ \A i \in 1..L : c6[i].id # e.row.id => \E k \in D : at[k] = i
    BY <2>2
  <2>4. \A t : Rows!Copies(t)' = {k \in D : c6'[k].id = t}
    BY DEF Rows!Copies
  <2> HIDE DEF D
  <2>5. ASSUME NEW t
        PROVE  Rows!Seen(t)' = SeenAfter(e, t, Rows!Seen(t))
    <3>1. Rows!Seen(t)' = {c6'[i].status : i \in {k \in D : c6'[k].id = t}}
      BY <2>4 DEF Rows!Seen
    <3>2. Rows!Seen(t) = {c6[i].status : i \in {k \in 1..L : c6[k].id = t}}
      BY <1>2 DEF Rows!Seen
    <3>3. e.row.id = t => Rows!Seen(t)' = {}
      BY <2>3, <3>1
    <3>4. ASSUME e.row.id # t
          PROVE  \A s : s \in Rows!Seen(t)' <=> s \in Rows!Seen(t)
      <4> TAKE s
      <4>1. ASSUME s \in Rows!Seen(t)'
            PROVE  s \in Rows!Seen(t)
        <5>1. PICK k \in D : c6'[k].id = t /\ s = c6'[k].status
          BY <3>1, <4>1
        <5>2. at[k] \in 1..L /\ c6[at[k]].id = t /\ s = c6[at[k]].status
          BY <2>3, <5>1
        <5> QED
          BY <3>2, <5>2
      <4>2. ASSUME s \in Rows!Seen(t)
            PROVE  s \in Rows!Seen(t)'
        <5>1. PICK i \in 1..L : c6[i].id = t /\ s = c6[i].status
          BY <3>2, <4>2
        <5>2. PICK k \in D : at[k] = i
          BY <2>3, <3>4, <5>1
        <5>3. c6'[k].id = t /\ s = c6'[k].status
          BY <2>3, <5>1, <5>2
        <5> QED
          BY <3>1, <5>3
      <4> QED
        BY <4>1, <4>2
    <3> QED
      BY <1>3, <1>7, <3>3, <3>4 DEF SeenAfter
  <2>6. ASSUME NEW t, \A i, j \in Rows!Copies(t) : i = j
        PROVE  \A i, j \in Rows!Copies(t)' : i = j
    <3>1. \A k \in Rows!Copies(t)' : k \in D /\ at[k] \in Rows!Copies(t)
      BY <1>2, <2>3, <2>4
    <3> QED
      BY <2>3, <2>6, <3>1
  <2>7. \A i \in DOMAIN c6' : \E k \in DOMAIN c6 : c6'[i].id = c6[k].id
    BY <1>1, <2>3 DEF D
  <2> QED
    BY <1>7, <2>2, <2>5, <2>6, <2>7 DEF R
<1> QED
  BY <1>3, <1>5, <1>6, <1>7 DEF Rows!EventSorts

\* An answer lists every row once.
LEMMA ReadSees ==
  ASSUME Rows!ListAssumption, NEW r, r.rows \in [Tasks -> Rows!Shown \cup Rows!Absent],
         NEW l \in [1..Rows!Cardinality({t \in Tasks : r.rows[t] \notin Rows!Absent}) -> Tasks],
         {l[i] : i \in DOMAIN l} = {t \in Tasks : r.rows[t] \notin Rows!Absent},
         c6' = [i \in DOMAIN l |-> Rows!Row(l[i], r.rows[l[i]])]
  PROVE  /\ c6' \in Seq([id : Tasks, status : Rows!Shown])
         /\ \A i \in DOMAIN c6' : r.rows[c6'[i].id] \notin Rows!Absent
         /\ \A t \in Tasks :
              Rows!Seen(t)' = {r.rows[t]} \ Rows!Absent /\ \A i, j \in Rows!Copies(t)' : i = j
<1> DEFINE S == {t \in Tasks : r.rows[t] \notin Rows!Absent}
           N == Cardinality(S)
<1>1. IsFiniteSet(S) /\ N \in Nat
  <2>1. S \in SUBSET Tasks
    OBVIOUS
  <2>2. IsFiniteSet(S)
    BY <2>1, SameSizes, FS_Subset DEF Rows!ListAssumption
  <2> QED
    BY <2>2, FS_CardinalityType
<1>2. \A t \in S : t \in Tasks /\ r.rows[t] \in Rows!Shown /\ r.rows[t] \notin Rows!Absent
  BY DEF Rows!Shown, Rows!Absent
<1>3. l \in [1..N -> S] /\ \A t \in S : \E i \in 1..N : l[i] = t
  BY SameSizes
<1> HIDE DEF S
<1>4. l \in Surjection(1..N, S)
  BY <1>3 DEF Surjection
<1>5. IsFiniteSet(1..N) /\ Cardinality(1..N) = N
  BY <1>1, FS_Interval
<1>6. l \in Injection(1..N, S)
  BY <1>4, <1>5, FS_SurjSameCardinalityImpliesInj
<1>7. \A i, j \in 1..N : l[i] = l[j] => i = j
  BY <1>6 DEF Injection, IsInjective
<1>8. /\ c6' = [i \in 1..N |-> Rows!Row(l[i], r.rows[l[i]])] /\ DOMAIN c6' = 1..N
      /\ \A i \in 1..N : /\ c6'[i] \in [id : Tasks, status : Rows!Shown]
                         /\ c6'[i].id = l[i] /\ c6'[i].status = r.rows[l[i]]
  BY <1>2, <1>3 DEF Rows!Row
<1>9. c6' \in Seq([id : Tasks, status : Rows!Shown])
  <2> DEFINE R == [id : Tasks, status : Rows!Shown]
  <2>1. \A i \in 1..N : c6'[i] \in R
    BY <1>8
  <2> HIDE DEF R, N
  <2>2. c6' \in [1..N -> R]
    BY <1>8, <2>1
  <2>3. N \in Nat
    BY <1>1
  <2>4. \A n \in Nat : [1..n -> R] \subseteq Seq(R)
    BY SeqDef
  <2>5. c6' \in Seq(R)
    BY <2>2, <2>3, <2>4
  <2> QED
    BY <2>5 DEF R
<1>10. ASSUME NEW t \in Tasks
       PROVE  Rows!Seen(t)' = {r.rows[t]} \ Rows!Absent /\ \A i, j \in Rows!Copies(t)' : i = j
  <2>1. Rows!Copies(t)' = {i \in 1..N : l[i] = t}
    BY <1>8 DEF Rows!Copies
  <2>2. Rows!Seen(t)' = {c6'[i].status : i \in {k \in 1..N : l[k] = t}}
    BY <2>1 DEF Rows!Seen
  <2> HIDE DEF N
  <2>3. ASSUME NEW s \in Rows!Seen(t)'
        PROVE  s = r.rows[t] /\ t \in S
    <3>1. PICK i \in 1..N : l[i] = t /\ s = c6'[i].status
      BY <2>2
    <3> QED
      BY <1>3, <1>8, <3>1
  <2>4. ASSUME t \in S
        PROVE  r.rows[t] \in Rows!Seen(t)'
    <3>1. PICK i \in 1..N : l[i] = t
      BY <1>3, <2>4
    <3>2. c6'[i].status = r.rows[t]
      BY <1>8, <3>1
    <3> QED
      BY <2>2, <3>1, <3>2
  <2>5. t \in S <=> r.rows[t] \notin Rows!Absent
    BY DEF S
  <2> QED
    BY <1>7, <2>1, <2>3, <2>4, <2>5
<1> QED
  BY <1>2, <1>3, <1>8, <1>9, <1>10

-----------------------------------------------------------------------------
(* The server *)

\* What an event tells of a task, and what is left untold.
RowTells(e, t) ==
  /\ Rows!About(e, t) =>
       \/ /\ e.sort = "update" /\ c2[t] \in Rows!Shown /\ c2'[t] \in Rows!Shown
          /\ e.row.status = c2'[t] /\ (t \in c4 => t \in c4')
       \/ e.sort = "create" /\ c2[t] = "none" /\ c2'[t] \in Rows!Shown /\ e.row.status = c2'[t]
       \/ /\ e.sort \in {"delete", "complete"} /\ c2[t] # "none"
          /\ c2'[t] = "gone" \/ (c2'[t] \in Rows!Shown /\ c2[t] # "gone" /\ t \in c4')
  /\ ~Rows!About(e, t) => c2'[t] = c2[t] /\ (t \in c4 => t \in c4' \/ c2[t] = "gone")

\* What no step on the server changes, and what none does: undo a creation.
PageRests == UNCHANGED <<c1, c6, c7, c8, c9, c13, c15>>
RowsGoOn ==
  /\ c2' \in [Tasks -> Rows!Shown \cup Rows!Absent] /\ c3' \subseteq Tasks
  /\ c17' \in [Tasks -> {"none", "submitted", "begun", "unwinding"}] /\ c4' \subseteq Tasks
  /\ c3' \cap {t \in Tasks : c2'[t] \in Rows!Absent} = {}
  /\ \A t \in Tasks : c2[t] # "none" => c2'[t] # "none"
  /\ \A t \in c4' : c2'[t] # "none"

LEMMA Rests ==
  ASSUME Rows!RowsInv, PageRests, RowsGoOn, c12' \subseteq c12, c5' \in Seq(Rows!Events),
         \A i \in DOMAIN c5' : c5'[i].sort \in Rows!EventSorts => c2'[c5'[i].row.id] # "none"
  PROVE  Rows!TypeOK' /\ Rows!Born'
<1>1. Rows!TypeOK'
  BY DEF Rows!RowsInv, Rows!TypeOK, PageRests, RowsGoOn, Rows!Absent, Rows!Shown, Rows!Readings
<1>2. Rows!Born'
  <2>1. c13 \subseteq Tasks /\ (\A r \in c12 : r.id \in Tasks)
        /\ \A i \in DOMAIN c6 : c6[i].id \in Tasks
    <3> DEFINE R == [id : Tasks, status : Rows!Shown]
    <3>1. c6 \in Seq(R)
      BY DEF Rows!RowsInv, Rows!TypeOK
    <3> HIDE DEF R
    <3>2. \A i \in DOMAIN c6 : c6[i] \in R
      BY <3>1
    <3> QED
      BY <3>2 DEF Rows!RowsInv, Rows!TypeOK, Rows!Requests, R
  <2> QED
    BY <2>1 DEF Rows!RowsInv, Rows!Born, PageRests, RowsGoOn, Rows!Absent
<1> QED
  BY <1>1, <1>2

LEMMA Sends ==
  ASSUME Rows!RowsInv, PageRests, RowsGoOn, c12' \subseteq c12,
         NEW e \in Rows!Events, Rows!Send(e), \A t \in Tasks : RowTells(e, t),
         e.sort \in {"create", "update"} => e.row.status \in Rows!Shown
  PROVE  Rows!RowsInv'
<1>1. c5 \in Seq(Rows!Events) /\ Len(c5) \in Nat
  BY DEF Rows!RowsInv, Rows!TypeOK
<1>2. c5' \in Seq(Rows!Events)
  BY <1>1 DEF Rows!Send
<1>3. Rows!TypeOK' /\ Rows!Born'
  <2>1. \A i \in DOMAIN c5 : c5[i].sort \in Rows!EventSorts =>
           c5[i].row.id \in Tasks /\ c2[c5[i].row.id] # "none"
    <3> TAKE i \in DOMAIN c5
    <3>1. c5[i] \in Rows!Events
      BY <1>1
    <3> QED
      BY <3>1, ListEventsAre DEF Rows!RowsInv, Rows!Born, Rows!Rows
  <2>2. \A i \in DOMAIN c5 : c5[i].sort \in Rows!EventSorts => c2'[c5[i].row.id] # "none"
    BY <2>1 DEF RowsGoOn
  <2>3. CASE ~c8
    BY <1>2, <2>2, <2>3, Rests DEF Rows!Send
  <2>4. CASE c8
    <3>1. c5' = Append(c5, e)
      BY <2>4 DEF Rows!Send
    <3>2. \A i \in DOMAIN c5' : i \in DOMAIN c5 \/ i = Len(c5) + 1
      BY <1>1, <3>1
    <3>3. c5'[Len(c5) + 1] = e /\ \A i \in DOMAIN c5 : c5'[i] = c5[i]
      BY <1>1, <3>1
    <3>4. e.sort \in Rows!EventSorts => c2'[e.row.id] # "none"
      <4> HAVE e.sort \in Rows!EventSorts
      <4>1. e.row.id \in Tasks /\ Rows!About(e, e.row.id)
        BY ListEventsAre DEF Rows!Rows, Rows!About
      <4> QED
        BY <4>1 DEF RowTells, Rows!Shown
    <3>5. \A i \in DOMAIN c5' : c5'[i].sort \in Rows!EventSorts => c2'[c5'[i].row.id] # "none"
      BY <2>2, <3>2, <3>3, <3>4
    <3> QED
      BY <1>2, <3>5, Rests
  <2> QED
    BY <2>3, <2>4
<1>4. Rows!OfflineIsBehind'
  BY DEF Rows!RowsInv, Rows!OfflineIsBehind, Rows!Send, PageRests
<1>5. \A i \in DOMAIN c5' : c5'[i].sort \in {"create", "update"} => c5'[i].row.status \in Rows!Shown
  <2>1. CASE c8
    <3>1. c5' = Append(c5, e)
      BY <2>1 DEF Rows!Send
    <3>2. \A i \in DOMAIN c5' : i \in DOMAIN c5 \/ i = Len(c5) + 1
      BY <1>1, <3>1
    <3>3. c5'[Len(c5) + 1] = e /\ \A i \in DOMAIN c5 : c5'[i] = c5[i]
      BY <1>1, <3>1
    <3> QED
      BY <3>2, <3>3 DEF Rows!RowsInv
  <2>2. CASE ~c8
    BY <2>2 DEF Rows!Send, Rows!RowsInv
  <2> QED
    BY <2>1, <2>2
<1>6. CASE ~c8
  <2>1. c15 /\ \A r \in c7 : r.at = "answered" => r.ahead < 0 /\ r.ahead \in Int
    BY <1>6 DEF Rows!RowsInv, Rows!OfflineIsBehind, Rows!TypeOK, Rows!Readings
  <2>2. Rows!ListTracks' /\ Rows!AnswersTrack'
    BY <2>1 DEF Rows!ListTracks, Rows!AnswersTrack, PageRests
  <2> QED
    BY <1>3, <1>4, <1>5, <2>2 DEF Rows!RowsInv
<1>7. CASE c8
  <2>1. c5' = Append(c5, e) /\ Len(c5') = Len(c5) + 1
    BY <1>1, <1>7 DEF Rows!Send
  <2>2. \A t \in Tasks : c2[t] \in Rows!Shown \cup Rows!Absent
    BY DEF Rows!RowsInv, Rows!TypeOK
  <2>3. ASSUME NEW t \in Tasks, NEW n \in 0..Len(c5), NEW seen, Rows!Tracks(n, t, seen)
        PROVE  Rows!Tracks(n, t, seen)'
    BY <1>1, <2>1, <2>2, <2>3, SentTracks DEF RowTells
  <2>4. Rows!AnswersTrack'
    <3> SUFFICES ASSUME NEW r \in c7, r.at = "answered", r.ahead >= 0
                 PROVE  r.ahead <= Len(c5') /\ \A t \in Tasks :
                          Rows!Tracks(r.ahead, t, {r.rows[t]} \ Rows!Absent)'
      BY DEF Rows!AnswersTrack, PageRests, Rows!Absent
    <3>1. r.ahead \in Int /\ r.ahead <= Len(c5) /\ \A t \in Tasks :
            Rows!Tracks(r.ahead, t, {r.rows[t]} \ Rows!Absent)
      BY DEF Rows!RowsInv, Rows!AnswersTrack, Rows!TypeOK, Rows!Readings
    <3>2. r.ahead \in 0..Len(c5) /\ r.ahead <= Len(c5')
      BY <1>1, <2>1, <3>1
    <3> QED
      BY <2>3, <3>1, <3>2
  <2>5. Rows!ListTracks'
    <3> SUFFICES ASSUME ~c15, NEW t \in Tasks
                 PROVE  Rows!Tracks(0, t, Rows!Seen(t))' /\ \A i, j \in Rows!Copies(t)' : i = j
      BY DEF Rows!ListTracks, PageRests
    <3>1. Rows!Tracks(0, t, Rows!Seen(t)) /\ (\A i, j \in Rows!Copies(t) : i = j)
            /\ 0 \in 0..Len(c5)
      BY <1>1 DEF Rows!RowsInv, Rows!ListTracks
    <3>2. Rows!Copies(t)' = Rows!Copies(t) /\ Rows!Seen(t)' = Rows!Seen(t)
      BY DEF Rows!Copies, Rows!Seen, PageRests
    <3>3. PICK seen : seen = Rows!Seen(t)
      OBVIOUS
    <3>4. Rows!Tracks(0, t, seen)'
      BY <2>3, <3>1, <3>3
    <3>5. Rows!Tracks(0, t, Rows!Seen(t))'
      BY <3>2, <3>3, <3>4 DEF Rows!Tracks
    <3> QED
      BY <3>1, <3>2, <3>5
  <2> QED
    BY <1>3, <1>4, <1>5, <2>4, <2>5 DEF Rows!RowsInv
<1> QED
  BY <1>6, <1>7

LEMMA Quiet ==
  ASSUME Rows!RowsInv, PageRests, RowsGoOn, c12' \subseteq c12, c5' = c5,
         \A t \in Tasks : c2'[t] = c2[t] /\ (t \in c4 => t \in c4' \/ c2[t] = "gone")
  PROVE  Rows!RowsInv'
<1>1. c5' \in Seq(Rows!Events)
  BY DEF Rows!RowsInv, Rows!TypeOK
<1>2. Rows!TypeOK' /\ Rows!Born'
  <2>1. \A i \in DOMAIN c5 : c5[i].sort \in Rows!EventSorts => c2'[c5[i].row.id] # "none"
    <3> TAKE i \in DOMAIN c5
    <3>1. c5[i] \in Rows!Events
      BY DEF Rows!RowsInv, Rows!TypeOK
    <3> QED
      BY <3>1, ListEventsAre DEF Rows!RowsInv, Rows!Born, Rows!Rows
  <2> QED
    BY <1>1, <2>1, Rests
<1>3. ASSUME NEW t \in Tasks, NEW n, NEW seen, Rows!Tracks(n, t, seen)
      PROVE  Rows!Tracks(n, t, seen)'
  BY <1>3, StillTracks
<1>4. Rows!AnswersTrack'
  <2> SUFFICES ASSUME NEW r \in c7, r.at = "answered", r.ahead >= 0
               PROVE  r.ahead <= Len(c5') /\ \A t \in Tasks :
                        Rows!Tracks(r.ahead, t, {r.rows[t]} \ Rows!Absent)'
    BY DEF Rows!AnswersTrack, PageRests, Rows!Absent
  <2> QED
    BY <1>3 DEF Rows!RowsInv, Rows!AnswersTrack
<1>5. Rows!ListTracks'
  <2> SUFFICES ASSUME ~c15, NEW t \in Tasks
               PROVE  Rows!Tracks(0, t, Rows!Seen(t))' /\ \A i, j \in Rows!Copies(t)' : i = j
    BY DEF Rows!ListTracks, PageRests
  <2>1. Rows!Tracks(0, t, Rows!Seen(t)) /\ (\A i, j \in Rows!Copies(t) : i = j)
    BY DEF Rows!RowsInv, Rows!ListTracks
  <2>2. Rows!Copies(t)' = Rows!Copies(t) /\ Rows!Seen(t)' = Rows!Seen(t)
    BY DEF Rows!Copies, Rows!Seen, PageRests
  <2>3. PICK seen : seen = Rows!Seen(t)
    OBVIOUS
  <2>4. Rows!Tracks(0, t, seen)'
    BY <1>3, <2>1, <2>3
  <2>5. Rows!Tracks(0, t, Rows!Seen(t))'
    BY <2>2, <2>3, <2>4 DEF Rows!Tracks
  <2> QED
    BY <2>1, <2>2, <2>5
<1> QED
  BY <1>2, <1>4, <1>5 DEF Rows!RowsInv, Rows!OfflineIsBehind, PageRests

\* A step that leaves the requests, and holds nothing new.
LEMMA HeldStays ==
  ASSUME Rows!RowsInv, Rows!PausesRemembered, c14' \subseteq c14,
         UNCHANGED <<c12, c13, c16>>,
         \A t \in Tasks : Rows!Known(t)' => c2[t] # "gone",
         \A t \in c14' : Rows!Known(t) => Rows!Known(t)'
  PROVE  Rows!PausesRemembered'
<1>1. \A t : Rows!Remembered(t)' = Rows!Remembered(t)
  BY DEF Rows!Remembered, Rows!Ask
<1>2. \A r \in c12 : r.id \in Tasks /\ c2[r.id] # "none"
  BY DEF Rows!RowsInv, Rows!TypeOK, Rows!Born, Rows!Requests
<1>3. \A r \in c12 : Rows!Known(r.id)' => Rows!Known(r.id)
  BY <1>2 DEF Rows!Known, Rows!Absent
<1> QED
  BY <1>1, <1>3 DEF Rows!PausesRemembered

\* An event about a task says nothing of the others.
LEMMA EventOf ==
  ASSUME NEW t \in Tasks, NEW sort \in Rows!EventSorts, NEW s \in Rows!Shown \cup {"gone"}
  PROVE  /\ [sort |-> sort, row |-> Rows!Row(t, s)] \in Rows!Events
         /\ \A u : Rows!About([sort |-> sort, row |-> Rows!Row(t, s)], u) <=> u = t
BY DEF Rows!Events, Rows!Rows, Rows!Row, Rows!About

\* The step of a task: it is created, its status changes, it ends.
LEMMA Updates ==
  ASSUME Rows!RowsInv, PageRests, NEW t \in Tasks, c2[t] \notin Rows!Absent, NEW s \in Rows!Shown,
         c2' = [c2 EXCEPT ![t] = s], Rows!Send([sort |-> "update", row |-> Rows!Row(t, s)]),
         c4' = c4, c3' \subseteq c3,
         c17' \in [Tasks -> {"none", "submitted", "begun", "unwinding"}], c12' \subseteq c12
  PROVE  Rows!RowsInv'
<1> DEFINE e == [sort |-> "update", row |-> Rows!Row(t, s)]
<1>1. e \in Rows!Events /\ \A u : Rows!About(e, u) <=> u = t
  BY EventOf DEF Rows!EventSorts
<1>2. e.sort = "update" /\ e.row.status = s
  BY DEF Rows!Row
<1>3. /\ c2 \in [Tasks -> Rows!Shown \cup Rows!Absent] /\ c3 \subseteq Tasks /\ c4 \subseteq Tasks
      /\ c3 \cap {u \in Tasks : c2[u] \in Rows!Absent} = {} /\ \A u \in c4 : c2[u] # "none"
  BY DEF Rows!RowsInv, Rows!TypeOK, Rows!Born
<1>4. s # "none" /\ s \notin Rows!Absent /\ c2[t] \in Rows!Shown
  BY <1>3 DEF Rows!Shown, Rows!Absent
<1>5. RowsGoOn
  BY <1>3, <1>4 DEF RowsGoOn
<1> HIDE DEF e
<1>6. \A u \in Tasks : RowTells(e, u)
  BY <1>1, <1>2, <1>3, <1>4 DEF RowTells
<1>7. Rows!Send(e)
  BY DEF e
<1> QED
  BY <1>1, <1>2, <1>5, <1>6, <1>7, Sends

LEMMA EndTells ==
  ASSUME Rows!RowsInv, PageRests, NEW t \in Tasks, c2[t] # "none",
           NEW sort \in {"delete", "complete"},
         c2' = [c2 EXCEPT ![t] = "gone"], Rows!Send([sort |-> sort, row |-> Rows!Row(t, "gone")]),
         c4 \ {t} \subseteq c4', c4' \subseteq c4, c3' = c3 \ {t},
         c17' = c17, c12' = c12
  PROVE  Rows!RowsInv'
<1> DEFINE e == [sort |-> sort, row |-> Rows!Row(t, "gone")]
<1>1. e \in Rows!Events /\ \A u : Rows!About(e, u) <=> u = t
  BY EventOf DEF Rows!EventSorts
<1>2. e.sort = sort
  OBVIOUS
<1>3. /\ c2 \in [Tasks -> Rows!Shown \cup Rows!Absent] /\ c3 \subseteq Tasks /\ c4 \subseteq Tasks
      /\ c17 \in [Tasks -> {"none", "submitted", "begun", "unwinding"}]
      /\ c3 \cap {u \in Tasks : c2[u] \in Rows!Absent} = {} /\ \A u \in c4 : c2[u] # "none"
  BY DEF Rows!RowsInv, Rows!TypeOK, Rows!Born
<1>4. "gone" \in Rows!Absent
  BY DEF Rows!Absent
<1>5. RowsGoOn
  BY <1>3, <1>4 DEF RowsGoOn
<1> HIDE DEF e
<1>6. \A u \in Tasks : RowTells(e, u)
  BY <1>1, <1>2, <1>3 DEF RowTells
<1>7. Rows!Send(e)
  BY DEF e
<1> QED
  BY <1>1, <1>2, <1>5, <1>6, <1>7, Sends

LEMMA RowCreated ==
  ASSUME Rows!RowsInv, NEW t \in Tasks, Rows!Create(t)
  PROVE  Rows!RowsInv'
<1> DEFINE s == IF t \in c1 THEN "doing" ELSE "pause"
           e == [sort |-> "create", row |-> Rows!Row(t, s)]
<1>1. s \in Rows!Shown /\ s \notin Rows!Absent /\ s # "none"
  BY DEF Rows!Shown, Rows!Absent
<1> HIDE DEF s
<1>2. e \in Rows!Events /\ \A u : Rows!About(e, u) <=> u = t
  BY <1>1, EventOf DEF Rows!EventSorts
<1>3. e.sort = "create" /\ e.row.status = s
  BY DEF Rows!Row
<1>4. /\ c2 \in [Tasks -> Rows!Shown \cup Rows!Absent] /\ c3 \subseteq Tasks /\ c4 \subseteq Tasks
      /\ c17 \in [Tasks -> {"none", "submitted", "begun", "unwinding"}]
      /\ c3 \cap {u \in Tasks : c2[u] \in Rows!Absent} = {} /\ \A u \in c4 : c2[u] # "none"
  BY DEF Rows!RowsInv, Rows!TypeOK, Rows!Born
<1> HIDE DEF e
<1>5. /\ c2[t] = "none" /\ c2' = [c2 EXCEPT ![t] = s] /\ Rows!Send(e) /\ c3' = c3 \cup {t}
      /\ c4' = c4 /\ c17' = c17 /\ c12' = c12 /\ PageRests
  BY DEF Rows!Create, PageRests, s, e, Rows!past
<1>6. RowsGoOn
  BY <1>1, <1>4, <1>5 DEF RowsGoOn
<1>7. \A u \in Tasks : RowTells(e, u)
  BY <1>1, <1>2, <1>3, <1>4, <1>5 DEF RowTells
<1> QED
  BY <1>1, <1>2, <1>3, <1>5, <1>6, <1>7, Sends

\* Nothing that the rows or the list say changes.
LEMMA RequestsOnly ==
  ASSUME Rows!RowsInv, PageRests, UNCHANGED <<c2, c4, c5>>, c3' \subseteq Tasks,
         c3' \cap {t \in Tasks : c2[t] \in Rows!Absent} = {},
         c17' \in [Tasks -> {"none", "submitted", "begun", "unwinding"}], c12' \subseteq c12
  PROVE  Rows!RowsInv'
<1>1. RowsGoOn
  BY DEF RowsGoOn, Rows!RowsInv, Rows!TypeOK, Rows!Born
<1> QED
  BY <1>1, Quiet

LEMMA ServerRows ==
  ASSUME Rows!RowsInv, NEW t \in Tasks,
         \/ Rows!Create(t) \/ Rows!Starts(t) \/ Rows!Fails(t) \/ Rows!StrayBegins(t)
              \/ Rows!StrayFails(t) \/ Rows!Unwinds(t)
         \/ Rows!Completes(t) \/ Rows!UploadEnds(t) \/ Rows!DeleteEnds(t)
  PROVE  Rows!RowsInv'
<1>1. /\ c2 \in [Tasks -> Rows!Shown \cup Rows!Absent] /\ c3 \subseteq Tasks /\ c4 \subseteq Tasks
      /\ c17 \in [Tasks -> {"none", "submitted", "begun", "unwinding"}]
      /\ c3 \cap {u \in Tasks : c2[u] \in Rows!Absent} = {} /\ \A u \in c4 : c2[u] # "none"
  BY DEF Rows!RowsInv, Rows!TypeOK, Rows!Born
<1>2. "doing" \in Rows!Shown /\ "pause" \in Rows!Shown /\ \A u \in c3 :
        c2[u] \notin Rows!Absent /\ c2[u] # "none"
  BY <1>1 DEF Rows!Shown, Rows!Absent
<1>3. CASE Rows!Create(t)
  BY <1>3, RowCreated
<1>4. CASE Rows!Starts(t) \/ Rows!Fails(t)
  <2>1. PICK s \in Rows!Shown : Rows!Report(t, s)
    BY <1>2, <1>4 DEF Rows!Starts, Rows!Fails
  <2>2. /\ t \in c3 /\ c2' = [c2 EXCEPT ![t] = s]
             /\ Rows!Send([sort |-> "update", row |-> Rows!Row(t, s)])
        /\ c4' = c4 /\ c12' = c12 /\ PageRests
    BY <2>1 DEF Rows!Report, PageRests, Rows!past
  <2>3. c3' \subseteq c3 /\ c17' \in [Tasks -> {"none", "submitted", "begun", "unwinding"}]
    BY <1>1, <1>4 DEF Rows!Starts, Rows!Fails
  <2> QED
    BY <1>1, <1>2, <2>2, <2>3, Updates
<1>5. CASE Rows!StrayBegins(t)
  <2>1. UNCHANGED <<c3, c4, c12>> /\ PageRests
    BY <1>5 DEF Rows!StrayBegins, PageRests, Rows!past
  <2>2. CASE c2[t] \in Rows!Absent
    <3>1. c17' = [c17 EXCEPT ![t] = "none"] /\ UNCHANGED <<c2, c5>>
      BY <1>5, <2>2 DEF Rows!StrayBegins
    <3>2. c17' \in [Tasks -> {"none", "submitted", "begun", "unwinding"}]
      BY <1>1, <3>1
    <3> QED
      BY <1>1, <2>1, <3>1, <3>2, RequestsOnly
  <2>3. CASE c2[t] \notin Rows!Absent
    <3>1. /\ c17' = [c17 EXCEPT ![t] = "begun"] /\ c2' = [c2 EXCEPT ![t] = "doing"]
          /\ Rows!Send([sort |-> "update", row |-> Rows!Row(t, "doing")])
      BY <1>5, <2>3 DEF Rows!StrayBegins
    <3>2. c17' \in [Tasks -> {"none", "submitted", "begun", "unwinding"}]
      BY <1>1, <3>1
    <3> QED
      BY <1>2, <2>1, <2>3, <3>1, <3>2, Updates
  <2> QED
    BY <2>2, <2>3
<1>6. CASE Rows!StrayFails(t)
  <2>1. UNCHANGED <<c3, c4, c12>> /\ PageRests /\ c17' = [c17 EXCEPT ![t] = "unwinding"]
    BY <1>6 DEF Rows!StrayFails, PageRests, Rows!past
  <2>2. c17' \in [Tasks -> {"none", "submitted", "begun", "unwinding"}]
    BY <1>1, <2>1
  <2>3. CASE c2[t] \in Rows!Absent
    <3>1. UNCHANGED <<c2, c5>>
      BY <1>6, <2>3 DEF Rows!StrayFails
    <3> QED
      BY <1>1, <2>1, <2>2, <3>1, RequestsOnly
  <2>4. CASE c2[t] \notin Rows!Absent
    <3>1. /\ c2' = [c2 EXCEPT ![t] = "pause"]
               /\ Rows!Send([sort |-> "update", row |-> Rows!Row(t, "pause")])
      BY <1>6, <2>4 DEF Rows!StrayFails
    <3> QED
      BY <1>2, <2>1, <2>2, <2>4, <3>1, Updates
  <2> QED
    BY <2>3, <2>4
<1>7. CASE Rows!Completes(t) \/ Rows!UploadEnds(t)
  <2>1. PICK sort \in {"delete", "complete"} : Rows!Ends(t, sort)
    BY <1>7 DEF Rows!Completes, Rows!UploadEnds
  <2>2. t \in c3 /\ c4' = c4
    BY <1>7 DEF Rows!Completes, Rows!UploadEnds
  <2>3. PageRests /\ c17' = c17 /\ c12' = c12 /\ c3' = c3 \ {t}
        /\ c2' = [c2 EXCEPT ![t] = "gone"]
             /\ Rows!Send([sort |-> sort, row |-> Rows!Row(t, "gone")])
    BY <2>1 DEF Rows!Ends, PageRests, Rows!past
  <2> QED
    BY <1>2, <2>2, <2>3, EndTells
<1>8. CASE Rows!DeleteEnds(t)
  <2>1. t \in c4 /\ c4' = c4 \ {t} /\ c2[t] # "none"
    BY <1>1, <1>8 DEF Rows!DeleteEnds
  <2>2. CASE c2[t] \notin Rows!Absent
    <3>1. Rows!Ends(t, "delete")
      BY <1>8, <2>2 DEF Rows!DeleteEnds
    <3>2. PageRests /\ c17' = c17 /\ c12' = c12 /\ c3' = c3 \ {t}
          /\ c2' = [c2 EXCEPT ![t] = "gone"]
               /\ Rows!Send([sort |-> "delete", row |-> Rows!Row(t, "gone")])
      BY <3>1 DEF Rows!Ends, PageRests, Rows!past
    <3> QED
      BY <2>1, <3>2, EndTells
  <2>3. CASE c2[t] \in Rows!Absent
    <3>1. /\ Rows!Send([sort |-> "delete", row |-> Rows!Row(t, "gone")]) /\ PageRests
          /\ UNCHANGED <<c2, c3, c17, c12>>
      BY <1>8, <2>3 DEF Rows!DeleteEnds, PageRests, Rows!past
    <3>2. c2[t] = "gone" /\ t \notin c3
      BY <1>1, <2>1, <2>3 DEF Rows!Absent
    <3>3. c2' = [c2 EXCEPT ![t] = "gone"] /\ c3' = c3 \ {t}
      BY <1>1, <3>1, <3>2
    <3> QED
      BY <2>1, <3>1, <3>3, EndTells
  <2> QED
    BY <2>2, <2>3
<1>9. CASE Rows!Unwinds(t)
  <2>1. UNCHANGED <<c2, c3, c4, c5, c12>> /\ PageRests /\ c17' = [c17 EXCEPT ![t] = "none"]
    BY <1>9 DEF Rows!Unwinds, PageRests, Rows!past
  <2>2. c17' \in [Tasks -> {"none", "submitted", "begun", "unwinding"}]
    BY <1>1, <2>1
  <2> QED
    BY <1>1, <2>1, <2>2, RequestsOnly
<1> QED
  BY <1>3, <1>4, <1>5, <1>6, <1>7, <1>8, <1>9

LEMMA RequestRows ==
  ASSUME Rows!RowsInv, NEW r \in c12, Rows!Refused(r) \/ Rows!Lost(r) \/ Rows!Paused(r)
           \/ Rows!Resumed(r) \/ Rows!Deleted(r)
  PROVE  Rows!RowsInv'
<1>1. /\ c2 \in [Tasks -> Rows!Shown \cup Rows!Absent] /\ c3 \subseteq Tasks /\ c4 \subseteq Tasks
      /\ c17 \in [Tasks -> {"none", "submitted", "begun", "unwinding"}] /\ r.id \in Tasks
      /\ c3 \cap {u \in Tasks : c2[u] \in Rows!Absent} = {} /\ \A u \in c4 : c2[u] # "none"
  BY DEF Rows!RowsInv, Rows!TypeOK, Rows!Born, Rows!Requests
<1>2. c12' \subseteq c12
  BY DEF Rows!Refused, Rows!Lost, Rows!Paused, Rows!Resumed, Rows!Deleted, Rows!Handle
<1>3. CASE Rows!Refused(r) \/ Rows!Lost(r)
  BY <1>1, <1>2, <1>3, RequestsOnly
     DEF Rows!Refused, Rows!Lost, Rows!Handle, PageRests, Rows!server
<1>4. CASE Rows!Paused(r)
  <2>1. /\ c2[r.id] \notin Rows!Absent /\ c2' = [c2 EXCEPT ![r.id] = "pause"]
        /\ c3' \subseteq c3 /\ (c17' = c17 \/ c17' = [c17 EXCEPT ![r.id] = "unwinding"])
        /\ Rows!Send([sort |-> "update", row |-> Rows!Row(r.id, "pause")]) /\ c4' = c4 /\ PageRests
    BY <1>4 DEF Rows!Paused, Rows!Known, Rows!Cancel, Rows!Handle, PageRests
  <2>2. c17' \in [Tasks -> {"none", "submitted", "begun", "unwinding"}] /\ "pause" \in Rows!Shown
    BY <1>1, <2>1 DEF Rows!Shown
  <2> QED
    BY <1>1, <1>2, <2>1, <2>2, Updates
<1>5. CASE Rows!Resumed(r)
  <2>1. /\ c2[r.id] \notin Rows!Absent /\ (c3' = c3 \/ c3' = c3 \cup ({r.id} \ c1))
        /\ UNCHANGED <<c2, c4, c5>> /\ PageRests
        /\ c17' = c17 \/ c17' = [c17 EXCEPT ![r.id] = "submitted"]
    BY <1>5 DEF Rows!Resumed, Rows!Resumes, Rows!Known, Rows!Handle, PageRests
  <2>2. c17' \in [Tasks -> {"none", "submitted", "begun", "unwinding"}]
    BY <1>1, <2>1
  <2>3. c3' \subseteq Tasks /\ c3' \cap {t \in Tasks : c2[t] \in Rows!Absent} = {}
    BY <1>1, <2>1
  <2> QED
    BY <1>2, <2>1, <2>2, <2>3, RequestsOnly
<1>6. CASE Rows!Deleted(r)
  <2> DEFINE t == r.id
             s == IF c2[t] = "doing" THEN "pause" ELSE "waiting"
             e == [sort |-> "delete", row |-> Rows!Row(t, "gone")]
  <2>1. /\ c2[t] \notin Rows!Absent /\ c2' = [c2 EXCEPT ![t] = s] /\ c3' \subseteq c3
        /\ c17' = c17 \/ c17' = [c17 EXCEPT ![t] = "unwinding"]
        /\ c4' = c4 \cup {t} /\ Rows!Send(e) /\ PageRests
    BY <1>6 DEF Rows!Deleted, Rows!Known, Rows!Cancel, Rows!Handle, PageRests
  <2>2. s \in Rows!Shown /\ s \notin Rows!Absent /\ s # "none" /\ t \in Tasks
    BY <1>1 DEF Rows!Shown, Rows!Absent
  <2>3. e \in Rows!Events /\ (\A u : Rows!About(e, u) <=> u = t) /\ e.sort = "delete"
    BY <1>1, EventOf DEF Rows!EventSorts
  <2> HIDE DEF s, e
  <2>4. c17' \in [Tasks -> {"none", "submitted", "begun", "unwinding"}]
    BY <1>1, <2>1
  <2>5. RowsGoOn
    <3>1. c2' = [c2 EXCEPT ![t] = s] /\ c4' = c4 \cup {t} /\ c3' \subseteq c3
      BY <2>1
    <3>2. c3' \cap {u \in Tasks : c2'[u] \in Rows!Absent} = {}
      BY <1>1, <2>2, <3>1
    <3>3. (\A u \in Tasks : c2[u] # "none" => c2'[u] # "none") /\ \A u \in c4' : c2'[u] # "none"
      BY <1>1, <2>2, <3>1
    <3> QED
      BY <1>1, <2>2, <2>4, <3>1, <3>2, <3>3 DEF RowsGoOn
  <2>6. c2[t] # "none" /\ c2[t] # "gone"
    BY <2>1 DEF Rows!Absent
  <2>7. \A u \in Tasks : RowTells(e, u)
    BY <1>1, <2>1, <2>2, <2>3, <2>6 DEF RowTells
  <2> QED
    BY <1>2, <2>1, <2>3, <2>5, <2>7, Sends
<1> QED
  BY <1>3, <1>4, <1>5, <1>6

\* A signal is about no task.
LEMMA Prompts ==
  ASSUME Rows!RowsInv, Rows!Prompt
  PROVE  Rows!RowsInv'
<1> DEFINE e == Rows!Signal(IF c11 THEN "idle" ELSE "exec")
<1>1. e \in Rows!Events /\ e.sort \notin Rows!EventSorts
  BY DEF Rows!Events, Rows!Signal, Rows!EventSorts
<1>2. Rows!Send(e) /\ UNCHANGED <<c2, c3, c17, c4, c12>> /\ PageRests
  BY DEF Rows!Prompt, PageRests, Rows!server, Rows!past
<1> HIDE DEF e
<1>3. RowsGoOn
  BY <1>2 DEF RowsGoOn, Rows!RowsInv, Rows!TypeOK, Rows!Born
<1>4. \A t \in Tasks : RowTells(e, t)
  BY <1>1, <1>2 DEF RowTells, Rows!About
<1>5. e.sort \notin {"create", "update"}
  BY <1>1 DEF Rows!EventSorts
<1> QED
  BY <1>1, <1>2, <1>3, <1>4, <1>5, Sends

-----------------------------------------------------------------------------
(* Answers, and the socket *)

\* The list, its rows and the events stay as they are.
LEMMA ListStays ==
  ASSUME Rows!RowsInv, UNCHANGED <<c2, c4, c5, c6, c15>>
  PROVE  Rows!ListTracks'
<1> SUFFICES ASSUME ~c15, NEW t \in Tasks
             PROVE  Rows!Tracks(0, t, Rows!Seen(t))' /\ \A i, j \in Rows!Copies(t)' : i = j
  BY DEF Rows!ListTracks
<1>1. Rows!Tracks(0, t, Rows!Seen(t)) /\ (\A i, j \in Rows!Copies(t) : i = j)
  BY DEF Rows!RowsInv, Rows!ListTracks
<1>2. Rows!Copies(t)' = Rows!Copies(t) /\ Rows!Seen(t)' = Rows!Seen(t)
        /\ Rows!Mail(0, t)' = Rows!Mail(0, t)
  BY DEF Rows!Copies, Rows!Seen, Rows!Mail
<1>3. Rows!Tracks(0, t, Rows!Seen(t))'
  BY <1>1, <1>2 DEF Rows!Tracks
<1> QED
  BY <1>1, <1>2, <1>3

\* The answers that stay do so, too.
LEMMA AnswersStay ==
  ASSUME Rows!RowsInv, UNCHANGED <<c2, c4, c5>>,
         NEW r \in c7, r.at = "answered", r.ahead >= 0
  PROVE  r.ahead <= Len(c5') /\ \A t \in Tasks : Rows!Tracks(r.ahead, t, {r.rows[t]} \ Rows!Absent)'
<1>1. \A t \in Tasks : Rows!Tracks(r.ahead, t, {r.rows[t]} \ Rows!Absent)
  BY DEF Rows!RowsInv, Rows!AnswersTrack
<1>2. \A t \in Tasks : Rows!Tracks(r.ahead, t, {r.rows[t]} \ Rows!Absent)'
  BY <1>1, StillTracks
<1> QED
  BY <1>2 DEF Rows!RowsInv, Rows!AnswersTrack

\* An answer has every row as it is now, and is ahead by all that is on its way.
LEMMA AnswerRows ==
  ASSUME Rows!RowsInv, Rows!Answers
  PROVE  Rows!RowsInv'
<1>1. PICK r \in c7 : /\ r.at = "asked"
                      /\ c7' = (c7 \ {r}) \cup
                                    {[at |-> "answered", after |-> r.after, rows |-> c2,
                                      ahead |-> IF c8 THEN Len(c5) ELSE -1]}
  BY DEF Rows!Answers
<1> DEFINE ahead == IF c8 THEN Len(c5) ELSE -1
           a == [at |-> "answered", after |-> r.after, rows |-> c2, ahead |-> ahead]
<1>2. UNCHANGED <<c1, c2, c3, c17, c4, c5, c6, c8, c9, c12,
                  c13, c15>>
  BY DEF Rows!Answers, Rows!server, Rows!past
<1>3. c5 \in Seq(Rows!Events) /\ Len(c5) \in Nat /\ ahead \in Int
        /\ c2 \in [Tasks -> Rows!Shown \cup Rows!Absent]
      /\ c7 \subseteq Rows!Readings
  BY DEF Rows!RowsInv, Rows!TypeOK
<1>4. a \in Rows!Readings
  BY <1>1, <1>3 DEF Rows!Readings
<1>5. c7' \subseteq Rows!Readings
  BY <1>1, <1>3, <1>4
<1>6. Rows!TypeOK'
  BY <1>2, <1>5 DEF Rows!RowsInv, Rows!TypeOK
<1>7. Rows!Born'
  <2>1. \A q \in c7' : q.at = "answered" =>
          \A t \in Tasks : q.rows[t] \notin Rows!Absent => c2[t] # "none"
    <3> SUFFICES ASSUME NEW q \in c7', q.at = "answered", NEW t \in Tasks,
                   q.rows[t] \notin Rows!Absent
                 PROVE  c2[t] # "none"
      OBVIOUS
    <3>1. CASE q \in c7
      BY <3>1 DEF Rows!RowsInv, Rows!Born
    <3>2. CASE q = a
      BY <3>2 DEF Rows!Absent
    <3> QED
      BY <1>1, <3>1, <3>2
  <2> QED
    BY <1>2, <2>1 DEF Rows!RowsInv, Rows!Born, Rows!Absent
<1>8. Rows!AnswersTrack'
  <2> SUFFICES ASSUME NEW q \in c7', q.at = "answered", q.ahead >= 0
               PROVE  q.ahead <= Len(c5') /\ \A t \in Tasks :
                        Rows!Tracks(q.ahead, t, {q.rows[t]} \ Rows!Absent)'
    BY DEF Rows!AnswersTrack, Rows!Absent
  <2>1. CASE q \in c7
    BY <1>2, <2>1, AnswersStay
  <2>2. CASE q = a
    <3>1. q.ahead = Len(c5) /\ q.rows = c2
      BY <2>2
    <3>2. ASSUME NEW t \in Tasks
          PROVE  Rows!Tracks(q.ahead, t, {q.rows[t]} \ Rows!Absent)'
      <4>1. q.ahead + 1..Len(c5) = {}
        BY <1>3, <3>1
      <4>2. Rows!Mail(q.ahead, t)' = {}
        BY <1>2, <4>1 DEF Rows!Mail
      <4>3. c2[t] \in Rows!Shown => c2[t] \notin Rows!Absent
        BY DEF Rows!Shown, Rows!Absent
      <4>4. {c2[t]} \ Rows!Absent = IF c2[t] \in Rows!Absent THEN {} ELSE {c2[t]}
        OBVIOUS
      <4>5. "none" \in Rows!Absent /\ "gone" \in Rows!Absent
        BY DEF Rows!Absent
      <4> QED
        BY <1>2, <3>1, <4>2, <4>3, <4>4, <4>5 DEF Rows!Tracks
    <3> QED
      BY <1>2, <1>3, <3>1, <3>2
  <2> QED
    BY <1>1, <2>1, <2>2
<1>9. Rows!OfflineIsBehind'
  <2>1. ~c8 => a.ahead < 0
    OBVIOUS
  <2> HIDE DEF a
  <2> QED
    BY <1>1, <1>2, <2>1 DEF Rows!RowsInv, Rows!OfflineIsBehind, a
<1>10. Rows!ListTracks'
  BY <1>2, ListStays
<1> QED
  BY <1>2, <1>6, <1>7, <1>8, <1>9, <1>10 DEF Rows!RowsInv

\* The socket breaks: the list is behind, and so is every answer.
LEMMA BreakRows ==
  ASSUME Rows!RowsInv, Rows!Breaks, UNCHANGED <<c1, c6, c13>>, c12' \subseteq c12,
         c2' \in [Tasks -> Rows!Shown \cup Rows!Absent], c3' \subseteq c3, c4' \subseteq c4,
         c17' \in [Tasks -> {"none", "submitted", "begun", "unwinding"}],
         \A t \in Tasks : c2'[t] \in Rows!Absent <=> c2[t] \in Rows!Absent,
         \A t \in Tasks : c2[t] # "none" => c2'[t] # "none"
  PROVE  Rows!RowsInv'
<1>1. /\ c8' = FALSE /\ c9' = c9 + 1 /\ c5' = <<>> /\ c15' = TRUE
      /\ c7' = {IF r.at = "asked" THEN r ELSE [r EXCEPT !.ahead = -1] : r \in c7}
  BY DEF Rows!Breaks
<1>2. c7 \subseteq Rows!Readings /\ c13 \subseteq Tasks /\ c4 \subseteq Tasks
      /\ c12 \subseteq Rows!Requests /\ c9 \in Nat
      /\ c3 \cap {t \in Tasks : c2[t] \in Rows!Absent} = {} /\ c3 \subseteq Tasks
  BY DEF Rows!RowsInv, Rows!TypeOK
<1>3. \A q \in c7' : /\ q \in Rows!Readings /\ (q.at = "answered" => q.ahead = -1)
                     /\ q.at = "answered" => \E r \in c7 : r.at = "answered" /\ q.rows = r.rows
  <2> TAKE q \in c7'
  <2>1. PICK r \in c7 : q = IF r.at = "asked" THEN r ELSE [r EXCEPT !.ahead = -1]
    BY <1>1
  <2>2. CASE r.at = "asked"
    BY <1>2, <2>1, <2>2
  <2>3. CASE r.at # "asked"
    <3>1. r \in [at : {"answered"}, after : Nat, rows : [Tasks -> Rows!Shown \cup Rows!Absent],
            ahead : Int]
      BY <1>2, <2>3 DEF Rows!Readings
    <3>2. q = [r EXCEPT !.ahead = -1]
      BY <2>1, <2>3
    <3>3. q \in [at : {"answered"}, after : Nat, rows : [Tasks -> Rows!Shown \cup Rows!Absent],
            ahead : Int]
          /\ q.ahead = -1 /\ q.rows = r.rows /\ r.at = "answered"
      BY <3>1, <3>2
    <3> QED
      BY <3>3 DEF Rows!Readings
  <2> QED
    BY <2>2, <2>3
<1>4. c3' \cap {t \in Tasks : c2'[t] \in Rows!Absent} = {}
  BY <1>2
<1>5. Rows!TypeOK'
  <2>1. c5' \in Seq(Rows!Events) /\ c9' \in Nat /\ c7' \subseteq Rows!Readings
    BY <1>1, <1>2, <1>3
  <2> QED
    BY <1>2, <1>4, <2>1 DEF Rows!RowsInv, Rows!TypeOK
<1>6. Rows!Born'
  <2>1. (\A r \in c12 : r.id \in Tasks) /\ \A i \in DOMAIN c6 : c6[i].id \in Tasks
    <3> DEFINE R == [id : Tasks, status : Rows!Shown]
    <3>1. c6 \in Seq(R)
      BY DEF Rows!RowsInv, Rows!TypeOK
    <3> HIDE DEF R
    <3>2. \A i \in DOMAIN c6 : c6[i] \in R
      BY <3>1
    <3> QED
      BY <1>2, <3>2 DEF Rows!Requests, R
  <2>2. \A q \in c7' : q.at = "answered" =>
          \A t \in Tasks : q.rows[t] \notin Rows!Absent => c2'[t] # "none"
    <3> SUFFICES ASSUME NEW q \in c7', q.at = "answered", NEW t \in Tasks,
                   q.rows[t] \notin Rows!Absent
                 PROVE  c2'[t] # "none"
      OBVIOUS
    <3>1. PICK r \in c7 : r.at = "answered" /\ q.rows = r.rows
      BY <1>3
    <3> QED
      BY <3>1 DEF Rows!RowsInv, Rows!Born
  <2>3. DOMAIN c5' = {}
    BY <1>1
  <2> QED
    BY <1>2, <2>1, <2>2, <2>3 DEF Rows!RowsInv, Rows!Born, Rows!Absent
<1>7. Rows!AnswersTrack' /\ Rows!OfflineIsBehind' /\ Rows!ListTracks'
  <2>1. \A q \in c7' : q.at = "answered" => ~(q.ahead >= 0) /\ q.ahead < 0
    BY <1>3
  <2> QED
    BY <1>1, <2>1 DEF Rows!AnswersTrack, Rows!OfflineIsBehind, Rows!ListTracks
<1>8. DOMAIN c5' = {}
  BY <1>1
<1> QED
  BY <1>5, <1>6, <1>7, <1>8 DEF Rows!RowsInv

LEMMA SocketRows ==
  ASSUME Rows!RowsInv, Rows!Drop \/ Rows!Restart
  PROVE  Rows!RowsInv'
<1>1. /\ c2 \in [Tasks -> Rows!Shown \cup Rows!Absent] /\ c3 \subseteq Tasks
      /\ c17 \in [Tasks -> {"none", "submitted", "begun", "unwinding"}]
  BY DEF Rows!RowsInv, Rows!TypeOK
<1>2. CASE Rows!Drop
  BY <1>1, <1>2, BreakRows DEF Rows!Drop, Rows!server
<1>3. CASE Rows!Restart
  <2>1. /\ c2' = [t \in Tasks |-> IF c2[t] \in Rows!Absent THEN c2[t] ELSE "pause"]
        /\ c3' = {} /\ c4' = {} /\ c17' = [t \in Tasks |-> "none"] /\ c12' = {}
        /\ UNCHANGED <<c1, c6, c13>> /\ Rows!Breaks
    BY <1>3 DEF Rows!Restart
  <2>2. "pause" \in Rows!Shown /\ "pause" \notin Rows!Absent
    BY DEF Rows!Shown, Rows!Absent
  <2>3. /\ c2' \in [Tasks -> Rows!Shown \cup Rows!Absent]
        /\ \A t \in Tasks : c2'[t] \in Rows!Absent <=> c2[t] \in Rows!Absent
        /\ \A t \in Tasks : c2[t] # "none" => c2'[t] # "none"
    BY <1>1, <2>1, <2>2
  <2> QED
    BY <2>1, <2>3, BreakRows
<1> QED
  BY <1>2, <1>3

LEMMA ReconnectRows ==
  ASSUME Rows!RowsInv, Rows!Reconnect
  PROVE  Rows!RowsInv'
<1> DEFINE a == [at |-> "asked", after |-> c9]
<1>1. /\ ~c8 /\ c8' = TRUE /\ c7' = c7 \cup {a}
      /\ UNCHANGED <<c1, c2, c3, c17, c4, c5, c6, c9, c12, c13, c15>>
  BY DEF Rows!Reconnect, Rows!server, Rows!past
<1>2. a \in Rows!Readings /\ a.at = "asked"
  BY DEF Rows!RowsInv, Rows!TypeOK, Rows!Readings
<1> HIDE DEF a
<1>3. Rows!TypeOK'
  BY <1>1, <1>2 DEF Rows!RowsInv, Rows!TypeOK
<1>4. Rows!Born'
  BY <1>1, <1>2 DEF Rows!RowsInv, Rows!Born, Rows!Absent
<1>5. Rows!AnswersTrack'
  BY <1>1, <1>2, AnswersStay DEF Rows!AnswersTrack, Rows!Absent
<1> QED
  BY <1>1, <1>3, <1>4, <1>5, ListStays DEF Rows!RowsInv, Rows!OfflineIsBehind

-----------------------------------------------------------------------------
(* The page *)

\* The answer is the list.  Where it is ahead of nothing, the list tracks.
LEMMA ReadRows ==
  ASSUME Rows!ListAssumption, Rows!RowsInv, Rows!ReadLands
  PROVE  Rows!RowsInv'
<1>1. PICK r \in c7 :
        /\ r.at = "answered" /\ c7' = c7 \ {r} /\ c15' = (r.ahead # 0)
        /\ \E l \in [1..Rows!Cardinality({t \in Tasks : r.rows[t] \notin Rows!Absent}) -> Tasks] :
             /\ {l[i] : i \in DOMAIN l} = {t \in Tasks : r.rows[t] \notin Rows!Absent}
             /\ c6' = [i \in DOMAIN l |-> Rows!Row(l[i], r.rows[l[i]])]
  BY DEF Rows!ReadLands
<1>2. UNCHANGED <<c1, c2, c3, c17, c4, c5, c8, c9, c12, c13>>
  BY DEF Rows!ReadLands, Rows!server
<1>3. r.rows \in [Tasks -> Rows!Shown \cup Rows!Absent] /\ r.ahead \in Int
  BY <1>1 DEF Rows!RowsInv, Rows!TypeOK, Rows!Readings
<1>4. /\ c6' \in Seq([id : Tasks, status : Rows!Shown])
      /\ \A i \in DOMAIN c6' : r.rows[c6'[i].id] \notin Rows!Absent
      /\ \A t \in Tasks : Rows!Seen(t)' = {r.rows[t]} \ Rows!Absent /\ \A i, j \in Rows!Copies(t)' :
           i = j
  <2>1. PICK l \in [1..Rows!Cardinality({t \in Tasks : r.rows[t] \notin Rows!Absent}) -> Tasks] :
             /\ {l[i] : i \in DOMAIN l} = {t \in Tasks : r.rows[t] \notin Rows!Absent}
             /\ c6' = [i \in DOMAIN l |-> Rows!Row(l[i], r.rows[l[i]])]
    BY <1>1
  <2> QED
    BY <1>3, <2>1, ReadSees
<1>5. Rows!TypeOK'
  BY <1>1, <1>2, <1>4 DEF Rows!RowsInv, Rows!TypeOK
<1>6. \A i \in DOMAIN c6' : c6'[i].id \in Tasks
  <2> DEFINE R == [id : Tasks, status : Rows!Shown]
  <2>1. c6' \in Seq(R)
    BY <1>4
  <2> HIDE DEF R
  <2>2. \A i \in DOMAIN c6' : c6'[i] \in R
    BY <2>1
  <2> QED
    BY <2>2 DEF R
<1>7. Rows!Born'
  <2>1. \A i \in DOMAIN c6' : c2[c6'[i].id] # "none"
    BY <1>1, <1>4, <1>6 DEF Rows!RowsInv, Rows!Born
  <2> QED
    BY <1>1, <1>2, <2>1 DEF Rows!RowsInv, Rows!Born, Rows!Absent
<1>8. Rows!AnswersTrack'
  BY <1>1, <1>2, AnswersStay DEF Rows!AnswersTrack, Rows!Absent
<1>9. Rows!OfflineIsBehind'
  <2>1. ~c8 => r.ahead # 0
    BY <1>1, <1>3 DEF Rows!RowsInv, Rows!OfflineIsBehind
  <2>2. ~c8 => c15'
    BY <1>1, <2>1, Zenon
  <2>3. c7' \subseteq c7
    BY <1>1
  <2> QED
    BY <1>2, <2>2, <2>3 DEF Rows!RowsInv, Rows!OfflineIsBehind
<1>11. r.ahead >= 0 => \A t \in Tasks : Rows!Tracks(r.ahead, t, {r.rows[t]} \ Rows!Absent)'
  BY <1>1, <1>2, AnswersStay
<1>10. Rows!ListTracks'
  <2> SUFFICES ASSUME r.ahead = 0, NEW t \in Tasks
               PROVE  Rows!Tracks(0, t, Rows!Seen(t))' /\ \A i, j \in Rows!Copies(t)' : i = j
    BY <1>1 DEF Rows!ListTracks
  <2>1. Rows!Tracks(r.ahead, t, {r.rows[t]} \ Rows!Absent)'
    <3>1. r.ahead >= 0
      OBVIOUS
    <3> QED
      BY <1>11, <3>1, Zenon
  <2>2. Rows!Seen(t)' = {r.rows[t]} \ Rows!Absent
    BY <1>4
  <2>3. Rows!Tracks(0, t, Rows!Seen(t))'
    <3>1. Rows!Mail(r.ahead, t)' = Rows!Mail(0, t)'
      BY DEF Rows!Mail
    <3> QED
      BY <2>1, <2>2, <3>1 DEF Rows!Tracks, Rows!Absent
  <2> QED
    BY <1>4, <2>3
<1> QED
  BY <1>2, <1>5, <1>7, <1>8, <1>9, <1>10 DEF Rows!RowsInv

\* An event is taken from the socket: of the answers that were ahead of it each is so by
\* one less, the others are behind.
LEMMA TakesOne ==
  ASSUME Rows!RowsInv, NEW sorts, Rows!Taken(sorts)
  PROVE  /\ c5' \in Seq(Rows!Events) /\ c7' \subseteq Rows!Readings /\ Rows!AnswersTrack'
         /\ c5[1] \in Rows!Events /\ c5[1].sort \in sorts /\ Len(c5) > 0 /\ Len(c5) \in Nat
         /\ \A i \in DOMAIN c5' : c5'[i].sort \in {"create", "update"} =>
              c5'[i].row.status \in Rows!Shown
         /\ c5[1].sort \in {"create", "update"} => c5[1].row.status \in Rows!Shown
         /\ c5[1].sort \in Rows!EventSorts => c2[c5[1].row.id] # "none"
         /\ \A i \in DOMAIN c5' : c5'[i].sort \in Rows!EventSorts => c2[c5'[i].row.id] # "none"
         /\ \A q \in c7' : q.at = "answered" => \E r \in c7 : r.at = "answered" /\ q.rows = r.rows
         /\ c8
<1>1. /\ c5 # <<>> /\ Head(c5).sort \in sorts /\ c5' = Tail(c5)
      /\ c7' = {IF r.at = "asked" THEN r
                   ELSE [r EXCEPT !.ahead = IF r.ahead < 0 THEN r.ahead ELSE r.ahead - 1] :
                     r \in c7}
      /\ UNCHANGED <<c2, c4>>
  BY DEF Rows!Taken, Rows!server
<1>2. c5 \in Seq(Rows!Events) /\ c7 \subseteq Rows!Readings
  BY DEF Rows!RowsInv, Rows!TypeOK
<1>3. /\ Len(c5) \in Nat /\ Len(c5) > 0 /\ c5[1] \in Rows!Events /\ Head(c5) = c5[1]
      /\ c5' \in Seq(Rows!Events) /\ Len(c5') = Len(c5) - 1 /\ 1 \in DOMAIN c5
      /\ \A i \in DOMAIN c5' : i + 1 \in DOMAIN c5 /\ c5'[i] = c5[i + 1]
  BY <1>1, <1>2
<1>4. \A q \in c7' : \E r \in c7 :
        /\ r.at = q.at /\ q \in Rows!Readings
        /\ q.at = "answered" => /\ q.rows = r.rows /\ r.ahead \in Int
                                /\ q.ahead = IF r.ahead < 0 THEN r.ahead ELSE r.ahead - 1
  <2> TAKE q \in c7'
  <2>1. PICK r \in c7 :
          q = IF r.at = "asked" THEN r
              ELSE [r EXCEPT !.ahead = IF r.ahead < 0 THEN r.ahead ELSE r.ahead - 1]
    BY <1>1
  <2>2. CASE r.at = "asked"
    BY <1>2, <2>1, <2>2
  <2>3. CASE r.at # "asked"
    <3> DEFINE n == IF r.ahead < 0 THEN r.ahead ELSE r.ahead - 1
    <3>1. r \in [at : {"answered"}, after : Nat, rows : [Tasks -> Rows!Shown \cup Rows!Absent],
            ahead : Int]
      BY <1>2, <2>3 DEF Rows!Readings
    <3>2. q = [r EXCEPT !.ahead = n] /\ n \in Int
      BY <2>1, <2>3, <3>1
    <3> HIDE DEF n
    <3>3. q \in [at : {"answered"}, after : Nat, rows : [Tasks -> Rows!Shown \cup Rows!Absent],
            ahead : Int]
          /\ q.ahead = n /\ q.rows = r.rows /\ r.at = "answered" /\ q.at = "answered"
      BY <3>1, <3>2
    <3>4. q \in Rows!Readings /\ r.ahead \in Int
      BY <3>1, <3>3 DEF Rows!Readings
    <3> QED
      BY <3>3, <3>4 DEF n
  <2> QED
    BY <2>2, <2>3
<1>5. Rows!AnswersTrack'
  <2> SUFFICES ASSUME NEW q \in c7', q.at = "answered", q.ahead >= 0
               PROVE  q.ahead <= Len(c5') /\ \A t \in Tasks :
                        Rows!Tracks(q.ahead, t, {q.rows[t]} \ Rows!Absent)'
    BY DEF Rows!AnswersTrack, Rows!Absent
  <2>1. PICK r \in c7 : /\ r.at = "answered" /\ q.rows = r.rows /\ r.ahead \in Int
                        /\ q.ahead = IF r.ahead < 0 THEN r.ahead ELSE r.ahead - 1
    BY <1>4
  <2>2. r.ahead >= 0 /\ r.ahead = q.ahead + 1 /\ q.ahead \in Nat
    BY <2>1
  <2>3. r.ahead <= Len(c5) /\ \A t \in Tasks :
          Rows!Tracks(q.ahead + 1, t, {q.rows[t]} \ Rows!Absent)
    BY <2>1, <2>2 DEF Rows!RowsInv, Rows!AnswersTrack
  <2>4. \A t \in Tasks : Rows!Tracks(q.ahead, t, {q.rows[t]} \ Rows!Absent)'
    BY <1>1, <1>2, <2>2, <2>3, TakenTracks
  <2> QED
    BY <1>3, <2>2, <2>3, <2>4
<1>6. c8
  BY <1>1 DEF Rows!RowsInv, Rows!OfflineIsBehind
<1> QED
  BY <1>1, <1>3, <1>4, <1>5, <1>6 DEF Rows!RowsInv, Rows!Born

\* A listener takes a signal: the list stays as it is, and the requests may be more.
LEMMA SignalRows ==
  ASSUME Rows!RowsInv, Rows!Taken({"exec", "idle"}), c6' = c6,
         c13' \subseteq Tasks, c12' \subseteq Rows!Requests,
         \A t \in c13' : c2[t] # "none", \A r \in c12' : c2[r.id] # "none"
  PROVE  Rows!RowsInv'
<1>1. UNCHANGED <<c1, c2, c3, c17, c4, c8, c9, c15>> /\ c5' = Tail(c5)
      /\ c5 # <<>>
  BY DEF Rows!Taken, Rows!server, Rows!past
<1>2. Rows!TypeOK' /\ Rows!Born'
  <2>1. c5' \in Seq(Rows!Events) /\ c7' \subseteq Rows!Readings
    BY TakesOne
  <2>2. Rows!TypeOK'
    BY <1>1, <2>1 DEF Rows!RowsInv, Rows!TypeOK
  <2>3. /\ \A i \in DOMAIN c5' : c5'[i].sort \in Rows!EventSorts => c2[c5'[i].row.id] # "none"
        /\ \A q \in c7' : q.at = "answered" => \E r \in c7 : r.at = "answered" /\ q.rows = r.rows
    BY TakesOne
  <2>4. Rows!Born'
    BY <1>1, <2>3 DEF Rows!RowsInv, Rows!TypeOK, Rows!Born, Rows!Absent
  <2> QED
    BY <2>2, <2>4
<1>3. c5[1].sort \in {"exec", "idle"} /\ c5 \in Seq(Rows!Events)
  BY TakesOne DEF Rows!RowsInv, Rows!TypeOK
<1>4. Rows!ListTracks'
  <2> SUFFICES ASSUME ~c15, NEW t \in Tasks
               PROVE  Rows!Tracks(0, t, Rows!Seen(t))' /\ \A i, j \in Rows!Copies(t)' : i = j
    BY <1>1 DEF Rows!ListTracks
  <2>1. Rows!Tracks(0, t, Rows!Seen(t)) /\ (\A i, j \in Rows!Copies(t) : i = j)
    BY DEF Rows!RowsInv, Rows!ListTracks
  <2>2. Rows!Copies(t)' = Rows!Copies(t) /\ Rows!Seen(t)' = Rows!Seen(t)
    BY DEF Rows!Copies, Rows!Seen
  <2>3. PICK seen, e : seen = Rows!Seen(t) /\ e = c5[1]
    OBVIOUS
  <2>4. SeenAfter(e, t, seen) = seen
    BY <1>3, <2>3 DEF SeenAfter, Rows!About, Rows!EventSorts
  <2>5. Rows!Tracks(0, t, seen)'
    BY <1>1, <1>3, <2>1, <2>3, <2>4, TakenTracks
  <2>6. Rows!Tracks(0, t, Rows!Seen(t))'
    BY <2>2, <2>3, <2>5 DEF Rows!Tracks
  <2> QED
    BY <2>1, <2>2, <2>6
<1>5. Rows!OfflineIsBehind'
  BY <1>1, TakesOne DEF Rows!OfflineIsBehind
<1> QED
  BY <1>2, <1>4, <1>5, TakesOne DEF Rows!RowsInv

LEMMA EventRows ==
  ASSUME Rows!RowsInv, Rows!OnRow
  PROVE  Rows!RowsInv'
<1>1. /\ UNCHANGED <<c1, c2, c3, c17, c4, c8, c9, c15, c12, c13>>
      /\ c5' = Tail(c5) /\ c5 # <<>> /\ c6' = Rows!Listed(Head(c5)) /\ Rows!Taken(Rows!EventSorts)
  BY DEF Rows!OnRow, Rows!Taken, Rows!server, Rows!past
<1>2. PICK e : e = c5[1]
  OBVIOUS
<1>3. /\ e \in Rows!Events /\ e.sort \in Rows!EventSorts /\ c5 \in Seq(Rows!Events) /\ Len(c5) > 0
           /\ Len(c5) \in Nat
      /\ e.sort \in {"create", "update"} => e.row.status \in Rows!Shown
  BY <1>1, <1>2, TakesOne DEF Rows!RowsInv, Rows!TypeOK
<1>4. e \in [sort : Rows!EventSorts, row : Rows!Rows] /\ e.row.id \in Tasks
  BY <1>3, ListEventsAre DEF Rows!Rows
<1>5. c6' = Rows!Listed(e)
  BY <1>1, <1>2, <1>3
<1>6. c6 \in Seq([id : Tasks, status : Rows!Shown])
  BY DEF Rows!RowsInv, Rows!TypeOK
<1>7. /\ c6' \in Seq([id : Tasks, status : Rows!Shown])
      /\ \A i \in DOMAIN c6' :
           c6'[i].id = e.row.id \/ \E k \in DOMAIN c6 : c6'[i].id = c6[k].id
      /\ \A t : Rows!Seen(t)' = SeenAfter(e, t, Rows!Seen(t))
      /\ \A t : (Rows!About(e, t) /\ e.sort = "create" => Rows!Seen(t) = {})
           /\ (\A i, j \in Rows!Copies(t) : i = j)
                  => \A i, j \in Rows!Copies(t)' : i = j
  BY <1>3, <1>4, <1>5, <1>6, ListedSees
<1>8. Rows!TypeOK'
  BY <1>1, <1>7, TakesOne DEF Rows!RowsInv, Rows!TypeOK
<1>9. Rows!Born'
  <2>1. \A i \in DOMAIN c6' : c2[c6'[i].id] # "none"
    BY <1>1, <1>2, <1>3, <1>7, TakesOne DEF Rows!RowsInv, Rows!Born
  <2> QED
    BY <1>1, <2>1, TakesOne DEF Rows!RowsInv, Rows!Born, Rows!Absent
<1>10. Rows!ListTracks'
  <2> SUFFICES ASSUME ~c15, NEW t \in Tasks
               PROVE  Rows!Tracks(0, t, Rows!Seen(t))' /\ \A i, j \in Rows!Copies(t)' : i = j
    BY <1>1 DEF Rows!ListTracks
  <2>1. Rows!Tracks(0, t, Rows!Seen(t)) /\ (\A i, j \in Rows!Copies(t) : i = j)
    BY DEF Rows!RowsInv, Rows!ListTracks
  <2>2. PICK seen : seen = Rows!Seen(t)
    OBVIOUS
  <2>3. Rows!Tracks(0, t, SeenAfter(e, t, seen))'
    BY <1>1, <1>2, <1>3, <2>1, <2>2, TakenTracks
  <2>4. Rows!Seen(t)' = SeenAfter(e, t, seen)
    BY <1>7, <2>2
  <2>5. Rows!Tracks(0, t, Rows!Seen(t))'
    BY <2>3, <2>4 DEF Rows!Tracks
  <2>6. Rows!About(e, t) /\ e.sort = "create" => Rows!Seen(t) = {}
    <3> HAVE Rows!About(e, t) /\ e.sort = "create"
    <3>1. 1 \in 0 + 1..Len(c5)
      BY <1>3
    <3>2. 1 \in Rows!Mail(0, t)
      BY <1>2, <3>1 DEF Rows!Mail
    <3> QED
      BY <1>2, <2>1, <3>2 DEF Rows!Tracks
  <2> QED
    BY <1>7, <2>1, <2>5, <2>6
<1>11. Rows!OfflineIsBehind'
  BY <1>1, TakesOne DEF Rows!OfflineIsBehind
<1> QED
  BY <1>1, <1>8, <1>9, <1>10, <1>11, TakesOne DEF Rows!RowsInv

\* The tasks that the list shows as running are there.
LEMMA RunningIs ==
  ASSUME Rows!RowsInv
  PROVE  Rows!Running \subseteq Tasks /\ \A t \in Rows!Running : c2[t] # "none"
<1> DEFINE R == [id : Tasks, status : Rows!Shown]
<1>1. c6 \in Seq(R)
  BY DEF Rows!RowsInv, Rows!TypeOK
<1> HIDE DEF R
<1>2. \A i \in DOMAIN c6 : c6[i] \in R
  BY <1>1
<1>3. \A i \in DOMAIN c6 : c6[i].id \in Tasks /\ c2[c6[i].id] # "none"
  BY <1>2 DEF R, Rows!RowsInv, Rows!Born
<1> QED
  BY <1>3 DEF Rows!Running

LEMMA AskIs ==
  ASSUME NEW ts \in SUBSET Tasks, NEW what \in {"pause", "resume", "delete"},
           NEW by \in {"user", "prompt"}
  PROVE  /\ Rows!Ask(ts, what, by) \subseteq Rows!Requests
         /\ \A r \in Rows!Ask(ts, what, by) : r.id \in ts /\ r.what = what /\ r.by = by
         /\ \A t \in ts : [id |-> t, what |-> what, by |-> by] \in Rows!Ask(ts, what, by)
BY DEF Rows!Ask, Rows!Requests

LEMMA ListenerRows ==
  ASSUME Rows!RowsInv, Rows!OnExec \/ Rows!OnIdle \/ \E what \in {"pause", "resume", "delete"} :
           Rows!Click(what)
  PROVE  Rows!RowsInv'
<1>1. c12 \subseteq Rows!Requests /\ c13 \subseteq Tasks
      /\ (\A t \in c13 : c2[t] # "none") /\ \A r \in c12 : c2[r.id] # "none"
  BY DEF Rows!RowsInv, Rows!TypeOK, Rows!Born
<1>2. CASE Rows!OnExec
  <2>1. /\ Rows!Taken({"exec"}) /\ c13' = c13 \cup Rows!Running /\ c6' = c6
        /\ c12' = c12 \cup Rows!Ask(Rows!Running \ c13, "pause", "prompt")
    BY <1>2 DEF Rows!OnExec
  <2>2. Rows!Taken({"exec", "idle"})
    BY <2>1 DEF Rows!Taken
  <2>3. Rows!Running \subseteq Tasks /\ \A t \in Rows!Running : c2[t] # "none"
    BY RunningIs
  <2>4. c12' \subseteq Rows!Requests /\ \A r \in c12' : c2[r.id] # "none"
    <3> DEFINE new == Rows!Ask(Rows!Running \ c13, "pause", "prompt")
    <3>1. new \subseteq Rows!Requests /\ \A r \in new : r.id \in Rows!Running
      BY <2>3, AskIs
    <3> HIDE DEF new
    <3>2. c12' = c12 \cup new
      BY <2>1 DEF new
    <3> QED
      BY <1>1, <2>3, <3>1, <3>2
  <2> QED
    BY <1>1, <2>1, <2>2, <2>3, <2>4, SignalRows
<1>3. CASE Rows!OnIdle
  <2>1. /\ Rows!Taken({"idle"}) /\ c13' = {} /\ c6' = c6
        /\ c12' = c12 \cup Rows!Ask(c13, "resume", "prompt")
    BY <1>3 DEF Rows!OnIdle, Rows!ToResume
  <2>2. Rows!Taken({"exec", "idle"})
    BY <2>1 DEF Rows!Taken
  <2>3. c12' \subseteq Rows!Requests /\ \A r \in c12' : c2[r.id] # "none"
    <3> DEFINE new == Rows!Ask(c13, "resume", "prompt")
    <3>1. new \subseteq Rows!Requests /\ \A r \in new : r.id \in c13
      BY <1>1, AskIs
    <3> HIDE DEF new
    <3>2. c12' = c12 \cup new
      BY <2>1 DEF new
    <3> QED
      BY <1>1, <3>1, <3>2
  <2> QED
    BY <2>1, <2>2, <2>3, SignalRows
<1>4. CASE \E what \in {"pause", "resume", "delete"} : Rows!Click(what)
  <2>1. PICK what \in {"pause", "resume", "delete"} : Rows!Click(what)
    BY <1>4
  <2>2. PICK i \in DOMAIN c6 : c12' = c12 \cup Rows!Ask({c6[i].id}, what, "user")
    BY <2>1 DEF Rows!Click
  <2>3. UNCHANGED <<c1, c2, c3, c17, c4, c5, c6, c7, c8, c9, c13, c15>>
    BY <2>1 DEF Rows!Click, Rows!server, Rows!past
  <2>4. c6[i].id \in Tasks /\ c2[c6[i].id] # "none"
    <3> DEFINE R == [id : Tasks, status : Rows!Shown]
    <3>1. c6 \in Seq(R)
      BY DEF Rows!RowsInv, Rows!TypeOK
    <3> HIDE DEF R
    <3>2. c6[i] \in R
      BY <2>2, <3>1
    <3> QED
      BY <2>2, <3>2 DEF R, Rows!RowsInv, Rows!Born
  <2>5. c12' \subseteq Rows!Requests /\ \A r \in c12' : c2[r.id] # "none"
    <3> DEFINE t == c6[i].id
               new == Rows!Ask({t}, what, "user")
    <3>1. {t} \in SUBSET Tasks
      BY <2>4
    <3> HIDE DEF t
    <3>2. new \subseteq Rows!Requests /\ \A r \in new : r.id = t
      BY <3>1, AskIs
    <3> HIDE DEF new
    <3>3. c12' = c12 \cup new
      BY <2>2 DEF new, t
    <3> QED
      BY <1>1, <2>4, <3>2, <3>3 DEF t
  <2>6. Rows!TypeOK'
    BY <2>3, <2>5 DEF Rows!RowsInv, Rows!TypeOK
  <2>7. Rows!Born'
    BY <2>3, <2>5 DEF Rows!RowsInv, Rows!Born, Rows!Absent
  <2>8. Rows!AnswersTrack'
    BY <2>3, AnswersStay DEF Rows!AnswersTrack, Rows!Absent
  <2> QED
    BY <2>3, <2>6, <2>7, <2>8, ListStays DEF Rows!RowsInv, Rows!OfflineIsBehind
<1> QED
  BY <1>2, <1>3, <1>4

-----------------------------------------------------------------------------
(* What the prompts have paused *)

LEMMA OneAsked ==
  ASSUME NEW t
  PROVE  Rows!Ask({t}, "resume", "prompt") = {[id |-> t, what |-> "resume", by |-> "prompt"]}
<1> DEFINE r == [id |-> t, what |-> "resume", by |-> "prompt"]
           A == [id : {t}, what : {"resume"}, by : {"prompt"}]
<1>1. r \in A
  OBVIOUS
<1>2. ASSUME NEW x \in A
      PROVE  x = r
  OBVIOUS
<1> HIDE DEF r, A
<1>3. A = {r}
  BY <1>1, <1>2
<1> QED
  BY <1>3 DEF Rows!Ask, A, r

LEMMA RememberedIs ==
  ASSUME c12 \subseteq Rows!Requests, NEW t \in Tasks
  PROVE  Rows!Remembered(t) <=> \/ t \in c13 \cup c16
                                \/ \E q \in c12 : q.id = t /\ q.what = "resume" /\ q.by = "prompt"
<1> DEFINE r == [id |-> t, what |-> "resume", by |-> "prompt"]
<1>1. Rows!Ask({t}, "resume", "prompt") = {r}
  BY OneAsked
<1>2. \A q \in c12 : q.id = t /\ q.what = "resume" /\ q.by = "prompt" <=> q = r
  BY DEF Rows!Requests
<1> HIDE DEF r
<1>3. r \in c12 => \E q \in c12 : q.id = t /\ q.what = "resume" /\ q.by = "prompt"
  BY <1>2
<1> QED
  BY <1>1, <1>2, <1>3 DEF Rows!Remembered

\* A request of the listener that comes to nothing is remembered for it.
LEMMA MissesIs ==
  ASSUME NEW r, Rows!Misses(r)
  PROVE  c16 \subseteq c16' /\ (r.what = "resume" /\ r.by = "prompt" => r.id \in c16')
BY DEF Rows!Misses

\* A request is handled.
LEMMA HandledHeld ==
  ASSUME Rows!RowsInv, Rows!RowsInv', Rows!PausesRemembered,
         NEW r \in c12, Rows!Refused(r) \/ Rows!Lost(r) \/ Rows!Paused(r) \/ Rows!Resumed(r)
           \/ Rows!Deleted(r)
  PROVE  Rows!PausesRemembered'
<1>1. c12 \subseteq Rows!Requests /\ c12' \subseteq Rows!Requests /\ r.id \in Tasks
  BY DEF Rows!RowsInv, Rows!TypeOK, Rows!Requests
<1>2. c12' = c12 \ {r} /\ c13' = c13
  BY DEF Rows!Refused, Rows!Lost, Rows!Paused, Rows!Resumed, Rows!Deleted, Rows!Handle
<1>3. c16 \subseteq c16'
  BY MissesIs DEF Rows!Refused, Rows!Lost, Rows!Paused, Rows!Resumed, Rows!Deleted
<1>4. /\ \A t \in c14 : t \in Tasks /\ Rows!Known(t) /\ Rows!Remembered(t)
      /\ \A q \in c12 : q.what = "pause" /\ q.by = "prompt" /\ Rows!Known(q.id) =>
           Rows!Remembered(q.id)
  BY DEF Rows!PausesRemembered
<1>5. \A t \in Tasks : Rows!Known(t)' = Rows!Known(t)
  <2>1. CASE Rows!Refused(r) \/ Rows!Lost(r) \/ Rows!Resumed(r)
    BY <2>1 DEF Rows!Refused, Rows!Lost, Rows!Resumed, Rows!server, Rows!Known, Rows!Absent
  <2>2. CASE Rows!Paused(r) \/ Rows!Deleted(r)
    <3>1. PICK s \in Rows!Shown : c2' = [c2 EXCEPT ![r.id] = s]
      BY <2>2 DEF Rows!Paused, Rows!Deleted, Rows!Shown
    <3>2. c2 \in [Tasks -> Rows!Shown \cup Rows!Absent] /\ Rows!Known(r.id) /\ s \notin Rows!Absent
      BY <2>2 DEF Rows!Paused, Rows!Deleted, Rows!RowsInv, Rows!TypeOK, Rows!Shown, Rows!Absent
    <3> QED
      BY <3>1, <3>2 DEF Rows!Known, Rows!Absent
  <2> QED
    BY <2>1, <2>2
\* What this request does not resume is remembered as before.
<1>6. ASSUME NEW t \in Tasks, Rows!Remembered(t)
      PROVE  Rows!Remembered(t)' \/ (t = r.id /\ r.what = "resume" /\ r.by = "prompt")
  <2>1. t \in c13 \cup c16 \/ \E q \in c12 : q.id = t /\ q.what = "resume" /\ q.by = "prompt"
    BY <1>1, <1>6, RememberedIs
  <2>2. CASE t \in c13 \cup c16
    BY <1>2, <1>3, <2>2 DEF Rows!Remembered
  <2>3. CASE \E q \in c12 : q.id = t /\ q.what = "resume" /\ q.by = "prompt"
    <3>1. PICK q \in c12 : q.id = t /\ q.what = "resume" /\ q.by = "prompt"
      BY <2>3
    <3>2. CASE q = r
      BY <3>1, <3>2
    <3>3. CASE q # r
      <4>1. q \in c12'
        BY <1>2, <3>3
      <4>2. q = [id |-> t, what |-> "resume", by |-> "prompt"]
        BY <1>1, <3>1 DEF Rows!Requests
      <4>3. Rows!Ask({t}, "resume", "prompt") = {q}
        BY <4>2, OneAsked
      <4> QED
        BY <4>1, <4>3 DEF Rows!Remembered, Rows!Ask
    <3> QED
      BY <3>2, <3>3
  <2> QED
    BY <2>1, <2>2, <2>3
<1>7. ASSUME NEW t \in Tasks, t \in c16'
      PROVE  Rows!Remembered(t)'
  BY <1>7 DEF Rows!Remembered
<1>8. \A q \in c12' : q \in c12 /\ q.id \in Tasks
  BY <1>1, <1>2 DEF Rows!Requests
<1>9. CASE ~Rows!Resumed(r)
  <2>1. r.what = "resume" /\ r.by = "prompt" /\ Rows!Known(r.id) => r.id \in c16'
    BY <1>9, MissesIs DEF Rows!Refused, Rows!Lost, Rows!Paused, Rows!Deleted
  <2>2. \A t \in Tasks : Rows!Known(t) /\ Rows!Remembered(t) => Rows!Remembered(t)'
    BY <1>1, <1>6, <1>7, <2>1
  <2>3. \A t \in c14' :
          t \in c14 \/ (t = r.id /\ r.what = "pause" /\ r.by = "prompt" /\ Rows!Known(r.id))
    BY <1>9 DEF Rows!Refused, Rows!Lost, Rows!Paused, Rows!Deleted
  <2>4. \A t \in c14' : t \in Tasks /\ Rows!Known(t) /\ Rows!Remembered(t)
    BY <1>1, <1>4, <2>3
  <2> QED
    BY <1>4, <1>5, <1>8, <2>2, <2>4 DEF Rows!PausesRemembered
<1>10. CASE Rows!Resumed(r)
  <2>1. \/ c14' = c14 \ {r.id}
        \/ c14' = c14 /\ c17[r.id] = "unwinding"
    BY <1>10 DEF Rows!Resumed, Rows!Resumes
  <2>2. (\/ c17[r.id] = "unwinding"
         \/ \E p \in c12 : p.id = r.id /\ p.what = "pause" /\ p.by = "prompt") => Rows!Misses(r)
    BY <1>10 DEF Rows!Resumed
  <2>3. \A t \in c14' : t \in Tasks /\ Rows!Known(t) /\ Rows!Remembered(t)'
    <3> SUFFICES ASSUME NEW t \in c14'
                 PROVE  t \in Tasks /\ Rows!Known(t) /\ Rows!Remembered(t)'
      OBVIOUS
    <3>1. t \in c14 /\ (t # r.id \/ c17[r.id] = "unwinding")
      BY <2>1
    <3>2. r.what = "resume" /\ r.by = "prompt" /\ t = r.id => t \in c16'
      BY <2>2, <3>1, MissesIs
    <3> QED
      BY <1>4, <1>6, <1>7, <3>1, <3>2
  <2>4. ASSUME NEW q \in c12', q.what = "pause", q.by = "prompt", Rows!Known(q.id)
        PROVE  Rows!Remembered(q.id)'
    <3>1. q \in c12 /\ q.id \in Tasks
      BY <1>8, <2>4
    <3>2. CASE q.id # r.id
      BY <1>4, <1>6, <2>4, <3>1, <3>2
    <3>3. CASE q.id = r.id
      <4>1. \E p \in c12 : p.id = r.id /\ p.what = "pause" /\ p.by = "prompt"
        BY <2>4, <3>1, <3>3
      <4>2. r.what = "resume" /\ r.by = "prompt" => r.id \in c16'
        BY <2>2, <4>1, MissesIs, Zenon
      <4> QED
        BY <1>4, <1>6, <1>7, <2>4, <3>1, <3>3, <4>2
    <3> QED
      BY <3>2, <3>3
  <2> QED
    BY <1>5, <1>8, <2>3, <2>4 DEF Rows!PausesRemembered
<1> QED
  BY <1>9, <1>10

LEMMA ListenerHeld ==
  ASSUME Rows!RowsInv, Rows!RowsInv', Rows!PausesRemembered,
         Rows!OnExec \/ Rows!OnIdle \/ \E what \in {"pause", "resume", "delete"} : Rows!Click(what)
  PROVE  Rows!PausesRemembered'
<1>1. c12 \subseteq Rows!Requests /\ c13 \subseteq Tasks /\ \A q \in c12 : q.id \in Tasks
  BY DEF Rows!RowsInv, Rows!TypeOK, Rows!Requests
<1>2. UNCHANGED <<c2, c14>> /\ c13 \cup c16 \subseteq c13 \cup c13' \cup c16'
  BY DEF Rows!OnExec, Rows!OnIdle, Rows!Taken, Rows!Click, Rows!server, Rows!past
<1>3. /\ \A t \in c14 : t \in Tasks /\ Rows!Known(t) /\ Rows!Remembered(t)
      /\ \A q \in c12 : q.what = "pause" /\ q.by = "prompt" /\ Rows!Known(q.id) =>
           Rows!Remembered(q.id)
  BY DEF Rows!PausesRemembered
<1>4. \A t : Rows!Known(t)' = Rows!Known(t)
  BY <1>2 DEF Rows!Known, Rows!Absent
<1>5. c12 \subseteq c12'
  BY DEF Rows!OnExec, Rows!OnIdle, Rows!Click
<1>6. ASSUME NEW t \in Tasks, Rows!Remembered(t)
      PROVE  Rows!Remembered(t)'
  <2>1. CASE c13 \subseteq c13'
    BY <1>2, <1>5, <1>6, <2>1 DEF Rows!Remembered, Rows!Ask
  <2>2. CASE Rows!OnIdle
    <3>1. c12' = c12 \cup Rows!Ask(c13, "resume", "prompt")
      BY <2>2 DEF Rows!OnIdle, Rows!ToResume
    <3>2. t \in c13 => Rows!Ask({t}, "resume", "prompt") \subseteq c12'
      BY <3>1 DEF Rows!Ask
    <3> QED
      BY <1>2, <1>5, <1>6, <3>2 DEF Rows!Remembered, Rows!Ask
  <2> QED
    BY <2>1, <2>2 DEF Rows!OnExec, Rows!Click
<1>7. \A q \in c12' : q \in c12 \/ ~(q.what = "pause" /\ q.by = "prompt") \/ q.id \in c13'
  <2>1. CASE Rows!OnExec
    <3>1. /\ c12' = c12 \cup Rows!Ask(Rows!Running \ c13, "pause", "prompt")
          /\ c13' = c13 \cup Rows!Running
      BY <2>1 DEF Rows!OnExec
    <3> QED
      BY <3>1 DEF Rows!Ask
  <2>2. CASE Rows!OnIdle
    <3>1. c12' = c12 \cup Rows!Ask(c13, "resume", "prompt")
      BY <2>2 DEF Rows!OnIdle, Rows!ToResume
    <3> QED
      BY <3>1 DEF Rows!Ask
  <2>3. CASE \E what \in {"pause", "resume", "delete"} : Rows!Click(what)
    <3>1. PICK what, i : c12' = c12 \cup Rows!Ask({c6[i].id}, what, "user")
      BY <2>3 DEF Rows!Click
    <3> QED
      BY <3>1 DEF Rows!Ask
  <2> QED
    BY <2>1, <2>2, <2>3
<1>8. ASSUME NEW q \in c12', q.what = "pause", q.by = "prompt", Rows!Known(q.id)
      PROVE  Rows!Remembered(q.id)'
  <2>1. CASE q \in c12
    BY <1>1, <1>3, <1>6, <1>8, <2>1
  <2>2. CASE q \in c12' /\ q.id \in c13'
    BY <2>2 DEF Rows!Remembered
  <2> QED
    BY <1>7, <1>8, <2>1, <2>2
<1> QED
  BY <1>2, <1>3, <1>4, <1>6, <1>8 DEF Rows!PausesRemembered

LEMMA ServerHeld ==
  ASSUME Rows!RowsInv, Rows!PausesRemembered, NEW t \in Tasks,
         \/ Rows!Create(t) \/ Rows!Starts(t) \/ Rows!Fails(t) \/ Rows!StrayBegins(t)
              \/ Rows!StrayFails(t) \/ Rows!Unwinds(t)
         \/ Rows!Completes(t) \/ Rows!UploadEnds(t) \/ Rows!DeleteEnds(t)
  PROVE  Rows!PausesRemembered'
<1>1. /\ c2 \in [Tasks -> Rows!Shown \cup Rows!Absent]
           /\ c3 \cap {u \in Tasks : c2[u] \in Rows!Absent} = {}
      /\ c3 \subseteq Tasks /\ c14 \subseteq Tasks
  BY DEF Rows!RowsInv, Rows!TypeOK, Rows!PausesRemembered
<1>2. UNCHANGED <<c12, c13, c16>> /\ c14' \subseteq c14
  BY DEF Rows!Create, Rows!Starts, Rows!Fails, Rows!Report, Rows!StrayBegins, Rows!StrayFails,
       Rows!Unwinds, Rows!Completes, Rows!UploadEnds, Rows!DeleteEnds, Rows!Ends,
         Rows!past
<1>3. "doing" \notin Rows!Absent /\ "pause" \notin Rows!Absent /\ "gone" \in Rows!Absent
        /\ "none" \in Rows!Absent
  BY DEF Rows!Absent
<1>4. \/ c2' = c2
      \/ \E s \in {"doing", "pause"} : c2' = [c2 EXCEPT ![t] = s] /\ c2[t] # "gone"
      \/ c2' = [c2 EXCEPT ![t] = "gone"] /\ c14' = c14 \ {t}
  <2>1. CASE Rows!Create(t)
    BY <2>1 DEF Rows!Create
  <2>2. CASE Rows!Starts(t) \/ Rows!Fails(t)
    <3>1. t \in c3 /\ c2[t] # "gone"
      BY <1>1, <1>3, <2>2 DEF Rows!Starts, Rows!Fails, Rows!Report
    <3> QED
      BY <2>2, <3>1 DEF Rows!Starts, Rows!Fails, Rows!Report
  <2>3. CASE Rows!StrayBegins(t) \/ Rows!StrayFails(t)
    BY <1>3, <2>3 DEF Rows!StrayBegins, Rows!StrayFails
  <2>4. CASE Rows!Completes(t) \/ Rows!UploadEnds(t) \/ Rows!DeleteEnds(t)
    BY <2>4 DEF Rows!Completes, Rows!UploadEnds, Rows!DeleteEnds, Rows!Ends
  <2>5. CASE Rows!Unwinds(t)
    BY <2>5 DEF Rows!Unwinds
  <2> QED
    BY <2>1, <2>2, <2>3, <2>4, <2>5
<1>5. \A u \in Tasks : c2'[u] \notin Rows!Absent => c2[u] # "gone"
  BY <1>1, <1>3, <1>4
<1>6. \A u \in c14' : c2[u] \notin Rows!Absent => c2'[u] \notin Rows!Absent
  BY <1>1, <1>2, <1>3, <1>4
<1>7. /\ \A u \in Tasks : Rows!Known(u)' => c2[u] # "gone"
      /\ \A u \in c14' : Rows!Known(u) => Rows!Known(u)'
  BY <1>5, <1>6 DEF Rows!Known, Rows!Absent
<1> QED
  BY <1>2, <1>7, HeldStays

\* The rest leaves what is held alone, or forgets it with all requests.
LEMMA OthersHeld ==
  ASSUME Rows!RowsInv, Rows!PausesRemembered,
         Rows!Answers \/ Rows!Prompt \/ Rows!Drop \/ Rows!Restart \/ Rows!Reconnect
           \/ Rows!ReadLands \/ Rows!OnRow
  PROVE  Rows!PausesRemembered'
<1>1. CASE Rows!Restart
  BY <1>1 DEF Rows!Restart, Rows!PausesRemembered
<1>2. CASE ~Rows!Restart
  <2>1. UNCHANGED <<c2, c14, c12, c13, c16>>
    BY <1>2 DEF Rows!Answers, Rows!Prompt, Rows!Drop, Rows!Reconnect, Rows!ReadLands, Rows!OnRow,
         Rows!Taken, Rows!server, Rows!past
  <2>2. \A t : Rows!Known(t)' = Rows!Known(t)
    BY <2>1 DEF Rows!Known, Rows!Absent
  <2>3. \A t \in Tasks : Rows!Known(t)' => c2[t] # "gone"
    BY <2>2 DEF Rows!Known, Rows!Absent
  <2> QED
    BY <2>1, <2>2, <2>3, HeldStays
<1> QED
  BY <1>1, <1>2

-----------------------------------------------------------------------------
(* The invariant *)

LEMMA ListStep ==
  ASSUME Rows!ListAssumption, Rows!ListInv, [Rows!Next]_(Rows!listVars)
  PROVE  Rows!ListInv'
<1>1. Rows!RowsInv /\ Rows!PausesRemembered
  BY DEF Rows!ListInv
<1>2. ASSUME NEW t \in Tasks,
             \/ Rows!Create(t) \/ Rows!Starts(t) \/ Rows!Fails(t) \/ Rows!StrayBegins(t)
                  \/ Rows!StrayFails(t) \/ Rows!Unwinds(t)
             \/ Rows!Completes(t) \/ Rows!UploadEnds(t) \/ Rows!DeleteEnds(t)
      PROVE  Rows!RowsInv' /\ Rows!PausesRemembered'
  BY <1>1, <1>2, ServerRows, ServerHeld
<1>3. ASSUME NEW r \in c12, Rows!Refused(r) \/ Rows!Lost(r) \/ Rows!Paused(r)
               \/ Rows!Resumed(r) \/ Rows!Deleted(r)
      PROVE  Rows!RowsInv' /\ Rows!PausesRemembered'
  BY <1>1, <1>3, RequestRows, HandledHeld
<1>4. CASE Rows!Answers \/ Rows!Prompt \/ Rows!Drop \/ Rows!Restart \/ Rows!Reconnect
             \/ Rows!ReadLands \/ Rows!OnRow
  BY <1>1, <1>4, AnswerRows, Prompts, SocketRows, ReconnectRows, ReadRows, EventRows, OthersHeld
     DEF Rows!ListInv
<1>5. CASE Rows!OnExec \/ Rows!OnIdle \/ \E what \in {"pause", "resume", "delete"} :
             Rows!Click(what)
  BY <1>1, <1>5, ListenerRows, ListenerHeld DEF Rows!ListInv
<1>6. CASE UNCHANGED Rows!listVars
  <2>1. PageRests /\ RowsGoOn /\ UNCHANGED <<c2, c4, c5, c12, c14, c16>>
    BY <1>6 DEF Rows!listVars, Rows!server, Rows!past, PageRests, RowsGoOn, Rows!RowsInv,
         Rows!TypeOK, Rows!Born, Rows!ListInv
  <2>2. Rows!RowsInv'
    BY <1>1, <2>1, Quiet
  <2>3. Rows!PausesRemembered'
    <3>1. \A t : (Rows!Known(t)' <=> Rows!Known(t)) /\ (Rows!Known(t) => c2[t] # "gone")
      BY <2>1 DEF Rows!Known, Rows!Absent
    <3> QED
      BY <1>1, <2>1, <3>1, HeldStays DEF PageRests
  <2> QED
    BY <2>2, <2>3 DEF Rows!ListInv
<1> QED
  BY <1>2, <1>3, <1>4, <1>5, <1>6 DEF Rows!Next, Rows!ListInv

\* What the invariant says when nothing is on its way.
LEMMA ListTells ==
  ASSUME Rows!ListInv
  PROVE  Rows!ListIsTrue
<1>1. Rows!HeldIsRemembered
  BY DEF Rows!ListInv, Rows!PausesRemembered, Rows!HeldIsRemembered, Rows!Remembered
<1>2. ASSUME c8, c5 = <<>>, ~c15, NEW t \in Tasks
      PROVE  /\ Rows!Cardinality(Rows!Copies(t)) <= 1
             /\ c2[t] \in Rows!Absent => Rows!Copies(t) = {}
             /\ c2[t] \notin Rows!Absent /\ t \notin c4 =>
                  \E i \in Rows!Copies(t) : c6[i].status = c2[t]
  <2>1. Rows!Tracks(0, t, Rows!Seen(t)) /\ \A i, j \in Rows!Copies(t) : i = j
    BY <1>2 DEF Rows!ListInv, Rows!RowsInv, Rows!ListTracks
  <2>2. Rows!Mail(0, t) = {}
    BY <1>2 DEF Rows!Mail
  <2>3. /\ c2[t] = "none" => Rows!Seen(t) = {}
        /\ c2[t] = "gone" => Rows!Seen(t) = {}
        /\ c2[t] \in Rows!Shown /\ t \notin c4 => Rows!Seen(t) = {c2[t]}
    BY <2>1, <2>2 DEF Rows!Tracks
  <2>4. c2[t] \in Rows!Shown \/ c2[t] \in {"none", "gone"}
    BY DEF Rows!ListInv, Rows!RowsInv, Rows!TypeOK, Rows!Absent
  <2>5. Rows!Cardinality(Rows!Copies(t)) <= 1
    <3>1. CASE Rows!Copies(t) = {}
      BY <3>1, SameSizes, FS_EmptySet
    <3>2. CASE Rows!Copies(t) # {}
      <4>1. PICK i \in Rows!Copies(t) : Rows!Copies(t) = {i}
        BY <2>1, <3>2
      <4>2. Cardinality({i}) = 1
        BY FS_Singleton
      <4>3. Rows!Cardinality({i}) = 1
        BY <4>2, SameSizes
      <4> QED
        BY <4>1, <4>3
    <3> QED
      BY <3>1, <3>2
  <2>6. \A i \in Rows!Copies(t) : c6[i].status \in Rows!Seen(t)
    BY DEF Rows!Seen
  <2>7. \A s \in Rows!Seen(t) : \E i \in Rows!Copies(t) : c6[i].status = s
    BY DEF Rows!Seen
  <2> QED
    BY <2>3, <2>4, <2>5, <2>6, <2>7 DEF Rows!Absent
<1> QED
  BY <1>1, <1>2 DEF Rows!ListIsTrue, Rows!MirrorsServer

LEMMA ListStart ==
  ASSUME Rows!Init
  PROVE  Rows!ListInv
<1>1. /\ c2 = [t \in Tasks |-> "none"] /\ c3 = {} /\ c4 = {} /\ c17 = [t \in Tasks |-> "none"]
      /\ c5 = <<>> /\ c6 = <<>> /\ c8 = TRUE /\ c9 = 0 /\ c1 \subseteq Tasks
      /\ c7 = {[at |-> "asked", after |-> 0]} /\ c12 = {} /\ c13 = {} /\ c14 = {} /\ c15 = TRUE
  BY DEF Rows!Init
<1>2. DOMAIN c5 = {} /\ DOMAIN c6 = {} /\ c5 \in Seq(Rows!Events)
      /\ c6 \in Seq([id : Tasks, status : Rows!Shown])
  BY <1>1
<1>3. c7 \subseteq Rows!Readings /\ \A r \in c7 : r.at # "answered"
  BY <1>1 DEF Rows!Readings
<1>4. c2 \in [Tasks -> Rows!Shown \cup Rows!Absent]
  BY <1>1 DEF Rows!Absent
<1>5. Rows!TypeOK
  BY <1>1, <1>2, <1>3, <1>4 DEF Rows!TypeOK
<1>6. Rows!Born /\ Rows!AnswersTrack /\ Rows!ListTracks /\ Rows!OfflineIsBehind
  BY <1>1, <1>2, <1>3 DEF Rows!Born, Rows!AnswersTrack, Rows!ListTracks, Rows!OfflineIsBehind
<1> QED
  BY <1>1, <1>2, <1>5, <1>6 DEF Rows!ListInv, Rows!RowsInv, Rows!PausesRemembered

================================================================================
