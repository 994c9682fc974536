------------------------- MODULE PreferencesProofs -------------------------
(***************************************************************************)
(* Pages that save all they hold lose what another has added; what none of *)
(* them is without stays until somebody removes it.                        *)
(***************************************************************************)
EXTENDS Preferences, TLAPS

Copies == (SUBSET Entries) \cup {Missing}

Puts == [by : Pages, dialog : BOOLEAN, body : SUBSET Entries, removed : SUBSET Entries,
         accepted : BOOLEAN \cup {Missing}, id : Nat]

PreferencesTypeOK ==
    /\ stored \in SUBSET Entries
    /\ copy \in [Pages -> Copies]
    /\ attached \in [Pages -> Copies]
    /\ dialog \in [Pages -> Copies]
    /\ puts \in SUBSET Puts
    /\ edits \in Nat

\* Saves are numbered in the order they are made, so that a new one is new.
Numbered == \A put \in puts : put.id < edits

\* The dialog is opened on the page's copy, which is replaced and never given up.
DialogHasCopy == \A p \in Pages : dialog[p] # Missing => copy[p] # Missing

PagesInv == PreferencesTypeOK /\ Numbered /\ DialogHasCopy

\* What UncontestedStays says of one step.
Kept(e) == Uncontested(e) /\ ~ Uncontested(e)' => \E put \in puts' \ puts : e \in put.removed

-----------------------------------------------------------------------------
(* Lemmas                                                                  *)

\* A page's copy is a set of entries, or the page has none.
LEMMA CopyIsSet ==
    ASSUME PagesInv, NEW p \in Pages
    PROVE  /\ copy[p] # Missing => copy[p] \in SUBSET Entries
           /\ attached[p] # Missing => attached[p] \in SUBSET Entries
           /\ dialog[p] # Missing => dialog[p] \in SUBSET Entries
BY DEF PagesInv, PreferencesTypeOK, Copies

\* No set of entries is taken for a missing one.
LEMMA SetIsNotMissing == ASSUME NEW s \in SUBSET Entries PROVE s # Missing
BY PreferencesAssumption DEF Entries

\* A save changes the saves under way and nothing else; it is a new one.
LEMMA Sending ==
    ASSUME PagesInv, NEW p \in Pages, NEW body \in SUBSET Entries, NEW removed \in SUBSET Entries,
           Send(p, body, removed), UNCHANGED <<stored, copy, attached, dialog>>
    PROVE  /\ PagesInv'
           /\ \E put \in puts' \ puts : put.body = body /\ put.removed = removed
           /\ \A put \in puts' \ puts : put.body = body
<1> DEFINE n == [by |-> p, dialog |-> dialog[p] # Missing, body |-> body,
                 removed |-> removed, accepted |-> Missing, id |-> edits]
<1>1. edits \in Nat /\ edits' = edits + 1 /\ puts' = puts \cup {n}
  BY DEF Send, PagesInv, PreferencesTypeOK
<1>2. n \in Puts
  <2>1. (dialog[p] # Missing) \in BOOLEAN
    OBVIOUS
  <2> QED BY <2>1, <1>1 DEF Puts
<1>3. n \notin puts
  <2>1. \A put \in puts : put.id < edits
    BY DEF PagesInv, Numbered
  <2>2. n.id = edits
    OBVIOUS
  <2> QED BY <2>1, <2>2, <1>1
<1>4. PreferencesTypeOK'
  BY <1>1, <1>2 DEF PagesInv, PreferencesTypeOK
<1>5. Numbered'
  <2> SUFFICES ASSUME NEW put \in puts' PROVE put.id < edits'
    BY DEF Numbered
  <2>1. CASE put = n
    BY <2>1, <1>1
  <2>2. CASE put \in puts
    BY <2>2, <1>1 DEF PagesInv, PreferencesTypeOK, Numbered, Puts
  <2> QED BY <2>1, <2>2, <1>1
<1>6. DialogHasCopy'
  BY DEF PagesInv, DialogHasCopy
<1>7. n.body = body /\ n.removed = removed
  OBVIOUS
<1> HIDE DEF n
<1> QED BY <1>1, <1>3, <1>4, <1>5, <1>6, <1>7 DEF PagesInv

\* After a save an entry is uncontested still, if the save has it.
LEMMA SentKeeps ==
    ASSUME PagesInv, NEW p \in Pages, NEW body \in SUBSET Entries, NEW removed \in SUBSET Entries,
           Send(p, body, removed), UNCHANGED <<stored, copy, attached, dialog>>,
           NEW e \in Entries, Uncontested(e) => e \in body \/ e \in removed
    PROVE  Kept(e)
<1> SUFFICES ASSUME Uncontested(e), ~ Uncontested(e)'
             PROVE  \E put \in puts' \ puts : e \in put.removed
  BY DEF Kept
<1>1. CASE e \in body
  <2>1. \A put \in puts' : e \in put.body
    BY <1>1, Sending DEF Uncontested
  <2>2. Uncontested(e)'
    BY <2>1 DEF Uncontested, Held
  <2> QED BY <2>2
<1>2. CASE e \in removed
  BY <1>2, Sending
<1> QED BY <1>1, <1>2

-----------------------------------------------------------------------------
(* The invariant                                                           *)

THEOREM PagesInit == PreferencesInit => PagesInv
BY DEF PreferencesInit, PagesInv, PreferencesTypeOK, Numbered, DialogHasCopy, Copies

\* The three ways a page saves, each of a set of entries.
LEMMA ToggleSends ==
    ASSUME PagesInv, NEW p \in Pages, Toggle(p)
    PROVE  PagesInv' /\ \A e \in Entries : Kept(e)
<1>1. copy[p] \in SUBSET Entries
  BY CopyIsSet DEF Toggle, Editable
<1>2. PICK f \in Favorites : IF f \in copy[p] THEN Send(p, copy[p] \ {f}, {f})
                                              ELSE Send(p, copy[p] \cup {f}, {})
  BY DEF Toggle
<1>3. UNCHANGED <<stored, copy, attached, dialog>>
  BY DEF Toggle
<1>4. \A e \in Entries : Uncontested(e) => e \in copy[p]
  BY <1>1, SetIsNotMissing DEF Uncontested, Held
<1>5. CASE f \in copy[p]
  <2>1. copy[p] \ {f} \in SUBSET Entries /\ {f} \in SUBSET Entries
    BY <1>1 DEF Entries
  <2>2. Send(p, copy[p] \ {f}, {f})
    BY <1>2, <1>5
  <2>3. PagesInv'
    BY <2>1, <2>2, <1>3, Sending
  <2>4. ASSUME NEW e \in Entries PROVE Kept(e)
    <3>1. Uncontested(e) => e \in copy[p] \ {f} \/ e \in {f}
      BY <1>4
    <3> QED BY <2>1, <2>2, <1>3, <3>1, SentKeeps
  <2> QED BY <2>3, <2>4
<1>6. CASE f \notin copy[p]
  <2>1. copy[p] \cup {f} \in SUBSET Entries /\ {} \in SUBSET Entries
    BY <1>1 DEF Entries
  <2>2. Send(p, copy[p] \cup {f}, {})
    BY <1>2, <1>6
  <2>3. PagesInv'
    BY <2>1, <2>2, <1>3, Sending
  <2>4. ASSUME NEW e \in Entries PROVE Kept(e)
    <3>1. Uncontested(e) => e \in copy[p] \cup {f} \/ e \in {}
      BY <1>4
    <3> QED BY <2>1, <2>2, <1>3, <3>1, SentKeeps
  <2> QED BY <2>3, <2>4
<1> QED BY <1>5, <1>6

LEMMA AddToGroupSends ==
    ASSUME PagesInv, NEW p \in Pages, AddToGroup(p)
    PROVE  PagesInv' /\ \A e \in Entries : Kept(e)
<1>1. copy[p] \in SUBSET Entries
  BY CopyIsSet DEF AddToGroup, Editable
<1>2. PICK g \in Grouped : Send(p, copy[p] \cup {g}, {})
  BY DEF AddToGroup
<1>3. UNCHANGED <<stored, copy, attached, dialog>>
  BY DEF AddToGroup
<1>4. copy[p] \cup {g} \in SUBSET Entries /\ {} \in SUBSET Entries
  BY <1>1 DEF Entries
<1>5. PagesInv'
  BY <1>2, <1>3, <1>4, Sending
<1>6. ASSUME NEW e \in Entries PROVE Kept(e)
  <2>1. Uncontested(e) => e \in copy[p] \cup {g} \/ e \in {}
    BY <1>1, SetIsNotMissing DEF Uncontested, Held
  <2> QED BY <1>2, <1>3, <1>4, <2>1, SentKeeps
<1> QED BY <1>5, <1>6

\* The dialog sends its groups and the favourites of the page behind it, which
\* has a copy.
LEMMA SubmitSends ==
    ASSUME PagesInv, NEW p \in Pages, Submit(p)
    PROVE  PagesInv' /\ \A e \in Entries : Kept(e)
<1>1. dialog[p] \in SUBSET Entries /\ copy[p] \in SUBSET Entries
  BY CopyIsSet DEF Submit, PagesInv, DialogHasCopy
<1>2. PICK groups \in SUBSET Grouped :
          Send(p, groups \cup FavoritesNow(p), (dialog[p] \cap Grouped) \ groups)
  BY DEF Submit
<1>3. UNCHANGED <<stored, copy, attached, dialog>>
  BY DEF Submit
<1>4. /\ groups \cup FavoritesNow(p) \in SUBSET Entries
      /\ (dialog[p] \cap Grouped) \ groups \in SUBSET Entries
  BY DEF Entries, FavoritesNow
<1>5. PagesInv'
  BY <1>2, <1>3, <1>4, Sending
<1>6. ASSUME NEW e \in Entries PROVE Kept(e)
  <2>1. ASSUME Uncontested(e)
        PROVE  e \in groups \cup FavoritesNow(p) \/ e \in (dialog[p] \cap Grouped) \ groups
    <3>1. e \in copy[p]
      BY <1>1, <2>1, SetIsNotMissing DEF Uncontested, Held
    <3>2. e \in Grouped => e \in dialog[p]
      BY <1>1, <2>1, SetIsNotMissing DEF Uncontested, Held
    <3> QED BY <3>1, <3>2 DEF Entries, FavoritesNow
  <2> QED BY <1>2, <1>3, <1>4, <2>1, SentKeeps
<1> QED BY <1>5, <1>6

\* A page that receives, opens or closes takes nothing from anybody.
LEMMA PageReceives ==
    ASSUME PagesInv, NEW p \in Pages,
           Attach(p) \/ Apply(p) \/ StreamFails(p) \/ OpenDialog(p) \/ CloseDialog(p)
    PROVE  PagesInv' /\ \A e \in Entries : Kept(e)
<1> USE DEF PagesInv, PreferencesTypeOK, Numbered, DialogHasCopy, Copies, Kept, Uncontested, Held
<1>1. CASE Attach(p)
  BY <1>1 DEF Attach
<1>2. CASE Apply(p)
  <2>1. attached[p] # Missing /\ copy' = [copy EXCEPT ![p] = attached[p]]
        /\ UNCHANGED <<stored, dialog, puts, edits>>
    BY <1>2 DEF Apply
  <2>2. attached' = attached \/ attached' = [attached EXCEPT ![p] = Missing]
    BY <1>2 DEF Apply
  <2> QED BY <2>1, <2>2
<1>3. CASE StreamFails(p)
  BY <1>3 DEF StreamFails
<1>4. CASE OpenDialog(p)
  BY <1>4 DEF OpenDialog, Editable
<1>5. CASE CloseDialog(p)
  BY <1>5 DEF CloseDialog
<1> QED BY <1>1, <1>2, <1>3, <1>4, <1>5

\* The server stores what was sent, and the page takes it when it is told so:
\* every save under way has what is uncontested.
LEMMA ServerAnswers ==
    ASSUME PagesInv, NEW put \in puts, Save(put) \/ Answered(put)
    PROVE  PagesInv' /\ \A e \in Entries : Kept(e)
<1>1. put \in Puts /\ put.body \in SUBSET Entries /\ put.by \in Pages /\ put.body # Missing
  BY SetIsNotMissing DEF PagesInv, PreferencesTypeOK, Puts
<1>2. CASE Save(put)
  <2> DEFINE decided == [put EXCEPT !.accepted = Valid(put.body)]
  <2>1. /\ puts' = (puts \ {put}) \cup {decided}
        /\ stored' = put.body \/ stored' = stored
        /\ UNCHANGED <<copy, attached, dialog, edits>>
    BY <1>2 DEF Save
  <2>2. /\ decided \in Puts /\ decided.body = put.body /\ decided.id = put.id
    <3>1. Valid(put.body) \in BOOLEAN
      BY DEF Valid
    <3> QED BY <1>1, <3>1 DEF Puts
  <2> HIDE DEF decided
  <2>3. PreferencesTypeOK'
    BY <1>1, <2>1, <2>2 DEF PagesInv, PreferencesTypeOK
  <2>4. Numbered' /\ DialogHasCopy'
    BY <2>1, <2>2 DEF PagesInv, Numbered, DialogHasCopy
  <2>5. \A e \in Entries : Kept(e)
    BY <2>1, <2>2 DEF Kept, Uncontested, Held
  <2> QED BY <2>3, <2>4, <2>5 DEF PagesInv
<1>3. CASE Answered(put)
  <2>1. puts' = puts \ {put} /\ UNCHANGED <<stored, attached, edits>>
    BY <1>3 DEF Answered
  <2>2. copy' = copy \/ copy' = [copy EXCEPT ![put.by] = put.body]
    BY <1>3 DEF Answered
  <2>3. dialog' = dialog \/ dialog' = [dialog EXCEPT ![put.by] = Missing]
    BY <1>3 DEF Answered
  <2>4. PreferencesTypeOK'
    BY <1>1, <2>1, <2>2, <2>3 DEF PagesInv, PreferencesTypeOK, Copies
  <2>5. Numbered'
    BY <2>1 DEF PagesInv, Numbered
  <2>6. DialogHasCopy'
    BY <1>1, <2>2, <2>3 DEF PagesInv, PreferencesTypeOK, DialogHasCopy
  <2>7. ASSUME NEW e \in Entries PROVE Kept(e)
    <3>1. Uncontested(e) => e \in put.body
      BY DEF Uncontested
    <3> QED BY <1>1, <2>1, <2>2, <2>3, <3>1
            DEF Kept, Uncontested, Held, PagesInv, PreferencesTypeOK
  <2> QED BY <2>4, <2>5, <2>6, <2>7 DEF PagesInv
<1> QED BY <1>2, <1>3

LEMMA PagesStep ==
    ASSUME PagesInv, [PreferencesNext]_preferences
    PROVE  PagesInv' /\ \A e \in Entries : Kept(e)
<1>1. CASE UNCHANGED preferences
  BY <1>1 DEF preferences, PagesInv, PreferencesTypeOK, Numbered, DialogHasCopy, Kept, Uncontested, Held
<1>2. ASSUME NEW p \in Pages,
             Attach(p) \/ Apply(p) \/ StreamFails(p) \/ OpenDialog(p) \/ CloseDialog(p)
      PROVE  PagesInv' /\ \A e \in Entries : Kept(e)
  BY <1>2, PageReceives
<1>3. ASSUME NEW p \in Pages, Toggle(p) \/ AddToGroup(p) \/ Submit(p)
      PROVE  PagesInv' /\ \A e \in Entries : Kept(e)
  BY <1>3, ToggleSends, AddToGroupSends, SubmitSends
<1>4. ASSUME NEW put \in puts, Save(put) \/ Answered(put)
      PROVE  PagesInv' /\ \A e \in Entries : Kept(e)
  BY <1>4, ServerAnswers
<1> QED BY <1>1, <1>2, <1>3, <1>4 DEF PreferencesNext

-----------------------------------------------------------------------------

\* Every page's copies are sets of entries, dialogs are opened on one, saves are
\* told apart.
THEOREM PagesInvariant == PreferencesSpec => []PagesInv
<1>1. PagesInv /\ [PreferencesNext]_preferences => PagesInv'
  BY PagesStep
<1> QED BY PagesInit, <1>1, PTL DEF PreferencesSpec

\* An entry that the server, every page, stream, dialog and save under way has is
\* lost only by a save that removes it - however many pages save at once.
THEOREM NoUncontestedEntryIsLost == PreferencesSpec => UncontestedStays
<1>1. PagesInv /\ [PreferencesNext]_preferences =>
          [\A e \in Entries : Uncontested(e) /\ ~ Uncontested(e)' =>
               \E put \in puts' \ puts : e \in put.removed]_preferences
  BY PagesStep DEF Kept
<1> QED BY PagesInvariant, <1>1, PTL DEF PreferencesSpec, UncontestedStays
=============================================================================
