---------------------------- MODULE Preferences ----------------------------
(***************************************************************************)
(* Groups and favourites: GetPreferences, SavePreferences and PUT          *)
(* /api/preferences, for the browser that edits them (static/app.js).      *)
(* There is no merge: a browser sends all of its copy, which it takes from *)
(* every overview it is shown and from the answer to its own save.  An     *)
(* overview stream reads the preferences once, when it begins.             *)
(*                                                                         *)
(* Preferences are the set of their entries: a repository among the        *)
(* favourites, or in a group.                                              *)
(***************************************************************************)
EXTENDS Naturals, FiniteSets

CONSTANTS
    Pages,        \* open dashboard pages of one account
    Favorites,    \* entries: favourites
    Grouped,      \* entries: repositories in groups
    MaxTotal,     \* _MAX_REPOS_TOTAL
    MaxEdits,     \* bound: saves
    Missing       \* no copy yet

ASSUME PreferencesAssumption ==
    /\ Favorites \cap Grouped = {} /\ MaxTotal \in Nat /\ MaxEdits \in Nat
    /\ \A s \in SUBSET (Favorites \cup Grouped) : s # Missing

Entries == Favorites \cup Grouped

VARIABLES
    stored,     \* UserStateRepository
    copy,       \* page -> state.data.preferences
    attached,   \* page -> what the overview stream it reads has attached
    dialog,     \* page -> what the groups dialog was opened on
    puts,       \* saves under way; accepted is None until the server has decided
    edits       \* saves so far

preferences == <<stored, copy, attached, dialog, puts, edits>>

\* validate_preferences: at most so many repositories.  The limits on groups and
\* their names reject a save in the same way.
Valid(body) == Cardinality(body) <= MaxTotal

PreferencesInit ==
    /\ stored \in {s \in SUBSET Entries : Valid(s)}
    /\ copy = [p \in Pages |-> Missing]
    /\ attached = [p \in Pages |-> Missing]
    /\ dialog = [p \in Pages |-> Missing]
    /\ puts = {} /\ edits = 0

-----------------------------------------------------------------------------

\* The stream begins; GET /api/overview reads them when it ends.
Attach(p) ==
    /\ attached[p] = Missing
    /\ attached' = [attached EXCEPT ![p] = stored]
    /\ UNCHANGED <<stored, copy, dialog, puts, edits>>

\* applyOverview: each event replaces all of the page's data.
Apply(p) ==
    /\ attached[p] # Missing
    /\ copy' = [copy EXCEPT ![p] = attached[p]]
    /\ attached' \in {attached, [attached EXCEPT ![p] = Missing]}
    /\ UNCHANGED <<stored, dialog, puts, edits>>

StreamFails(p) ==
    /\ attached[p] # Missing
    /\ attached' = [attached EXCEPT ![p] = Missing]
    /\ UNCHANGED <<stored, copy, dialog, puts, edits>>

Send(p, body, removed) ==
    /\ edits < MaxEdits /\ edits' = edits + 1
    /\ puts' = puts \cup {[by |-> p, dialog |-> dialog[p] # Missing, body |-> body,
                           removed |-> removed, accepted |-> Missing, id |-> edits]}

\* The groups dialog is modal: behind it a page only receives.
Editable(p) == copy[p] # Missing /\ dialog[p] = Missing

\* toggleFavorite.
Toggle(p) ==
    /\ Editable(p)
    /\ \E e \in Favorites : IF e \in copy[p] THEN Send(p, copy[p] \ {e}, {e})
                                             ELSE Send(p, copy[p] \cup {e}, {})
    /\ UNCHANGED <<stored, copy, attached, dialog>>

\* addRepoToGroup.
AddToGroup(p) ==
    /\ Editable(p)
    /\ \E e \in Grouped \ copy[p] : Send(p, copy[p] \cup {e}, {})
    /\ UNCHANGED <<stored, copy, attached, dialog>>

OpenDialog(p) ==
    /\ Editable(p)
    /\ dialog' = [dialog EXCEPT ![p] = copy[p]]
    /\ UNCHANGED <<stored, copy, attached, puts, edits>>

CloseDialog(p) ==
    /\ dialog[p] # Missing
    /\ dialog' = [dialog EXCEPT ![p] = Missing]
    /\ UNCHANGED <<stored, copy, attached, puts, edits>>

\* Mutant: the dialog saves the favourites it was opened with.
FavoritesAsOpened(p) == dialog[p] \cap Favorites

\* The dialog edits groups only, the favourites are the page's.
FavoritesNow(p) == copy[p] \cap Favorites

Submit(p) ==
    /\ dialog[p] # Missing
    /\ \E groups \in SUBSET Grouped :
          Send(p, groups \cup FavoritesNow(p), (dialog[p] \cap Grouped) \ groups)
    /\ UNCHANGED <<stored, copy, attached, dialog>>

-----------------------------------------------------------------------------

\* SavePreferences: all or nothing.
Save(put) ==
    /\ put.accepted = Missing
    /\ stored' = IF Valid(put.body) THEN put.body ELSE stored
    /\ puts' = (puts \ {put}) \cup {[put EXCEPT !.accepted = Valid(put.body)]}
    /\ UNCHANGED <<copy, attached, dialog, edits>>

\* The answer, or a network error, and a save that may never have arrived.
Answered(put) ==
    /\ puts' = puts \ {put}
    /\ \/ /\ put.accepted = TRUE
          /\ copy' = [copy EXCEPT ![put.by] = put.body]
          /\ dialog' = IF put.dialog THEN [dialog EXCEPT ![put.by] = Missing] ELSE dialog
       \/ UNCHANGED <<copy, dialog>>
    /\ UNCHANGED <<stored, attached, edits>>

PreferencesNext ==
    \/ \E p \in Pages :
          \/ Attach(p) \/ Apply(p) \/ StreamFails(p) \/ Toggle(p) \/ AddToGroup(p)
          \/ OpenDialog(p) \/ CloseDialog(p) \/ Submit(p)
    \/ \E put \in puts : Save(put) \/ Answered(put)

PreferencesSpec == PreferencesInit /\ [][PreferencesNext]_preferences

-----------------------------------------------------------------------------

Held(e, what) == what = Missing \/ e \in what

\* Wherever preferences are kept or under way, e is among them.
Uncontested(e) ==
    /\ e \in stored
    /\ \A p \in Pages : Held(e, copy[p]) /\ Held(e, attached[p])
    /\ e \in Grouped => \A p \in Pages : Held(e, dialog[p])
    /\ \A put \in puts : e \in put.body

\* Pages overwrite each other's edits, and a page's own ones when it saves again
\* before it has its answer, or while it reads a stream that began earlier.  But
\* an entry that every one of them has is lost only by removing it.
UncontestedStays ==
    [][\A e \in Entries :
          Uncontested(e) /\ ~ Uncontested(e)' => \E put \in puts' \ puts : e \in put.removed]_preferences
=============================================================================
