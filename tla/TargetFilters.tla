------------------------------ MODULE TargetFilters ------------------------------
(***************************************************************************)
(* The filters of the pages that list targets: the category, project and   *)
(* location (one choice here), the tags picked with the chips of           *)
(* TagChipInput, which can be pinned on the targets page, the pages of the *)
(* result, and the searches of the search page that are saved in the       *)
(* browser, whose tabs each keep the list as they found it.  Saved         *)
(* searches are in the order of their numbers, and the order of tags plays *)
(* no part, so both are sets.                                              *)
(***************************************************************************)
EXTENDS Naturals, FiniteSets

CONSTANTS
    Tag,            \* the tags of the catalogue, and those deleted from it
    Target,         \* targets, numbers in the order of the list
    TagsOf(_),      \* tags of a target
    Choice,         \* categories
    ChoiceOf(_),
    Anything,       \* no category chosen
    RowsOfPage,
    Tab,            \* tabs of the browser on the search page
    MaxSaved        \* bound: searches saved

ASSUME RowAssumption ==
    /\ Target \subseteq Nat /\ IsFiniteSet(Target) /\ IsFiniteSet(Tag)
    /\ RowsOfPage \in Nat \ {0} /\ Anything \notin Choice

VARIABLES
    screen,     \* "targets" or "search"
    catalogue,  \* options of the chip input
    targets,    \* the list as last loaded
    choice,     \* activeCategory, filterProject, ...
    tags,       \* activeTags, filterTags
    pinned,     \* pinnedTags
    current,    \* currentPage
    searches,   \* savedSearches of each tab
    storage,    \* the browser's local storage
    ever,       \* number of searches saved so far
    wanted,     \* history: searches saved and not deleted
    crossed,    \* history: a tab wrote a list that lacked what another had written
    squeezed    \* history: the list got shorter under the page

savedVars == <<searches, storage, ever, wanted, crossed>>
filterVars == <<screen, catalogue, targets, choice, tags, pinned, current, savedVars, squeezed>>

FiltersInit ==
    /\ screen \in {"targets", "search"}
    /\ catalogue = Tag /\ targets = Target
    /\ choice = Anything /\ tags = {} /\ pinned = {}
    /\ current = 1
    /\ searches = [b \in Tab |-> {}] /\ storage = {}
    /\ ever = 0 /\ wanted = {} /\ crossed = FALSE
    /\ squeezed = FALSE

\* The rows that have the choice and every tag.
Matching ==
    {t \in targets : /\ choice = Anything \/ ChoiceOf(t) = choice
                     /\ tags \subseteq TagsOf(t)}

\* Search shows nothing without a filter.  The targets page then sorts the rows by how
\* many pinned tags they have: all have all of them, and the rows stay in their order.
filteredTargets == IF screen = "search" /\ choice = Anything /\ tags = {} THEN {} ELSE Matching

LastPage ==
    LET n == Cardinality(filteredTargets) IN IF n = 0 THEN 1 ELSE (n + RowsOfPage - 1) \div RowsOfPage
-----------------------------------------------------------------------------
(* Filters.  A change of one leads back to the first page; a change of the pins does not. *)

\* The page stays where it was.
SetTagsHere(new) ==
    /\ tags' = new
    /\ squeezed' = FALSE /\ UNCHANGED current

SetTags(new) ==
    /\ tags' = new
    /\ current' = 1 /\ squeezed' = FALSE

Chosen(c) ==
    /\ c # choice /\ choice' = c
    /\ current' = 1 /\ squeezed' = FALSE
    /\ UNCHANGED <<screen, catalogue, targets, tags, pinned, savedVars>>

\* Only tags of the catalogue, once each.
addChip(v) ==
    /\ v \in catalogue \ tags
    /\ SetTags(tags \cup {v})
    /\ UNCHANGED <<screen, catalogue, targets, choice, pinned, savedVars>>

\* By its button, or the last one by the backspace key; its pin goes with it.
removeChip(v) ==
    /\ v \in tags
    /\ SetTags(tags \ {v})
    /\ pinned' = pinned \ {v}
    /\ UNCHANGED <<screen, catalogue, targets, choice, savedVars>>

togglePin(v) ==
    /\ screen = "targets" /\ v \in tags
    /\ pinned' = IF v \in pinned THEN pinned \ {v} ELSE pinned \cup {v}
    /\ UNCHANGED <<screen, catalogue, targets, choice, tags, current, savedVars, squeezed>>

\* The buttons are there if there is more than one page.
Turned(p) ==
    /\ screen = "targets" /\ LastPage > 1
    /\ current' = p
    /\ squeezed' = (p > LastPage)
    /\ UNCHANGED <<screen, catalogue, targets, choice, tags, pinned, savedVars>>

PrevRows == current > 1 /\ Turned(current - 1)
NextRows == current < LastPage /\ Turned(current + 1)

loadTargets ==
    \E new \in SUBSET Target :
        /\ targets' = new
        /\ UNCHANGED <<screen, catalogue, choice, tags, pinned, current, savedVars>>
        /\ squeezed' = (current > LastPage')

\* Tags of chips that are there may be gone.
loadTagOptions ==
    /\ catalogue' \in SUBSET Tag
    /\ UNCHANGED <<screen, targets, choice, tags, pinned, current, savedVars, squeezed>>
-----------------------------------------------------------------------------
(* Saved searches. *)

Store(b, list) ==
    /\ searches' = [searches EXCEPT ![b] = list]
    /\ storage' = list
    /\ crossed' = (crossed \/ searches[b] # storage)

saveCurrentSearch(b) ==
    /\ screen = "search"
    /\ choice # Anything \/ tags # {}
    /\ ever < MaxSaved /\ ever' = ever + 1
    /\ Store(b, searches[b] \cup {[id |-> ever + 1, choice |-> choice, tags |-> tags]})
    /\ wanted' = wanted \cup {ever + 1}
    /\ UNCHANGED <<screen, catalogue, targets, choice, tags, pinned, current, squeezed>>

deleteSavedSearch(b, s) ==
    /\ s \in searches[b]
    /\ Store(b, searches[b] \ {s})
    /\ wanted' = wanted \ {s.id}
    /\ UNCHANGED <<screen, catalogue, targets, choice, tags, pinned, current, ever, squeezed>>

applySavedSearch(b, s) ==
    /\ s \in searches[b]
    /\ choice' = s.choice /\ tags' = s.tags
    /\ UNCHANGED <<screen, catalogue, targets, pinned, current, savedVars, squeezed>>

\* The page is opened anew.
loadSavedSearches(b) ==
    /\ screen = "search"
    /\ searches' = [searches EXCEPT ![b] = storage]
    /\ UNCHANGED <<screen, catalogue, targets, choice, tags, pinned, current, storage, ever,
                   wanted, crossed, squeezed>>

FiltersNext ==
    \/ PrevRows \/ NextRows \/ loadTargets \/ loadTagOptions
    \/ \E c \in Choice \cup {Anything} : Chosen(c)
    \/ \E v \in Tag : addChip(v) \/ removeChip(v) \/ togglePin(v)
    \/ \E b \in Tab :
          \/ saveCurrentSearch(b) \/ loadSavedSearches(b)
          \/ \E s \in searches[b] : deleteSavedSearch(b, s) \/ applySavedSearch(b, s)

FiltersSpec == FiltersInit /\ [][FiltersNext]_filterVars
-----------------------------------------------------------------------------
(* Properties. *)

\* A pin promotes rows, as TargetsView.vue and the button of a chip say: the rows without
\* a pinned tag are in the list too, below the others.
PinsPromote ==
    pinned # {} =>
        {t \in targets : /\ choice = Anything \/ ChoiceOf(t) = choice
                         /\ tags \ pinned \subseteq TagsOf(t)} \subseteq filteredTargets

\* The page shown exists, unless the list got shorter since the filters changed.
PageExists == squeezed \/ current <= LastPage

\* A search that was saved is there until it is deleted, unless two tabs wrote the list.
SearchesKept == crossed \/ {s.id : s \in storage} = wanted

FiltersHold == PageExists /\ SearchesKept

===============================================================================
