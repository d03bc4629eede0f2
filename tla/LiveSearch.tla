----------------------------- MODULE LiveSearch -----------------------------
(***************************************************************************)
(* The search box of the grid page (static/js/grid.js, section 9): what is *)
(* typed is searched for after a pause, what is selected as a tag filter   *)
(* at once, and every search has up to two requests in flight, for tags to *)
(* suggest and for items, which a later search aborts.  JavaScript runs an *)
(* event handler to its end, then what hangs on promises that are settled, *)
(* then the next handler.                                                  *)
(*                                                                         *)
(* The results of a search are determined by its text and filters, which   *)
(* stand for them.  The spinner, focus by arrow keys and the panels of the *)
(* grid are left out; the URL is there only as what the back button        *)
(* returns to, which is any search asked for before, or none.              *)
(***************************************************************************)
EXTENDS Integers, FiniteSets

CONSTANTS
    Short,       \* texts of one letter, which suggest tags but find no items
    Long,        \* texts of two letters or more
    Tag,         \* the tags that can be selected as filters
    Slot,        \* bounds the number of searches in flight
    TagAnswers   \* how requests for tags end: "found", "failed", "refused"

NoText  == ""
Nothing == [query |-> NoText, filters |-> {}, items |-> "none"]
NoSlot  == 0
NoTimer == [due |-> FALSE, query |-> NoText]

ASSUME SearchAssumption ==
    /\ NoText \notin Short \cup Long /\ Short \cap Long = {}
    /\ Slot \subseteq Nat \ {0}
    /\ TagAnswers \subseteq {"found", "failed", "refused"}

VARIABLES
    input,        \* searchInput.value, trimmed
    filters,      \* activeFilterTags
    timer,        \* debounceTimer: whether it is set, and the text it captured
    search,       \* the searches in flight: slot -> text, filters, requests
    searchAbort,  \* the search whose request for items the controller aborts
    tagAbort,     \* the search whose request for tags the controller aborts
    list,         \* the search whose results are rendered, and how it ended
    suggested,    \* currentTagSuggestions
    visible,      \* whether the dropdown is shown
    adrift        \* whether the back button left the page without a search for
                  \*   what is in the box (see restoreSearchFromURL)

vars == <<input, filters, timer, search, searchAbort, tagAbort, list,
          suggested, visible, adrift>>

Text == Short \cup Long \cup {NoText}

-----------------------------------------------------------------------------
InFlight(s) == s \in DOMAIN search

\* The controllers' abort(): a request that is still pending is rejected.
Abort(flying) ==
    [s \in DOMAIN flying |->
        [flying[s] EXCEPT
            !.tags  = IF s = tagAbort /\ @ = "pending" THEN "aborted" ELSE @,
            !.items = IF s = searchAbort /\ @ = "pending" THEN "aborted" ELSE @]]

\* The requests of a search: none for tags without a text, none for items
\* without two letters or a filter.
Started(query, tags) ==
    [query |-> query, filters |-> tags,
     tags  |-> IF query # NoText THEN "pending" ELSE "none",
     items |-> IF query \in Long \/ tags # {} THEN "pending" ELSE "none"]

\* Bug: the controllers are aborted after the new ones are in place.
performUnifiedSearch_AbortsItself(query, tags) ==
    \E s \in Slot \ DOMAIN search :
        LET new == Started(query, tags)
            Cut(how) == IF how = "pending" THEN "aborted" ELSE how
        IN  /\ \A free \in Slot \ DOMAIN search : s <= free
            /\ search' = [q \in DOMAIN search \cup {s} |->
                             IF q = s THEN [new EXCEPT !.tags = Cut(@), !.items = Cut(@)]
                             ELSE search[q]]
            /\ tagAbort' = IF new.tags = "pending" THEN s ELSE tagAbort
            /\ searchAbort' = IF new.items = "pending" THEN s ELSE searchAbort

\* Whatever the controllers hold is aborted; those of requests not sent stay.
performUnifiedSearch(query, tags) ==
    \E s \in Slot \ DOMAIN search :
        LET new == Started(query, tags)
        IN  /\ \A free \in Slot \ DOMAIN search : s <= free
            /\ search' = [q \in DOMAIN search \cup {s} |->
                             IF q = s THEN new ELSE Abort(search)[q]]
            /\ tagAbort' = IF new.tags = "pending" THEN s ELSE tagAbort
            /\ searchAbort' = IF new.items = "pending" THEN s ELSE searchAbort

AbortAll ==
    /\ search' = Abort(search)
    /\ searchAbort' = NoSlot
    /\ tagAbort' = NoSlot

\* A search for the text in the box is in place, unless the timer is about to
\* abort it for another text, whose answers nobody will want.
Settle(query) == adrift' = (timer.due /\ query \notin {timer.query, NoText})

-----------------------------------------------------------------------------
\* A page is loaded with a search in its URL, or none.
Init ==
    /\ input \in Text
    /\ filters \in SUBSET Tag
    /\ timer = NoTimer
    /\ list = Nothing /\ suggested = {} /\ visible = FALSE /\ adrift = FALSE
    /\ LET asked == input # NoText \/ filters # {}
           new == Started(input, filters)
       IN  \E s \in Slot :
               /\ \A free \in Slot : s <= free
               /\ search = [q \in IF asked THEN {s} ELSE {} |-> new]
               /\ tagAbort = IF asked /\ new.tags = "pending" THEN s ELSE NoSlot
               /\ searchAbort = IF asked /\ new.items = "pending" THEN s ELSE NoSlot

\* The input event.
Type(query) ==
    /\ input' = query
    /\ IF query = NoText /\ filters = {}
       THEN timer' = NoTimer /\ visible' = FALSE /\ AbortAll
       ELSE /\ timer' = [due |-> TRUE, query |-> query]
            /\ UNCHANGED <<visible, search, searchAbort, tagAbort>>
    /\ adrift' = FALSE
    /\ UNCHANGED <<filters, list, suggested>>

\* 250 ms without an input event; the text is the one of that event.
Debounced ==
    /\ timer.due
    /\ timer' = NoTimer
    /\ performUnifiedSearch(timer.query, filters)
    /\ adrift' = (adrift /\ timer.query # input)
    /\ UNCHANGED <<input, filters, list, suggested, visible>>

\* A suggestion, or a tag of a result, is clicked.  The timer stays set.
addFilterTag(t) ==
    /\ visible
    /\ t \notin filters
    /\ t \in suggested \/ list.items = "found"
    /\ filters' = filters \cup {t}
    /\ input' = NoText
    /\ performUnifiedSearch(NoText, filters')
    /\ Settle(NoText)
    /\ UNCHANGED <<timer, list, suggested, visible>>

removeFilterTag(t) ==
    /\ t \in filters
    /\ filters' = filters \ {t}
    /\ performUnifiedSearch(input, filters')
    /\ Settle(input)
    /\ UNCHANGED <<input, timer, list, suggested, visible>>

\* The clear button, or Escape when no dropdown is shown.
clearSearch ==
    /\ input # NoText \/ filters # {}
    /\ input' = NoText /\ filters' = {} /\ timer' = NoTimer /\ adrift' = FALSE
    /\ visible' = FALSE /\ list' = Nothing /\ suggested' = {}
    /\ AbortAll

clearAllFilters ==
    /\ filters # {}
    /\ \/ input = NoText /\ clearSearch
       \/ /\ input # NoText
          /\ filters' = {}
          /\ performUnifiedSearch(input, {})
          /\ Settle(input)
          /\ UNCHANGED <<input, timer, list, suggested, visible>>

\* Back or forward to a URL with this search.  One without is only shown in the
\* box: nothing is hidden and nothing aborted.  The timer stays set.
restoreSearchFromURL(query, tags) ==
    /\ input' = query /\ filters' = tags
    /\ \/ /\ query # NoText \/ tags # {}
          /\ performUnifiedSearch(query, tags)
          /\ Settle(query)
       \/ /\ query = NoText /\ tags = {}
          /\ adrift' = visible
          /\ UNCHANGED <<search, searchAbort, tagAbort>>
    /\ UNCHANGED <<timer, list, suggested, visible>>

\* Escape, a click elsewhere, a result chosen, the focus lost.
hideDropdown ==
    /\ visible /\ visible' = FALSE
    /\ UNCHANGED <<input, filters, timer, search, searchAbort, tagAbort, list,
                   suggested, adrift>>

\* A request ends: with an answer, with a failure that counts as an empty one,
\* or with an error response, which is no list of tags but an empty one of items.
TagsAnswer(s) ==
    /\ InFlight(s) /\ search[s].tags = "pending"
    /\ \E how \in TagAnswers : search' = [search EXCEPT ![s].tags = how]
    /\ UNCHANGED <<input, filters, timer, searchAbort, tagAbort, list, suggested,
                   visible, adrift>>

ItemsAnswer(s) ==
    /\ InFlight(s) /\ search[s].items = "pending"
    /\ \E how \in {"found", "empty"} : search' = [search EXCEPT ![s].items = how]
    /\ UNCHANGED <<input, filters, timer, searchAbort, tagAbort, list, suggested,
                   visible, adrift>>

-----------------------------------------------------------------------------
\* Bug: the guard is left out.
Stale_Unchecked(s) == search[s].tags = "aborted" /\ search[s].items = "aborted"

\* The answers that are not rendered: both requests aborted, or another text in
\* the box by now, unless it was a search by filters alone and there are some.
Stale(s) ==
    \/ search[s].tags = "aborted" /\ search[s].items = "aborted"
    \/ /\ input # search[s].query
       /\ ~(search[s].query = NoText /\ filters # {})

\* The tags found that are not selected already; a failure finds none.
Suggestions(s) == IF search[s].tags = "found" THEN SUBSET (Tag \ filters) ELSE {{}}

\* Items that were not asked for, not found or whose request was aborted are an
\* empty list alike.
Render(s) ==
    LET r == search[s]
    IN  /\ suggested' \in Suggestions(s)
        /\ list' = [query |-> r.query, filters |-> r.filters, items |-> r.items]
        /\ visible' = (\/ suggested' # {} \/ r.items = "found"
                       \/ filters # {} \/ r.query \in Long)

Settled(s) ==
    InFlight(s) /\ search[s].tags # "pending" /\ search[s].items # "pending"

\* Promise.all(...).then: the controllers are forgotten, whosever they are by
\* now.  An error response for tags is no array and ends it in an exception.
Then(s) ==
    /\ Settled(s)
    /\ search' = [q \in DOMAIN search \ {s} |-> search[q]]
    /\ searchAbort' = NoSlot
    /\ tagAbort' = NoSlot
    /\ IF Stale(s) \/ search[s].tags = "refused"
       THEN UNCHANGED <<list, suggested, visible>>
       ELSE Render(s)
    /\ UNCHANGED <<input, filters, timer, adrift>>

Handler ==
    \/ \E query \in Text : Type(query)
    \/ Debounced
    \/ \E t \in Tag : addFilterTag(t) \/ removeFilterTag(t)
    \/ clearSearch \/ clearAllFilters \/ hideDropdown
    \/ \E query \in Text, tags \in SUBSET Tag : restoreSearchFromURL(query, tags)
    \/ \E s \in Slot : TagsAnswer(s) \/ ItemsAnswer(s)

Next ==
    \/ \E s \in Slot : Then(s)
    \/ (\A s \in Slot : ~Settled(s)) /\ Handler

Spec == Init /\ [][Next]_vars

-----------------------------------------------------------------------------
TypeOK ==
    /\ input \in Text /\ filters \subseteq Tag /\ suggested \subseteq Tag
    /\ visible \in BOOLEAN /\ adrift \in BOOLEAN
    /\ list \in [query : Text, filters : SUBSET Tag,
                items : {"none", "aborted", "found", "empty"}]
    /\ timer \in [due : BOOLEAN, query : Text]
    /\ searchAbort \in DOMAIN search \cup {NoSlot}
    /\ tagAbort \in DOMAIN search \cup {NoSlot}
    /\ DOMAIN search \subseteq Slot
    /\ \A s \in DOMAIN search :
          /\ search[s].query \in Text /\ search[s].filters \subseteq Tag
          /\ search[s].tags \in {"none", "pending", "aborted"} \cup TagAnswers
          /\ search[s].items \in {"none", "pending", "aborted", "found", "empty"}

AtRest == search = <<>> /\ ~timer.due

\* grid.js:1308 "check input still matches": once nothing is in flight, the
\* results of one text are not left standing under another, in whatever order
\* answers come and although a search can lose the means to abort another.
\* That is, unless the back button emptied the box beside a dropdown, or set a
\* text while the timer of another was running.
TextNeverStale ==
    AtRest /\ visible /\ ~adrift => list.query = input \/ list.query = NoText

\* What is asked for is answered: at rest there are results of the text in the
\* box, or of the filters alone, with the same exception.
TextIsAnswered ==
    AtRest /\ input \in Long /\ ~adrift =>
        list.query = input \/ (list.query = NoText /\ list.filters # {})

\* README.md:232: "When multiple tags are selected, only items matching ALL
\* selected tags are shown."
FiltersRespected ==
    AtRest /\ visible /\ ~adrift /\ list.items = "found" => filters \subseteq list.filters
=============================================================================
