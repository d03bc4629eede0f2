-------------------------- MODULE LiveSearchProofs --------------------------
(***************************************************************************)
(* Proofs about module LiveSearch, for any texts and tags and any number   *)
(* of searches in flight.                                                  *)
(***************************************************************************)
EXTENDS LiveSearch, TLAPS

SearchRecord ==
    [query : Text, filters : SUBSET Tag,
     tags  : {"none", "pending", "aborted"} \cup TagAnswers,
     items : {"none", "pending", "aborted", "found", "empty"}]

Alive(q) == ~(q.tags = "aborted" /\ q.items = "aborted")

\* Results for the text in the box are on their way: the timer will search for
\* it, or a search for it is in flight and its answers will not be discarded.
Coming ==
    \/ timer.due /\ timer.query = input
    \/ \E s \in DOMAIN search : search[s].query = input /\ Alive(search[s])

(***************************************************************************)
(* The inductive invariant.  Unless the page is adrift, the timer is set   *)
(* for the text in the box, or the box was emptied since (PageOK).  A      *)
(* search by filters alone never asks for tags, so that it is never taken  *)
(* for aborted; one that asks for nothing at all ends before anything else *)
(* happens (SearchOK).  Results of another text stand in the dropdown only *)
(* while those of the text in the box are coming.                          *)
(***************************************************************************)
PageOK ==
    /\ input \in Text /\ filters \subseteq Tag /\ suggested \subseteq Tag
    /\ visible \in BOOLEAN /\ adrift \in BOOLEAN
    /\ list \in [query : Text, filters : SUBSET Tag,
                items : {"none", "aborted", "found", "empty"}]
    /\ timer \in [due : BOOLEAN, query : Text]
    /\ timer.due /\ ~adrift => input \in {timer.query, NoText}

Empty(q) == q.query = NoText /\ q.filters = {}

SearchOK ==
    /\ DOMAIN search \subseteq Slot
    /\ search \in [DOMAIN search -> SearchRecord]
    /\ searchAbort \in DOMAIN search \cup {NoSlot}
    /\ tagAbort \in DOMAIN search \cup {NoSlot}
    /\ \A s \in DOMAIN search :
          /\ search[s].query = NoText => search[s].tags = "none"
          /\ Empty(search[s]) =>
                /\ search[s].items = "none"
                /\ adrift \/ (input = NoText /\ filters = {})

NeverStale == visible /\ ~adrift => list.query \in {input, NoText} \/ Coming

Answered ==
    input \in Long /\ ~adrift =>
        \/ list.query = input
        \/ list.query = NoText /\ list.filters # {}
        \/ Coming

LInv == PageOK /\ SearchOK /\ NeverStale /\ Answered

-----------------------------------------------------------------------------
(* Searches. *)

LEMMA StartedFacts ==
    ASSUME NEW query \in Text, NEW tags \in SUBSET Tag
    PROVE  LET new == Started(query, tags)
           IN  /\ new \in SearchRecord
               /\ new.query = query /\ new.filters = tags
               /\ Alive(new)
               /\ query = NoText => new.tags = "none"
               /\ Empty(new) => new.items = "none"
BY SearchAssumption DEF Started, SearchRecord, Alive, Empty, Text, NoText

\* What remains of a search when another may have aborted its requests.
Kept(old, new) ==
    /\ new \in SearchRecord
    /\ new.query = old.query /\ new.filters = old.filters
    /\ old.tags = "none" => new.tags = "none"
    /\ old.items = "none" => new.items = "none"

LEMMA AbortFacts ==
    ASSUME SearchOK, NEW q \in DOMAIN search
    PROVE  DOMAIN Abort(search) = DOMAIN search /\ Kept(search[q], Abort(search)[q])
<1>1. search[q] \in SearchRecord
  BY DEF SearchOK
<1>2. Abort(search)[q] =
        [search[q] EXCEPT
            !.tags  = IF q = tagAbort /\ @ = "pending" THEN "aborted" ELSE @,
            !.items = IF q = searchAbort /\ @ = "pending" THEN "aborted" ELSE @]
  BY DEF Abort
<1>3. DOMAIN Abort(search) = DOMAIN search
  BY DEF Abort
<1> QED
  BY <1>1, <1>2, <1>3 DEF Kept, SearchRecord

LEMMA PerformFacts ==
    ASSUME SearchOK, NEW query \in Text, NEW tags \in SUBSET Tag,
           performUnifiedSearch(query, tags)
    PROVE  /\ DOMAIN search' \subseteq Slot
           /\ search' \in [DOMAIN search' -> SearchRecord]
           /\ searchAbort' \in DOMAIN search' \cup {NoSlot}
           /\ tagAbort' \in DOMAIN search' \cup {NoSlot}
           /\ \E s \in DOMAIN search' : search'[s] = Started(query, tags)
           /\ \A q \in DOMAIN search' :
                 \/ search'[q] = Started(query, tags)
                 \/ q \in DOMAIN search /\ Kept(search[q], search'[q])
           /\ \A q \in DOMAIN search :
                 q \in DOMAIN search' /\ Kept(search[q], search'[q])
<1> DEFINE new == Started(query, tags)
<1>1. PICK s \in Slot \ DOMAIN search :
        /\ search' = [q \in DOMAIN search \cup {s} |->
                         IF q = s THEN new ELSE Abort(search)[q]]
        /\ tagAbort' = IF new.tags = "pending" THEN s ELSE tagAbort
        /\ searchAbort' = IF new.items = "pending" THEN s ELSE searchAbort
  BY DEF performUnifiedSearch
<1>2. new \in SearchRecord
  BY StartedFacts
<1> HIDE DEF new
<1>3. DOMAIN search' = DOMAIN search \cup {s} /\ search'[s] = new
  BY <1>1
<1>4. ASSUME NEW q \in DOMAIN search
      PROVE  q # s /\ search'[q] = Abort(search)[q] /\ Kept(search[q], search'[q])
  BY <1>1, AbortFacts
<1>5. search' \in [DOMAIN search' -> SearchRecord]
  <2>1. \A q \in DOMAIN search' : search'[q] \in SearchRecord
    BY <1>2, <1>3, <1>4 DEF Kept
  <2> QED
    BY <1>1, <2>1
<1>6. /\ searchAbort' \in DOMAIN search' \cup {NoSlot}
      /\ tagAbort' \in DOMAIN search' \cup {NoSlot}
  BY <1>1, <1>3 DEF SearchOK
<1>7. DOMAIN search' \subseteq Slot
  BY <1>3 DEF SearchOK
<1> QED
  BY <1>3, <1>4, <1>5, <1>6, <1>7 DEF new

\* While an event handler runs, no search in flight has nothing to ask for.
LEMMA NoneEmpty ==
    ASSUME LInv, \A s \in Slot : ~Settled(s)
    PROVE  \A s \in DOMAIN search : ~Empty(search[s])
BY DEF LInv, SearchOK, Settled, InFlight, Empty

\* A search that an event handler begins, for the text in the box or, if that
\* was emptied by a filter, for the one the timer still had; or the page is
\* adrift.
LEMMA SearchKeeps ==
    ASSUME LInv, \A s \in Slot : ~Settled(s),
           NEW query \in Text, performUnifiedSearch(query, filters'),
           PageOK', UNCHANGED <<list, visible>>,
           \/ adrift'
           \/ query = input'
           \/ ~adrift /\ query # NoText /\ input = NoText /\ input' = NoText /\ timer.query # input
    PROVE  LInv'
<1>0. filters' \in SUBSET Tag
  BY DEF PageOK
<1> DEFINE new == Started(query, filters')
<1>1. SearchOK
  BY DEF LInv
<1>2. /\ DOMAIN search' \subseteq Slot
      /\ search' \in [DOMAIN search' -> SearchRecord]
      /\ searchAbort' \in DOMAIN search' \cup {NoSlot}
      /\ tagAbort' \in DOMAIN search' \cup {NoSlot}
      /\ \E s \in DOMAIN search' : search'[s] = new
      /\ \A q \in DOMAIN search' :
            \/ search'[q] = new
            \/ q \in DOMAIN search /\ Kept(search[q], search'[q])
      /\ \A q \in DOMAIN search :
            q \in DOMAIN search' /\ Kept(search[q], search'[q])
  BY <1>0, <1>1, PerformFacts
<1>3. /\ new.query = query /\ new.filters = filters'
      /\ Alive(new)
      /\ query = NoText => new.tags = "none"
      /\ Empty(new) => new.items = "none"
  BY <1>0, StartedFacts
<1> HIDE DEF new
<1>4. \A s \in DOMAIN search : ~Empty(search[s])
  BY NoneEmpty
<1>5. SearchOK'
  <2>1. ASSUME NEW q \in DOMAIN search'
        PROVE  /\ search'[q].query = NoText => search'[q].tags = "none"
               /\ Empty(search'[q]) =>
                     /\ search'[q].items = "none"
                     /\ adrift' \/ (input' = NoText /\ filters' = {})
    <3>1. CASE search'[q] = new
      BY <1>3, <3>1 DEF Empty
    <3>2. CASE q \in DOMAIN search /\ Kept(search[q], search'[q])
      BY <1>1, <1>4, <3>2 DEF Kept, Empty, SearchOK
    <3> QED
      BY <1>2, <3>1, <3>2
  <2> QED
    BY <1>2, <2>1 DEF SearchOK
<1>6. CASE query = input'
  <2>1. Coming'
    BY <1>2, <1>3, <1>6 DEF Coming
  <2> QED
    BY <1>5, <2>1 DEF LInv, NeverStale, Answered
<1>7. CASE ~adrift /\ query # NoText /\ input = NoText /\ input' = NoText /\ timer.query # input
  <2>1. Coming => Coming'
    <3> SUFFICES ASSUME NEW s \in DOMAIN search, search[s].query = NoText
                 PROVE  Coming'
      BY <1>7 DEF Coming
    <3>1. search[s].tags = "none"
      BY <1>1 DEF SearchOK
    <3>2. s \in DOMAIN search' /\ search'[s].query = NoText /\ search'[s].tags = "none"
      BY <1>2, <3>1 DEF Kept
    <3> QED
      BY <1>7, <3>2 DEF Coming, Alive
  <2>2. NeverStale'
    BY <1>7, <2>1 DEF LInv, NeverStale
  <2>3. Answered'
    BY <1>7, SearchAssumption DEF Answered
  <2> QED
    BY <1>5, <2>2, <2>3 DEF LInv
<1>8. CASE adrift'
  BY <1>5, <1>8 DEF LInv, NeverStale, Answered
<1> QED
  BY <1>6, <1>7, <1>8

-----------------------------------------------------------------------------
(* Event handlers. *)

\* An abort of all requests, with the dropdown hidden and the box emptied.
LEMMA AbortAllKeeps ==
    ASSUME LInv, \A s \in Slot : ~Settled(s), AbortAll, PageOK',
           input' = NoText, visible' = FALSE
    PROVE  LInv'
<1>1. SearchOK /\ search' = Abort(search) /\ searchAbort' = NoSlot /\ tagAbort' = NoSlot
  BY DEF LInv, AbortAll
<1>2. DOMAIN search' = DOMAIN search
  BY <1>1 DEF Abort
<1>3. \A s \in DOMAIN search : Kept(search[s], search'[s]) /\ ~Empty(search[s])
  BY <1>1, AbortFacts, NoneEmpty
<1>4. search' \in [DOMAIN search' -> SearchRecord]
  <2>1. \A s \in DOMAIN search' : search'[s] \in SearchRecord
    BY <1>2, <1>3 DEF Kept
  <2>2. search' = [s \in DOMAIN search' |-> search'[s]]
    BY <1>1, <1>2 DEF Abort
  <2> QED
    BY <2>1, <2>2
<1>5. SearchOK'
  BY <1>1, <1>2, <1>3, <1>4 DEF SearchOK, Kept, Empty
<1>6. NeverStale' /\ Answered'
  BY SearchAssumption DEF NeverStale, Answered
<1> QED
  BY <1>5, <1>6 DEF LInv

LEMMA TypeKeeps ==
    ASSUME LInv, \A s \in Slot : ~Settled(s), NEW query \in Text, Type(query)
    PROVE  LInv'
<1>1. CASE query = NoText /\ filters = {}
  <2>1. /\ input' = NoText /\ timer' = NoTimer /\ visible' = FALSE /\ AbortAll
        /\ adrift' = FALSE
        /\ UNCHANGED <<filters, list, suggested>>
    BY <1>1 DEF Type
  <2>2. PageOK'
    BY <2>1 DEF LInv, PageOK, NoTimer, Text
  <2> QED
    BY <2>1, <2>2, AbortAllKeeps
<1>2. CASE ~(query = NoText /\ filters = {})
  <2>1. /\ input' = query /\ timer' = [due |-> TRUE, query |-> query]
        /\ adrift' = FALSE
        /\ UNCHANGED <<visible, search, searchAbort, tagAbort, filters, list, suggested>>
    BY <1>2 DEF Type
  <2>2. PageOK'
    BY <2>1 DEF LInv, PageOK
  <2>3. SearchOK'
    BY <2>1, NoneEmpty DEF LInv, SearchOK
  <2>4. Coming'
    BY <2>1 DEF Coming
  <2> QED
    BY <2>2, <2>3, <2>4 DEF LInv, NeverStale, Answered
<1> QED
  BY <1>1, <1>2

LEMMA DebouncedKeeps ==
    ASSUME LInv, \A s \in Slot : ~Settled(s), Debounced
    PROVE  LInv'
<1>1. /\ timer.due /\ timer' = NoTimer
      /\ performUnifiedSearch(timer.query, filters')
      /\ adrift' = (adrift /\ timer.query # input)
      /\ UNCHANGED <<input, filters, list, suggested, visible>>
  BY DEF Debounced
<1>2. /\ timer.query \in Text
      /\ adrift \in BOOLEAN /\ adrift' \in BOOLEAN
      /\ ~adrift => input \in {timer.query, NoText}
  BY <1>1 DEF LInv, PageOK
<1>3. PageOK'
  BY <1>1, <1>2 DEF LInv, PageOK, NoTimer, Text
<1> QED
  BY <1>1, <1>2, <1>3, SearchKeeps

LEMMA FiltersKeep ==
    ASSUME LInv, \A s \in Slot : ~Settled(s), NEW t \in Tag,
           addFilterTag(t) \/ removeFilterTag(t)
    PROVE  LInv'
<1>1. CASE addFilterTag(t)
  <2>1. /\ filters' = filters \cup {t} /\ input' = NoText
        /\ performUnifiedSearch(NoText, filters') /\ Settle(NoText)
        /\ UNCHANGED <<timer, list, suggested, visible>>
    BY <1>1 DEF addFilterTag
  <2>2. PageOK' /\ NoText \in Text
    BY <2>1 DEF LInv, PageOK, Settle, Text
  <2> QED
    BY <2>1, <2>2, SearchKeeps
<1>2. CASE removeFilterTag(t)
  <2>1. /\ filters' = filters \ {t} /\ input' = input
        /\ performUnifiedSearch(input, filters') /\ Settle(input)
        /\ UNCHANGED <<timer, list, suggested, visible>>
    BY <1>2 DEF removeFilterTag
  <2>2. PageOK' /\ input \in Text
    BY <2>1 DEF LInv, PageOK, Settle
  <2> QED
    BY <2>1, <2>2, SearchKeeps
<1> QED
  BY <1>1, <1>2

LEMMA ClearKeeps ==
    ASSUME LInv, \A s \in Slot : ~Settled(s), clearSearch \/ clearAllFilters
    PROVE  LInv'
<1>1. CASE clearSearch
  <2>1. PageOK'
    BY <1>1 DEF clearSearch, LInv, PageOK, NoTimer, Nothing, Text
  <2> QED
    BY <1>1, <2>1, AbortAllKeeps DEF clearSearch
<1>2. CASE clearAllFilters /\ ~clearSearch
  <2>1. /\ filters' = {} /\ input' = input
        /\ performUnifiedSearch(input, filters') /\ Settle(input)
        /\ UNCHANGED <<timer, list, suggested, visible>>
    BY <1>2 DEF clearAllFilters
  <2>2. PageOK' /\ input \in Text
    BY <2>1 DEF LInv, PageOK, Settle
  <2> QED
    BY <2>1, <2>2, SearchKeeps
<1> QED
  BY <1>1, <1>2

LEMMA BackKeeps ==
    ASSUME LInv, \A s \in Slot : ~Settled(s),
           NEW query \in Text, NEW tags \in SUBSET Tag,
           restoreSearchFromURL(query, tags)
    PROVE  LInv'
<1>1. /\ input' = query /\ filters' = tags
      /\ UNCHANGED <<timer, list, suggested, visible>>
  BY DEF restoreSearchFromURL
<1>2. CASE performUnifiedSearch(query, filters') /\ Settle(query)
  <2>1. PageOK'
    BY <1>1, <1>2 DEF LInv, PageOK, Settle
  <2> QED
    BY <1>1, <1>2, <2>1, SearchKeeps
<1>3. CASE /\ query = NoText /\ tags = {} /\ adrift' = visible
           /\ UNCHANGED <<search, searchAbort, tagAbort>>
  <2>1. PageOK'
    BY <1>1, <1>3 DEF LInv, PageOK
  <2>2. SearchOK'
    BY <1>1, <1>3, NoneEmpty DEF LInv, SearchOK
  <2>3. NeverStale' /\ Answered'
    BY <1>1, <1>3, SearchAssumption DEF NeverStale, Answered
  <2> QED
    BY <2>1, <2>2, <2>3 DEF LInv
<1> QED
  BY <1>1, <1>2, <1>3 DEF restoreSearchFromURL

\* The answer to one of the two requests of a search.
LEMMA AnswerKeeps ==
    ASSUME LInv, NEW s \in Slot, TagsAnswer(s) \/ ItemsAnswer(s)
    PROVE  LInv'
<1>1. s \in DOMAIN search /\ search[s] \in SearchRecord
  BY DEF TagsAnswer, ItemsAnswer, InFlight, LInv, SearchOK
<1>2. PICK new \in SearchRecord :
        /\ search' = [search EXCEPT ![s] = new]
        /\ new.query = search[s].query /\ new.filters = search[s].filters
        /\ Alive(new)
        /\ search[s].tags = "none" => new.tags = "none"
        /\ search[s].items = "none" => new.items = "none"
  <2>1. CASE TagsAnswer(s)
    <3>1. PICK how \in TagAnswers : search' = [search EXCEPT ![s].tags = how]
      BY <2>1 DEF TagsAnswer
    <3>2. how # "aborted" /\ search[s].tags = "pending"
      BY <2>1, SearchAssumption DEF TagsAnswer
    <3>3. /\ search' = [search EXCEPT ![s] = [search[s] EXCEPT !.tags = how]]
          /\ [search[s] EXCEPT !.tags = how] \in SearchRecord
          /\ [search[s] EXCEPT !.tags = how].tags = how
          /\ [search[s] EXCEPT !.tags = how].items = search[s].items
          /\ [search[s] EXCEPT !.tags = how].query = search[s].query
          /\ [search[s] EXCEPT !.tags = how].filters = search[s].filters
      BY <1>1, <3>1 DEF SearchRecord
    <3> QED
      BY <3>2, <3>3 DEF Alive
  <2>2. CASE ItemsAnswer(s)
    <3>1. PICK how \in {"found", "empty"} : search' = [search EXCEPT ![s].items = how]
      BY <2>2 DEF ItemsAnswer
    <3>2. search[s].items = "pending"
      BY <2>2 DEF ItemsAnswer
    <3>3. /\ search' = [search EXCEPT ![s] = [search[s] EXCEPT !.items = how]]
          /\ [search[s] EXCEPT !.items = how] \in SearchRecord
          /\ [search[s] EXCEPT !.items = how].items = how
          /\ [search[s] EXCEPT !.items = how].tags = search[s].tags
          /\ [search[s] EXCEPT !.items = how].query = search[s].query
          /\ [search[s] EXCEPT !.items = how].filters = search[s].filters
      BY <1>1, <3>1 DEF SearchRecord
    <3> QED
      BY <3>2, <3>3 DEF Alive
  <2> QED
    BY <2>1, <2>2
<1>3. UNCHANGED <<input, filters, timer, searchAbort, tagAbort, list, suggested, visible, adrift>>
  BY DEF TagsAnswer, ItemsAnswer
<1>4. /\ DOMAIN search' = DOMAIN search
      /\ search'[s] = new
      /\ \A q \in DOMAIN search \ {s} : search'[q] = search[q]
  BY <1>1, <1>2
<1>5. SearchOK'
  <2>1. search' \in [DOMAIN search' -> SearchRecord]
    BY <1>1, <1>2, <1>4 DEF LInv, SearchOK
  <2> QED
    BY <1>2, <1>3, <1>4, <2>1 DEF LInv, SearchOK, Empty
<1>6. Coming => Coming'
  BY <1>2, <1>3, <1>4 DEF Coming
<1>7. PageOK'
  BY <1>3 DEF LInv, PageOK
<1> QED
  BY <1>3, <1>5, <1>6, <1>7 DEF LInv, NeverStale, Answered

-----------------------------------------------------------------------------
(* The answers of a search are rendered or discarded. *)

LEMMA ThenKeeps ==
    ASSUME LInv, "refused" \notin TagAnswers, NEW s \in Slot, Then(s)
    PROVE  LInv'
<1>1. /\ s \in DOMAIN search /\ search[s] \in SearchRecord
      /\ search[s].items # "pending" /\ search[s].tags # "refused"
      /\ search' = [q \in DOMAIN search \ {s} |-> search[q]]
      /\ searchAbort' = NoSlot /\ tagAbort' = NoSlot
      /\ UNCHANGED <<input, filters, timer, adrift>>
  BY DEF Then, Settled, InFlight, LInv, SearchOK, SearchRecord
<1>2. SearchOK'
  BY <1>1 DEF LInv, SearchOK
<1>3. CASE Stale(s)
  <2>1. UNCHANGED <<list, suggested, visible>>
    BY <1>3 DEF Then
  <2>2. search[s].query # input \/ ~Alive(search[s])
    BY <1>3 DEF Stale, Alive
  <2>3. Coming => Coming'
    BY <1>1, <2>2 DEF Coming
  <2>4. PageOK'
    BY <1>1, <2>1 DEF LInv, PageOK
  <2> QED
    BY <1>1, <1>2, <2>1, <2>3, <2>4 DEF LInv, NeverStale, Answered
<1>4. CASE ~Stale(s)
  <2>1. /\ suggested' \in Suggestions(s)
        /\ list' = [query |-> search[s].query, filters |-> search[s].filters,
                    items |-> search[s].items]
        /\ visible' \in BOOLEAN
    BY <1>1, <1>4 DEF Then, Render
  <2>2. search[s].query = input \/ (search[s].query = NoText /\ filters # {})
    BY <1>4 DEF Stale
  <2>3. PageOK'
    <3>1. suggested' \subseteq Tag
      BY <2>1 DEF Suggestions
    <3> QED
      BY <1>1, <2>1, <3>1 DEF LInv, PageOK, SearchRecord
  <2>4. NeverStale'
    BY <1>1, <2>1, <2>2 DEF NeverStale
  <2>5. Answered'
    <3>1. search[s].query = NoText /\ search[s].filters = {} => adrift \/ input = NoText
      BY <1>1 DEF LInv, SearchOK, Empty
    <3> QED
      BY <1>1, <2>1, <2>2, <3>1, SearchAssumption DEF Answered
  <2> QED
    BY <1>2, <2>3, <2>4, <2>5 DEF LInv
<1> QED
  BY <1>3, <1>4

-----------------------------------------------------------------------------
LEMMA InitInv == Init => LInv
<1> SUFFICES ASSUME Init PROVE LInv
  OBVIOUS
<1> DEFINE asked == input # NoText \/ filters # {}
           new == Started(input, filters)
<1>1. /\ input \in Text /\ filters \in SUBSET Tag /\ timer = NoTimer
      /\ list = Nothing /\ suggested = {} /\ visible = FALSE /\ adrift = FALSE
  BY DEF Init
<1>2. PICK s \in Slot :
        /\ search = [q \in IF asked THEN {s} ELSE {} |-> new]
        /\ tagAbort = IF asked /\ new.tags = "pending" THEN s ELSE NoSlot
        /\ searchAbort = IF asked /\ new.items = "pending" THEN s ELSE NoSlot
  BY DEF Init
<1>3. PageOK
  BY <1>1 DEF PageOK, NoTimer, Nothing, Text
<1>4. /\ new \in SearchRecord
      /\ new.query = input /\ new.filters = filters
      /\ Alive(new)
      /\ input = NoText => new.tags = "none"
      /\ Empty(new) => new.items = "none"
  BY <1>1, StartedFacts
<1> HIDE DEF new
<1>5. SearchOK
  BY <1>2, <1>4 DEF SearchOK, Empty
<1>6. input \in Long => Coming
  BY <1>2, <1>4, SearchAssumption DEF Coming
<1> QED
  BY <1>1, <1>3, <1>5, <1>6 DEF LInv, NeverStale, Answered

LEMMA NextKeeps ==
    ASSUME LInv, "refused" \notin TagAnswers, [Next]_vars
    PROVE  LInv'
<1>1. ASSUME NEW s \in Slot, Then(s)
      PROVE  LInv'
  BY <1>1, ThenKeeps
<1>2. CASE (\A s \in Slot : ~Settled(s)) /\ Handler
  <2>1. CASE hideDropdown
    BY <2>1 DEF hideDropdown, LInv, PageOK, SearchOK, NeverStale, Answered, Coming
  <2> QED
    BY <1>2, <2>1, TypeKeeps, DebouncedKeeps, FiltersKeep, ClearKeeps, BackKeeps,
       AnswerKeeps
    DEF Handler
<1>3. CASE UNCHANGED vars
  BY <1>3 DEF vars, LInv, PageOK, SearchOK, NeverStale, Answered, Coming
<1> QED
  BY <1>1, <1>2, <1>3 DEF Next

THEOREM AlwaysLInv ==
    ASSUME "refused" \notin TagAnswers
    PROVE  Spec => []LInv
<1>1. LInv /\ [Next]_vars => LInv'
  BY NextKeeps
<1> QED
  BY <1>1, InitInv, PTL DEF Spec

LEMMA AtRestFacts ==
    ASSUME AtRest
    PROVE  ~Coming
<1>1. DOMAIN search = {}
  BY DEF AtRest
<1> QED
  BY <1>1 DEF AtRest, Coming

\* What the model of the page keeps has its types: in particular a controller
\* aborts a search that is in flight, if any (grid.js:1302-1303).
THEOREM SearchTypes ==
    ASSUME "refused" \notin TagAnswers
    PROVE  Spec => []TypeOK
<1>1. LInv => TypeOK
  BY DEF LInv, PageOK, SearchOK, SearchRecord, TypeOK
<1> QED
  BY <1>1, AlwaysLInv, PTL

\* grid.js:1308, "check input still matches": however many searches are in
\* flight and in whatever order they are answered, results of one text are not
\* left standing under another, unless the back button left the page adrift.
THEOREM TextStaysTrue ==
    ASSUME "refused" \notin TagAnswers
    PROVE  Spec => []TextNeverStale
<1>1. LInv => TextNeverStale
  BY AtRestFacts DEF LInv, NeverStale, TextNeverStale
<1> QED
  BY <1>1, AlwaysLInv, PTL

\* What is asked for is answered, once nothing is in flight (grid.js:1257-1343).
THEOREM TextAlwaysAnswered ==
    ASSUME "refused" \notin TagAnswers
    PROVE  Spec => []TextIsAnswered
<1>1. LInv => TextIsAnswered
  BY AtRestFacts DEF LInv, Answered, TextIsAnswered
<1> QED
  BY <1>1, AlwaysLInv, PTL
=============================================================================
