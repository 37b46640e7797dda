------------------------------ MODULE LogTools ------------------------------
(* The log.* requests on top of LogStream.  log.tail and log.search run on  *)
(* the game thread, log.clear and log.list_categories in lane B on the      *)
(* thread of a connection; each takes EntriesLock once per call, so a       *)
(* handler that makes several calls is several steps.                       *)
EXTENDS LogStream, Integers, TLC

CONSTANTS
  Lines,       \* the numbers of lines clients ask for
  Filters,     \* prefix filters: the sets of categories they match
  Listeners,   \* connection threads
  PageSize     \* page_size, which LOG_ClampPageSize keeps positive

ASSUME LinesAreNumbers == Lines \subseteq Int
ASSUME FiltersAssumption == Filters \subseteq SUBSET Categories
ASSUME PageSizeAssumption == PageSize \in Nat \ {0}

VARIABLES
  tail,    \* the game thread: the log.tail or log.search it answers
  wipe,    \* per listener: the log.clear it answers
  walk     \* per listener: its client's walk through the pages of
           \* log.list_categories, with the cursor of the next page token

toolVars == <<tail, wipe, walk>>

NoTail == [at |-> "idle", shown |-> 0, total |-> 0]
NoWipe == [at |-> "idle", before |-> 0, total |-> 0]
NoWalk == [at |-> "idle", filter |-> {}, last |-> 0, known |-> {}, seen |-> <<>>]

ToolsInit ==
  /\ Init
  /\ tail = NoTail
  /\ wipe = [l \in Listeners |-> NoWipe]
  /\ walk = [l \in Listeners |-> NoWalk]

------------------------------------------------------------------------------
(* log.tail and log.search: the entries first, then the counters.  The last *)
(* call of both, GetEntryCount, only fills a field of the reply.            *)

Clamped(n) == IF n < 1 THEN 1 ELSE IF n > Capacity THEN Capacity ELSE n

MayAnswer == tail.at \in {"idle", "tailed", "searched"}

TailReadsEntries ==
  /\ MayAnswer
  /\ \E n \in Lines, cs \in Filters :
       tail' = [NoTail EXCEPT !.at = "total", !.shown = Len(GetLastN(Clamped(n), cs))]

TailReadsTotal ==
  /\ tail.at = "total"
  /\ tail' = [tail EXCEPT !.at = "tailed", !.total = totalObserved]

SearchReadsEntries ==
  /\ MayAnswer
  /\ \E n \in Lines, ts \in SUBSET Threads :
       tail' = [NoTail EXCEPT !.at = "searched", !.shown = Len(Search(Clamped(n), ts))]

GameThread ==
  /\ TailReadsEntries \/ TailReadsTotal \/ SearchReadsEntries
  /\ UNCHANGED <<vars, wipe, walk>>

------------------------------------------------------------------------------
(* log.clear.                                                               *)

LogClear(l) ==
  /\ wipe[l].at \in {"idle", "done"}
  /\ Clear
  /\ wipe' = [wipe EXCEPT ![l] = [NoWipe EXCEPT !.at = "total", !.before = count]]
  /\ UNCHANGED <<tail, walk>>

ClearReadsTotal(l) ==
  /\ wipe[l].at = "total"
  /\ wipe' = [wipe EXCEPT ![l] = [@ EXCEPT !.at = "done", !.total = totalObserved]]
  /\ UNCHANGED <<vars, tail, walk>>

------------------------------------------------------------------------------
(* log.list_categories.  The page token is the last name of the page and a  *)
(* hash of the filter, which tells any two filters of Filters apart.        *)

Matching(filter) == {c \in filter : observed[c] > 0}

\* Mutant: a page begins with the name the last one ended with.
FromCursor(names, last) == {c \in names : c >= last}

PastCursor(names, last) == {c \in names : c > last}

Sorted(names) ==
  CHOOSE s \in [1 .. Cardinality(names) -> names] : \A i, k \in DOMAIN s : i < k => s[i] < s[k]

Page(rest) ==
  SubSeq(Sorted(rest), 1, IF Cardinality(rest) < PageSize THEN Cardinality(rest) ELSE PageSize)

\* What the client knows after a page: the token is null on the last page.
WithPage(w, rest) ==
  [w EXCEPT !.seen = @ \o Page(rest),
            !.at = IF Cardinality(rest) > PageSize THEN "paging" ELSE "done",
            !.last = IF rest = {} THEN @ ELSE Last(Page(rest))]

FirstPage(l, filter) ==
  /\ walk[l].at \in {"idle", "done", "stale"}
  /\ walk' = [walk EXCEPT ![l] =
                WithPage([NoWalk EXCEPT !.filter = filter, !.known = Matching(filter)],
                         Matching(filter))]

SameFilter(w, filter) == w.filter = filter

NextPage(l, filter) ==
  /\ walk[l].at = "paging"
  /\ walk' = [walk EXCEPT ![l] =
                IF SameFilter(@, filter)
                THEN WithPage(@, PastCursor(Matching(filter), @.last))
                ELSE [@ EXCEPT !.at = "stale"]]

ListCategories(l) ==
  /\ wipe[l].at # "total"
  /\ \E f \in Filters : FirstPage(l, f) \/ NextPage(l, f)
  /\ UNCHANGED <<vars, tail, wipe>>

------------------------------------------------------------------------------
Stream ==
  /\ Attach \/ Detach \/ \E t \in Threads : Serialize(t)
  /\ UNCHANGED toolVars

Lane(l) == LogClear(l) \/ ClearReadsTotal(l) \/ ListCategories(l)

ToolsNext == Stream \/ GameThread \/ \E l \in Listeners : Lane(l)

ToolsSpec == ToolsInit /\ [][ToolsNext]_<<vars, toolVars>>

\* The logging threads are interchangeable: nothing compares them.
ThreadSymmetry == Permutations(Threads)

------------------------------------------------------------------------------
(* Properties.                                                              *)

\* No reply of log.tail shows more lines than it says were observed, and no
\* reply of log.clear has dropped more: lines are counted before they can be
\* seen, and both handlers read the counter last.
RepliesCounted ==
  /\ tail.at = "tailed" => tail.shown <= tail.total
  /\ \A l \in Listeners : wipe[l].at = "done" => wipe[l].before <= wipe[l].total

\* A client that follows the page tokens of log.list_categories to the end
\* has got, each once and in order, every category that matched when it
\* began, although categories appear between its pages; none that its filter
\* does not match.
PagesExact ==
  \A l \in Listeners :
    LET w == walk[l] IN
      /\ \A i, k \in 1 .. Len(w.seen) : i < k => w.seen[i] < w.seen[k]
      /\ ToSet(w.seen) \subseteq w.filter
      /\ w.at = "done" => w.known \subseteq ToSet(w.seen)

\* What the replies say adds up, in one reply, from page to page and with the
\* catalogue behind them.
RepliesTrue == RepliesCounted /\ PagesExact /\ ObservedAddsUp
=============================================================================
