----------------------------- MODULE QueryPages -----------------------------
(***************************************************************************)
(* A query answers with one page, the limit records from the offset on,    *)
(* and with a total.  Every type of query counts in a way of its own: a    *)
(* walk of the folder, a search of one or several indices, pipelines of    *)
(* tail, head and sed over the lines of a log that grows meanwhile, SQL.   *)
(* Here a client goes from page to page, as the tables of the frontend do, *)
(* until the total is reached, and what matters is what it has seen then.  *)
(***************************************************************************)
EXTENDS Naturals, FiniteSets, Sequences, SequencesExt

CONSTANTS
  MaxItems,    \* bound on the entries, or the lines of a log
  MaxLimit     \* bound on the size of a page

ASSUME PageAssumption == MaxItems \in Nat /\ MaxLimit \in Nat \ {0}

\* Walks, searches in Redis, logs read from files, and the SQL adapter
Walks == {"subpath", "locators"}
Searches == {"search", "search_schemas", "search_sorted"}
Logs == {"history", "events", "events_search", "sql_events", "sql_events_search"}
Types == Walks \cup Searches \cup Logs \cup {"spaces", "sql"}

VARIABLES
  type, limit, offset,  \* of the query
  size,        \* entries or lines there are, numbered in their order
  first,       \* history: those that were there at the beginning
  hidden,      \* those that the user may not see
  other,       \* those that are different: the payload does not fit its schema, the line
               \* has not the text that is searched, the schema is the second one
  folders,     \* how many of them, the last ones, are subfolders, which a walk comes to last
  page, total, \* the answer
  counted,     \* entries that the total stands for
  seen,        \* history: what the client has seen
  done
pageVars == <<type, limit, offset, size, first, hidden, other, folders, page, total, counted,
          seen, done>>

PagesTypeOK ==
  /\ type \in Types /\ limit \in 1..MaxLimit /\ offset \in Nat
  /\ size \in 0..MaxItems /\ first \in 0..size
  /\ hidden \subseteq 1..MaxItems /\ other \subseteq 1..MaxItems /\ folders \in {0, 1}
  /\ page \in Seq(1..MaxItems) /\ seen \subseteq 1..MaxItems
  /\ total \in 0..MaxItems /\ counted \in 0..MaxItems /\ done \in BOOLEAN

PagesInit ==
  /\ type \in Types /\ limit \in 1..MaxLimit /\ offset = 0
  /\ size \in 0..MaxItems /\ first = size
  /\ hidden \in SUBSET (1..MaxItems) /\ other \in SUBSET (1..MaxItems)
  /\ folders \in IF type \in Walks /\ size > 0 THEN {0, 1} ELSE {0}
  /\ page = <<>> /\ total = 0 /\ counted = 0 /\ seen = {} /\ done = FALSE

(***************************************************************************)
(* The shell                                                               *)
(***************************************************************************)
TailLines(s, k) == SubSeq(s, IF k < Len(s) THEN Len(s) - k + 1 ELSE 1, Len(s))  \* tail -n k
TailFrom(s, k) == SubSeq(s, IF k = 0 THEN 1 ELSE k, Len(s))                     \* tail -n +k
HeadLines(s, k) == SubSeq(s, 1, IF k < Len(s) THEN k ELSE Len(s))               \* head -n k
Sed(s, k) == SubSeq(s, k + 1, Len(s))                                           \* sed 1,kd

(***************************************************************************)
(* Pages                                                                   *)
(***************************************************************************)
Items == [i \in 1..size |-> i]

\* Those that are not in S, which is SelectSeq written out, and those that are
But(s, S) ==
  LET kept[i \in 0..Len(s)] ==
        IF i = 0 THEN <<>>
        ELSE IF s[i] \in S THEN kept[i - 1] ELSE Append(kept[i - 1], s[i])
  IN kept[Len(s)]
Of(s, S) == But(s, ToSet(s) \ S)

Slice(s) == HeadLines(Sed(s, offset), limit)

Subfolders == (size - folders + 1)..size
Start == [n |-> 0, page |-> <<>>]

\* Fault: the page is full one entry later.
LookLonger(w, i, bad) ==
  [n |-> w.n + 1,
   page |-> IF Len(w.page) > limit \/ w.n + 1 < offset \/ i \in bad
            THEN w.page ELSE Append(w.page, i)]

\* A walk over entries: each is counted, and then taken if the page is not full and the
\* count has come to the offset.  What is bad is counted and not taken.
Look(w, i, bad) ==
  [n |-> w.n + 1,
   page |-> IF Len(w.page) >= limit \/ w.n + 1 < offset \/ i \in bad
            THEN w.page ELSE Append(w.page, i)]
Walk(w0, s, bad) ==
  LET w[i \in 0..Len(s)] == IF i = 0 THEN w0 ELSE Look(w[i - 1], s[i], bad)
  IN w[Len(s)]

\* What the user may not see is not counted.  A payload that does not fit its schema throws
\* an entry out of the page, but not a subfolder: the walk goes on over these.
WalkEntries == Walk(Start, But(Items, hidden \cup Subfolders), other)
WalkFolders == Walk(WalkEntries, But(Of(Items, Subfolders), hidden), {})

\* The filters are looked at after the count, by entries and subfolders alike.
Locators == Walk(Walk(Start, But(Items, Subfolders), hidden), Of(Items, Subfolders), hidden)

Spaces == But(Items, hidden)

\* The index counts all that it finds and returns a page of it.
RedisSearch(s, l, o) == [page |-> HeadLines(Sed(s, o), l), n |-> Len(s)]

\* Documents that make no record, as their payload does not fit its schema, are left out.
Readable(s) == But(s, other)

\* A search in each schema's index; what it finds is put one after the other, or sorted
\* together, and if there are several schemas the offset and the limit are applied again.
SearchSchemas ==
  LET one(s) == RedisSearch(s, limit, offset).page
  IN Slice(one(But(Items, hidden \cup other)) \o one(But(Of(Items, other), hidden)))

SearchSorted ==
  LET top(s) == ToSet(RedisSearch(s, limit + offset, 0).page)
  IN Slice(Of(Items, top(But(Items, hidden \cup other)) \cup top(But(Of(Items, other), hidden))))

\* The same conditions for the page and for the total; an empty page says that there is
\* nothing at all.
SqlStatement(forCount) ==
  LET found == But(Items, other) IN IF forCount THEN found ELSE Slice(found)
SqlTotal == IF SqlStatement(FALSE) = <<>> THEN 0 ELSE Len(SqlStatement(TRUE))

History == Reverse(HeadLines(TailFrom(Items, offset), limit))

\* Fault: the last lines are taken before those of later pages are cut off.
EventsTail ==
  LET last == TailLines(Items, limit)
  IN Reverse(IF offset > 0 THEN HeadLines(last, limit) ELSE last)

\* The last lines up to the page, of these the first, newest first
Events ==
  LET last == TailLines(Items, limit + offset)
  IN Reverse(IF offset > 0 THEN HeadLines(last, limit) ELSE last)

EventsSearch == Sed(Reverse(TailLines(But(Items, other), limit + offset)), offset)

\* With SQL the pipeline adds an empty line, which comes first when the lines are turned
\* round: it is one of those that sed deletes.
Blank == 0
SqlEvents ==
  LET turned == Reverse(Append(TailLines(Items, limit + offset), Blank))
  IN But(IF offset > 0 THEN Sed(turned, offset) ELSE turned, {Blank})

\* The page with what is thrown out of it, and the count that the total reports
Answer ==
  CASE type = "subpath" -> <<WalkFolders.page, WalkFolders.n>>
    [] type = "locators" -> <<Locators.page, Locators.n>>
    [] type = "spaces" -> <<Spaces, Len(Spaces)>>
    [] type = "search" -> LET found == RedisSearch(But(Items, hidden), limit, offset)
                          IN <<Readable(found.page), found.n>>
    [] type = "search_schemas" -> <<SearchSchemas, Len(But(Items, hidden))>>
    [] type = "search_sorted" -> <<SearchSorted, Len(But(Items, hidden))>>
    [] type = "history" -> <<History, size>>
    [] type = "events" -> <<But(Events, hidden), size>>
    [] type = "events_search" -> <<But(EventsSearch, hidden), size>>
    [] type = "sql_events" -> <<But(SqlEvents, hidden), size>>
    [] type = "sql_events_search" -> <<But(EventsSearch, hidden), Len(But(Items, other))>>
    [] type = "sql" -> <<SqlStatement(FALSE), SqlTotal>>

(***************************************************************************)
(* Steps                                                                   *)
(***************************************************************************)
Ask ==
  /\ ~done
  /\ page' = Answer[1] /\ total' = Answer[2]
  /\ seen' = seen \cup ToSet(page')
  /\ counted' = IF type = "subpath" THEN Len(But(Items, hidden)) ELSE size
  /\ offset' = offset + limit
  /\ done' = (offset' >= total')
  /\ UNCHANGED <<type, limit, size, first, hidden, other, folders>>

\* A line is written to the log: the hook of action_log, or store_entry_diff.
Write ==
  /\ ~done /\ type \in Logs /\ size < MaxItems
  /\ size' = size + 1
  /\ UNCHANGED <<type, limit, offset, first, hidden, other, folders, page, total, counted,
                 seen, done>>

PagesNext == Ask \/ Write

PagesSpec == PagesInit /\ [][PagesNext]_pageVars

(***************************************************************************)
(* Properties                                                              *)
(***************************************************************************)
\* What the query is to show of what was there at the beginning
Wanted ==
  CASE type = "history" -> 1..first
    [] type = "sql" -> (1..first) \ other
    [] type = "subpath" -> (1..first) \ (hidden \cup (other \ Subfolders))
    [] type \in {"search", "events_search", "sql_events_search"} ->
         (1..first) \ (hidden \cup other)
    [] OTHER -> (1..first) \ hidden

\* A walk and a history take the record before the offset again: the pages overlap, and if
\* there are several and all are full the last record of all is on none.
Overlapping == type \in Walks \cup {"history"}
LastOnNone == IF Overlapping /\ counted > limit /\ counted % limit = 0 THEN 1 ELSE 0

\* Who goes through all pages has seen every record there was to see, whatever is logged
\* meanwhile -- all but the last one of walks and histories whose pages come out even.
\* A search in several schemas that is not sorted applies the offset twice: it promises no
\* more than its first page.
EverythingSeen ==
  done /\ type # "search_schemas" =>
    \/ Wanted \subseteq seen
    \/ LastOnNone = 1 /\ Cardinality(Wanted \ seen) = 1
       /\ \A i \in Wanted \ seen, j \in Wanted : j <= i

\* No page has more records than were asked for -- but for the list of spaces, which knows
\* no pages, and the events with SQL, whose pages after the first have one more.
PageFits ==
  type # "spaces" => Len(page) <= IF type = "sql_events" /\ offset > limit THEN limit + 1 ELSE limit
=============================================================================
