------------------------------- MODULE Catalog -------------------------------
(***************************************************************************)
(* The comic catalog: paged listing and search, comic detail, chapters and *)
(* recommendations.                                                        *)
(*                                                                         *)
(* The API only reads the tables; editors add, soft-delete (deleted_at)    *)
(* and delete rows while it does.  A page is one query, but a client needs *)
(* several pages, and each page is cut by LIMIT and OFFSET out of the rows *)
(* of its own moment.  Chapters and recommendations take two queries, with *)
(* edits in between.                                                       *)
(***************************************************************************)
EXTENDS Integers, Sequences, SequencesExt, FiniteSets

CONSTANTS
  Comics,     \* rows that comics ever holds
  Book,       \* their columns, genres and number of chapters
  Words,      \* the words ILIKE finds in a title, an author or a country
  Seeded,     \* rows of the SQL script, all inserted at the same moment
  NoComic,    \* no comic, or no id given
  BadId,      \* an id that is not a number
  PageLimit,  \* default and greatest size of a page: 20 and 100 in the code
  PickLimit,  \* the same of a recommendation: 10 and 50 in the code
  IntMax,     \* the greatest int: 2^63 - 1 in the code
  YearMax,    \* the greatest SMALLINT, the type of publish_year: 32767
  Readers,    \* clients that read a result page by page
  Queries,    \* what they ask for
  Calls,      \* calls of the other operations
  Lookups,    \* what these are asked for
  LastEdit    \* bound: edits of the catalog

Limit == [default : Nat \ {0}, max : Nat \ {0}]

ASSUME LimitAssumption ==
  /\ \A limit \in {PageLimit, PickLimit} : limit \in Limit /\ limit.default <= limit.max
  /\ \A limit \in {PageLimit, PickLimit} : limit.max <= IntMax
  /\ IntMax \in Nat

ASSUME CatalogAssumption ==
  /\ IsFiniteSet(Comics)
  /\ Seeded \subseteq Comics
  /\ {NoComic, BadId} \intersect Comics = {}
  /\ {LastEdit, YearMax} \subseteq Nat

ASSUME BookAssumption ==
  \A c \in Comics :
    /\ {Book[c].year, Book[c].rank, Book[c].chapters} \subseteq Nat
    /\ Book[c].year <= YearMax
    /\ IsFiniteSet(Book[c].genres)

Numeric == {"limit", "page", "year", "year_from", "year_to"}

\* A parameter may be named and have no value, but none is given twice.
ASSUME QueryAssumption ==
  \A q \in Queries :
    /\ q.route \in {"list", "search"}
    /\ DOMAIN q.num \union q.bad \subseteq Numeric
    /\ \A p \in DOMAIN q.num : q.num[p] \in Int
    /\ \A p \in DOMAIN q.text \intersect Numeric : q.text[p] = "" /\ p \notin DOMAIN q.num

ASSUME LookupAssumption ==
  \A l \in Lookups : l.op \in {"detail", "chapters", "recommend"} /\ l.limit \in Int

VARIABLES
  shelf,     \* the row of each comic
  created,   \* created_at, as the number of edits before
  edits,     \* edits made so far
  query,     \* what each reader asks for
  reading,   \* where each reader is
  pages,     \* pages it has read
  got,       \* the comics on them
  kept,      \* comics listed all the time since it started
  added,     \* comics added since then
  removed,   \* comics removed since then
  lookup,    \* what each call asks for
  pc,        \* the query it executes next
  base,      \* the comic that its first query found
  answer     \* its HTTP status and data

rows == <<shelf, created, edits>>
history == <<kept, added, removed>>
readers == <<query, reading, pages, got>>
calls == <<lookup, pc, base, answer>>
vars == <<rows, readers, history, calls>>

\* deleted_at IS NULL
Listed == {c \in Comics : shelf[c] = "listed"}

NoAnswer == [status |-> 0, items |-> <<>>]

Init ==
  /\ shelf = [c \in Comics |-> IF c \in Seeded THEN "listed" ELSE "absent"]
  /\ created = [c \in Comics |-> 0]
  /\ edits = 0
  /\ query \in [Readers -> Queries]
  /\ reading = [r \in Readers |-> "idle"]
  /\ pages = [r \in Readers |-> 0]
  /\ got = [r \in Readers |-> <<>>]
  /\ kept = [r \in Readers |-> {}]
  /\ added = [r \in Readers |-> 0]
  /\ removed = [r \in Readers |-> 0]
  /\ lookup \in [Calls -> Lookups]
  /\ pc = [k \in Calls |-> "idle"]
  /\ base = [k \in Calls |-> NoComic]
  /\ answer = [k \in Calls |-> NoAnswer]

-----------------------------------------------------------------------------
(* The editors.                                                            *)

Reading == {r \in Readers : reading[r] = "reading"}

Edit ==
  /\ edits < LastEdit
  /\ edits' = edits + 1

AddComic(c) ==
  /\ Edit
  /\ shelf[c] = "absent"
  /\ shelf' = [shelf EXCEPT ![c] = "listed"]
  /\ created' = [created EXCEPT ![c] = edits + 1]
  /\ added' = [r \in Readers |-> IF r \in Reading THEN added[r] + 1 ELSE added[r]]
  /\ UNCHANGED <<readers, kept, removed, calls>>

\* A soft deletion, or the row is deleted together with its chapters.
RemoveComic(c, how) ==
  /\ Edit
  /\ shelf[c] = "listed"
  /\ shelf' = [shelf EXCEPT ![c] = how]
  /\ kept' = [r \in Readers |-> kept[r] \ {c}]
  /\ removed' = [r \in Readers |-> IF r \in Reading THEN removed[r] + 1 ELSE removed[r]]
  /\ UNCHANGED <<created, readers, added, calls>>

-----------------------------------------------------------------------------
(* Listing and searching.  A query is what a request says, page apart:     *)
(* the route, the caller's plan, text and numeric parameters, and the      *)
(* numeric ones whose value is not a number.                               *)

Text(q, p) == IF p \in DOMAIN q.text THEN q.text[p] ELSE ""
Trim(text) == IF text = " " THEN "" ELSE text
Number(q, p) == IF p \in DOMAIN q.num THEN q.num[p] ELSE 0
Named(q) == DOMAIN q.text \union DOMAIN q.num \union q.bad

Allowed(plan) ==
  {"author", "category", "country", "genre", "limit", "page", "q", "title"} \union
  (IF plan = "standard" THEN {}
   ELSE {"age_rating", "order", "sort", "type", "year", "year_from", "year_to"})

\* A range gives way to the exact year, bound by bound.
Year(q, bound) == IF bound \in DOMAIN q.num THEN q.num[bound] ELSE Number(q, "year")

\* The request is not answered with 400.
ListAccepted(q) == q.bad \intersect {"limit", "page"} = {}

SearchAccepted(q) ==
  /\ Named(q) \subseteq Allowed(q.plan)
  /\ q.bad = {}
  /\ ~ (/\ Year(q, "year_from") > 0
        /\ Year(q, "year_to") > 0
        /\ Year(q, "year_from") > Year(q, "year_to"))

\* The bounds of the WHERE clause are of publish_year's type.
YearsFit(q) ==
  q.route = "search" => \A bound \in {"year_from", "year_to"} : Year(q, bound) <= YearMax

Accepted(q) == IF q.route = "list" THEN ListAccepted(q) ELSE SearchAccepted(q)

\* The alias is looked at when the parameter is empty, not when it is blank.
Alias(q, p, alias) == Trim(IF Text(q, p) # "" THEN Text(q, p) ELSE Text(q, alias))
HasWord(column, word) == word = "" \/ word \in Words[column]
IsOrAny(column, value) == value = "" \/ column = value

\* Mutant: the aliases are not looked at.
MatchesWithoutAliases(q, c) ==
  q.route = "search" =>
    /\ HasWord(Book[c].title, Trim(Text(q, "q")))
    /\ Trim(Text(q, "category")) # "" => Text(q, "category") \in Book[c].genres

\* The WHERE clause.  A comic without a year (0) is in no range of years.
Matches(q, c) ==
  q.route = "search" =>
    /\ HasWord(Book[c].title, Alias(q, "q", "title"))
    /\ HasWord(Book[c].author, Trim(Text(q, "author")))
    /\ HasWord(Book[c].country, Trim(Text(q, "country")))
    /\ Year(q, "year_from") > 0 => Book[c].year # 0 /\ Book[c].year >= Year(q, "year_from")
    /\ Year(q, "year_to") > 0 => Book[c].year # 0 /\ Book[c].year <= Year(q, "year_to")
    /\ IsOrAny(Book[c].rating, Trim(Text(q, "age_rating")))
    /\ IsOrAny(Book[c].type, Trim(Text(q, "type")))
    /\ Alias(q, "category", "genre") # "" => Alias(q, "category", "genre") \in Book[c].genres

SortBy(q) ==
  IF q.route = "search" /\ Text(q, "sort") \in {"publish_year", "title"}
    THEN Text(q, "sort") ELSE "created_at"

Ascending(q) == q.route = "search" /\ Text(q, "order") = "asc"

\* c stands before d; a missing year counts as later than every other one.
Before(q, c, d) ==
  LET later(x, y) ==
        CASE SortBy(q) = "created_at" -> created[x] > created[y]
          [] SortBy(q) = "title" -> Book[x].rank > Book[y].rank
          [] OTHER -> /\ Book[y].year # 0
                      /\ Book[x].year = 0 \/ Book[x].year > Book[y].year
  IN  IF Ascending(q) THEN later(d, c) ELSE later(c, d)

\* The orders in which the database may return S: ties fall either way.
Orders(q, S) ==
  {s \in SetToSeqs(S) : \A i, j \in DOMAIN s : i < j => ~Before(q, s[j], s[i])}

\* Mutant: a limit above the maximum is not cut.
ClampDefaultOnly(n, limit) == IF n <= 0 THEN limit.default ELSE n

Clamp(n, limit) ==
  CASE n <= 0 -> limit.default
    [] n > limit.max -> limit.max
    [] OTHER -> n

PageSize(q) == Clamp(Number(q, "limit"), PageLimit)

Slice(s, from, size) == SubSeq(s, from + 1, Min({from + size, Len(s)}))

\* Mutant: page 1 is taken for the second one.
OffsetFromZero(n, size) == n * size

\* Mutant: a page begins with the last row of the page before.
OffsetOverlapping(n, size) == IF n <= 1 THEN 0 ELSE (n - 1) * size - 1

\* An int of this many values, from the negative ones up, wraps around.
Wrap(n, values) == ((n + values \div 2) % values) - values \div 2

\* Mutant: the offset is an int of one bit less.
OffsetNarrow(n, size) == Wrap((IF n <= 0 THEN 0 ELSE n - 1) * size, IntMax + 1)

\* offset := (page - 1) * limit; no page, or one below 1, is page 1.
Offset(n, size) == Wrap((IF n <= 0 THEN 0 ELSE n - 1) * size, 2 * (IntMax + 1))

\* A reader asks for one page after the other, from the one the query names;
\* a number beyond IntMax is not a number to the handler, and not asked for.
AskedPage(r) ==
  LET first == Number(query[r], "page")
  IN  IF pages[r] = 0 THEN first ELSE Max({first, 1}) + pages[r]

\* It stops at a page that is not full.
ReadPage(r) ==
  LET q == query[r]
      size == PageSize(q)
  IN  /\ reading[r] \in {"idle", "reading"}
      /\ Accepted(q)
      /\ AskedPage(r) <= IntMax
      /\ YearsFit(q) /\ Offset(AskedPage(r), size) >= 0
      /\ \E s \in Orders(q, {c \in Listed : Matches(q, c)}) :
           LET page == Slice(s, Offset(AskedPage(r), size), size) IN
           /\ got' = [got EXCEPT ![r] = @ \o page]
           /\ reading' = [reading EXCEPT ![r] = IF Len(page) < size THEN "done" ELSE "reading"]
      /\ pages' = [pages EXCEPT ![r] = @ + 1]
      /\ kept' = [kept EXCEPT ![r] = IF pages[r] = 0 THEN Listed ELSE @]
      /\ UNCHANGED <<rows, query, added, removed, calls>>

\* A negative OFFSET or a year out of range is an error of the query: 500
\* internal_error.
QueryRejected(r) ==
  /\ reading[r] \in {"idle", "reading"}
  /\ Accepted(query[r])
  /\ AskedPage(r) <= IntMax
  /\ ~YearsFit(query[r]) \/ Offset(AskedPage(r), PageSize(query[r])) < 0
  /\ reading' = [reading EXCEPT ![r] = "failed"]
  /\ UNCHANGED <<rows, query, pages, got, history, calls>>

\* 400 invalid_query
RefuseQuery(r) ==
  /\ reading[r] = "idle"
  /\ ~Accepted(query[r])
  /\ reading' = [reading EXCEPT ![r] = "refused"]
  /\ UNCHANGED <<rows, query, pages, got, history, calls>>

-----------------------------------------------------------------------------
(* Detail, chapters, recommendations.                                      *)

Answer(k, status, items) ==
  /\ answer' = [answer EXCEPT ![k] = [status |-> status, items |-> items]]
  /\ pc' = [pc EXCEPT ![k] = "done"]

\* Mutant: deleted_at is not looked at.
GetByIDAnyRow(id) == {c \in Comics : c = id /\ shelf[c] \in {"listed", "deleted"}}

GetByID(id) == Listed \intersect {id}

\* The first comic, in the order of titles, whose title contains the word.
GetByTitle(word) ==
  LET matching == {c \in Listed : HasWord(Book[c].title, word)}
  IN  {c \in matching : \A d \in matching : Book[c].rank <= Book[d].rank}

Found(l) == IF l.op = "recommend" /\ l.id = NoComic THEN GetByTitle(l.title) ELSE GetByID(l.id)

Incomplete(l) == l.op = "recommend" /\ ((l.id = NoComic /\ l.title = "") \/ l.limit_is_text)

\* The checks of the handler and the first query of the operation.
Find(k) ==
  LET l == lookup[k] IN
  /\ pc[k] = "idle"
  /\ CASE Incomplete(l) -> Answer(k, 400, <<>>) /\ UNCHANGED base
       [] ~Incomplete(l) /\ Found(l) = {} -> Answer(k, 404, <<>>) /\ UNCHANGED base
       [] OTHER -> \E c \in Found(l) :
            /\ base' = [base EXCEPT ![k] = c]
            /\ IF l.op = "detail"
                 THEN Answer(k, 200, <<c>>)
                 ELSE pc' = [pc EXCEPT ![k] = "query"] /\ UNCHANGED answer
  /\ UNCHANGED <<rows, readers, history, lookup>>

\* Mutant: the query joins with comics and asks for deleted_at IS NULL.
ListChaptersOfListed(k) ==
  /\ pc[k] = "query"
  /\ lookup[k].op = "chapters"
  /\ Answer(k, 200, [i \in 1 .. (IF base[k] \in Listed THEN Book[base[k]].chapters ELSE 0) |-> i])
  /\ UNCHANGED <<rows, readers, history, lookup, base>>

\* The second query of ListChapters: it does not look at comics again.
ListChapters(k) ==
  /\ pc[k] = "query"
  /\ lookup[k].op = "chapters"
  /\ Answer(k, 200, [i \in 1 .. (IF shelf[base[k]] = "gone" THEN 0
                                 ELSE Book[base[k]].chapters) |-> i])
  /\ UNCHANGED <<rows, readers, history, lookup, base>>

Score(c, b) ==
  (IF Book[c].author # "" /\ Book[c].author = Book[b].author THEN 3 ELSE 0) +
  2 * Cardinality(Book[c].genres \intersect Book[b].genres) +
  (IF Book[c].country # "" /\ Book[c].country = Book[b].country THEN 1 ELSE 0) +
  (IF Book[c].type = Book[b].type THEN 1 ELSE 0)

\* ORDER BY score DESC, title ASC
Better(b, c, d) ==
  \/ Score(c, b) > Score(d, b)
  \/ Score(c, b) = Score(d, b) /\ Book[c].rank < Book[d].rank

Picks(k) == Clamp(lookup[k].limit, PickLimit)

\* Mutant: candidates are sorted by title only.
RecommendByTitle(k) ==
  LET related == {c \in Listed \ {base[k]} : Score(c, base[k]) > 0} IN
  /\ pc[k] = "query"
  /\ lookup[k].op = "recommend"
  /\ \E s \in SetToSeqs(related) :
       /\ \A i, j \in DOMAIN s : i < j => Book[s[i]].rank <= Book[s[j]].rank
       /\ Answer(k, 200, Slice(s, 0, Picks(k)))
  /\ UNCHANGED <<rows, readers, history, lookup, base>>

\* The second query of RecommendComics: no base row any more, no rows at all.
RecommendByComic(k) ==
  LET related == IF base[k] \in Listed
                   THEN {c \in Listed \ {base[k]} : Score(c, base[k]) > 0} ELSE {} IN
  /\ pc[k] = "query"
  /\ lookup[k].op = "recommend"
  /\ \E s \in SetToSeqs(related) :
       /\ \A i, j \in DOMAIN s : i < j => ~Better(base[k], s[j], s[i])
       /\ Answer(k, 200, Slice(s, 0, Picks(k)))
  /\ UNCHANGED <<rows, readers, history, lookup, base>>

\* A query fails: 500 internal_error.  A reader would ask for the page again.
Unavailable(k) ==
  /\ pc[k] \in {"idle", "query"}
  /\ Answer(k, 500, <<>>)
  /\ UNCHANGED <<rows, readers, history, lookup, base>>

Next ==
  \/ \E c \in Comics : AddComic(c) \/ \E how \in {"deleted", "gone"} : RemoveComic(c, how)
  \/ \E r \in Readers : ReadPage(r) \/ QueryRejected(r) \/ RefuseQuery(r)
  \/ \E k \in Calls : Find(k) \/ ListChapters(k) \/ RecommendByComic(k) \/ Unavailable(k)

Spec == Init /\ [][Next]_vars

-----------------------------------------------------------------------------
(* Properties                                                              *)

(***************************************************************************)
(* Types; a page never holds more comics than the greatest page size, and  *)
(* the second query of an operation knows the comic that the first found.  *)
(***************************************************************************)
TypeOK ==
  /\ shelf \in [Comics -> {"absent", "listed", "deleted", "gone"}]
  /\ created \in [Comics -> 0 .. LastEdit]
  /\ edits \in 0 .. LastEdit
  /\ reading \in [Readers -> {"idle", "reading", "done", "refused", "failed"}]
  /\ \A r \in Readers : pages[r] \in Nat /\ got[r] \in Seq(Comics)
  /\ \A r \in Readers : Len(got[r]) <= pages[r] * PageLimit.max
  /\ kept \in [Readers -> SUBSET Comics]
  /\ added \in [Readers -> 0 .. LastEdit]
  /\ removed \in [Readers -> 0 .. LastEdit]
  /\ pc \in [Calls -> {"idle", "query", "done"}]
  /\ base \in [Calls -> Comics \union {NoComic}]
  /\ \A k \in Calls : answer[k].status \in {0, 200, 400, 404, 500}
  /\ \A k \in Calls : pc[k] = "query" => base[k] # NoComic

(***************************************************************************)
(* What the comments on SearchComics (comic_handler.go:152-164) say of one *)
(* parameter, taken by itself.                                             *)
(***************************************************************************)
Meets(q, p, c) ==
  LET b == Book[c] IN
  CASE p \in {"q", "title"} -> q.text[p] \in Words[b.title]
    [] p \in {"category", "genre"} -> q.text[p] \in b.genres
    [] p = "author" -> q.text[p] \in Words[b.author]
    [] p = "country" -> q.text[p] \in Words[b.country]
    [] p = "age_rating" -> q.text[p] = b.rating
    [] p = "type" -> q.text[p] = b.type
    [] p = "year" -> b.year = q.num[p]
    [] p = "year_from" -> b.year >= q.num[p]
    [] p = "year_to" -> b.year \in 1 .. q.num[p]
    [] OTHER -> TRUE

\* The parameters that ask for something: a blank or a number below 1 does not.
Asking(q) ==
  {p \in DOMAIN q.text : Trim(q.text[p]) # ""} \union {p \in DOMAIN q.num : q.num[p] > 0}

\* Those that give way to another one, which may itself ask for nothing: the
\* comments say so of the two aliases, and do not say so of the exact year.
Overruled(q) ==
  {p \in {"title", "genre", "year"} :
     CASE p = "title" -> Text(q, "q") # ""
       [] p = "genre" -> Text(q, "category") # ""
       [] p = "year" -> {"year_from", "year_to"} \intersect DOMAIN q.num # {}}

(***************************************************************************)
(* Every comic that a search returns meets, one by one, all the parameters *)
(* that ask for something, to the letter of the comments on SearchComics,  *)
(* but for those that another parameter overrules (a title next to q, a    *)
(* genre next to category, an exact year next to a bound).  A parameter    *)
(* that the handler does not know, or not of this plan, is refused.        *)
(***************************************************************************)
SearchHonoursParameters ==
  \A r \in Readers : \A c \in ToSet(got[r]) :
    LET q == query[r] IN
    q.route = "search" =>
      /\ \A p \in Asking(q) \ Overruled(q) : Meets(q, p, c)
      /\ Named(q) \subseteq Allowed(q.plan)

\* The comic meets everything that is asked for, overruled or not.
Fits(q, c) == q.route = "search" => \A p \in Asking(q) : Meets(q, p, c)

\* Comics whose place among the results does not depend on how ties fall.
Untied(q) ==
  {c \in Comics : \A d \in Comics \ {c} :
     shelf[d] # "absent" => Before(q, c, d) \/ Before(q, d, c)}

(***************************************************************************)
(* A client that reads page after page to the end misses at most one comic *)
(* for each comic that was removed meanwhile, of those that were in the    *)
(* catalog all the time, meet every parameter, and are not tied in the     *)
(* sort column: pages do not leave gaps, additions never hide anything,    *)
(* and the WHERE clause does not leave out what was asked for.             *)
(***************************************************************************)
PagesLoseLittle ==
  \A r \in Readers : reading[r] = "done" /\ Number(query[r], "page") <= 1 =>
    Cardinality({c \in kept[r] \intersect Untied(query[r]) :
                   Fits(query[r], c) /\ c \notin ToSet(got[r])}) <= removed[r]

(***************************************************************************)
(* And it sees at most one comic again for each comic added meanwhile      *)
(* (comics tied in the sort column apart): pages do not overlap.           *)
(***************************************************************************)
PagesRepeatLittle ==
  \A r \in Readers :
    LET at == {i \in DOMAIN got[r] : got[r][i] \in Untied(query[r])}
    IN  Cardinality(at) <= Cardinality({got[r][i] : i \in at}) + added[r]

(***************************************************************************)
(* A page number is honoured as long as (page - 1) * limit is an int: the  *)
(* page is answered, and before each comic on it (ties apart) come as many *)
(* matching comics as the pages before it hold.  (For pages beyond that    *)
(* the product wraps around, to an error or to the rows of another page; a *)
(* year that is no SMALLINT is an error on every page.)                    *)
(***************************************************************************)
PageNumberHonoured ==
  [][\A r \in Readers :
       LET q == query[r]
           before == Max({AskedPage(r) - 1, 0}) * PageSize(q)
           page == (Len(got[r]) + 1) .. Len(got'[r])
       IN  before <= IntMax /\ YearsFit(q) =>
             /\ reading'[r] = "failed" => reading[r] = "failed"
             /\ \A i \in page : got'[r][i] \in Untied(q) =>
                  Cardinality({d \in Listed : Matches(q, d) /\ Before(q, d, got'[r][i])})
                    = before + i - Len(got[r]) - 1]_vars

(***************************************************************************)
(* Chapters are all listed or the comic is unknown: the one exception is a *)
(* comic that is deleted for good between the two queries, whose chapters  *)
(* are then an empty list with 200.                                        *)
(***************************************************************************)
ChaptersComplete ==
  \A k \in Calls : lookup[k].op = "chapters" /\ answer[k].status = 200 =>
    \/ Len(answer[k].items) = Book[base[k]].chapters
    \/ answer[k].items = <<>> /\ shelf[base[k]] = "gone"

(***************************************************************************)
(* A comic that is deleted, also softly, is not shown any more by requests *)
(* that begin later: neither itself, nor its chapters, nor what is like it.*)
(***************************************************************************)
DeletedStaysHidden ==
  \A k \in Calls, c \in Comics :
    []( pc[k] = "idle" /\ shelf[c] \in {"deleted", "gone"}
        => [](base[k] # c /\ (lookup[k].op = "recommend" => c \notin ToSet(answer[k].items))) )

(***************************************************************************)
(* Recommendations are like a comic that is still there: none is the comic *)
(* itself, no listed comic is left out in favour of one that has less in   *)
(* common with it, and there are none only if nothing listed has anything  *)
(* in common with it, or if it was deleted between the two queries.        *)
(***************************************************************************)
RecommendsTheBest ==
  [][\A k \in Calls :
       LET items == ToSet(answer'[k].items)
       IN  lookup[k].op = "recommend" /\ answer'[k] # answer[k] /\ answer'[k].status = 200 =>
             /\ base[k] \notin items
             /\ items # {} => base[k] \in Listed
             /\ items = {} => \/ base[k] \notin Listed
                             \/ \A d \in Listed \ {base[k]} : Score(d, base[k]) = 0
             /\ \A c \in items : Score(c, base[k]) > 0
             /\ \A c \in items, d \in Listed \ (items \union {base[k]}) :
                  Score(d, base[k]) <= Score(c, base[k])]_vars
=============================================================================
