---------------------------- MODULE CatalogProofs ----------------------------
(***************************************************************************)
(* Proofs about Catalog for any comics, queries, page sizes and edits.     *)
(* What a reader misses, and what is repeated, over all the pages comes    *)
(* last: it needs everything that is said of a single page before.         *)
(***************************************************************************)
EXTENDS Catalog, FiniteSetTheorems, TLAPS

-----------------------------------------------------------------------------
(* Operators.                                                              *)

LEMMA MinOfTwo ==
  ASSUME NEW a \in Int, NEW b \in Int
  PROVE  Min({a, b}) = IF a <= b THEN a ELSE b
<1>1. \E m \in {a, b} : \A y \in {a, b} : m <= y
  OBVIOUS
<1>2. Min({a, b}) \in {a, b} /\ \A y \in {a, b} : Min({a, b}) <= y
  BY <1>1 DEF Min
<1>3. /\ Min({a, b}) = a \/ Min({a, b}) = b
      /\ Min({a, b}) <= a
      /\ Min({a, b}) <= b
  BY <1>2
<1> QED
  BY <1>3

LEMMA MaxOfTwo ==
  ASSUME NEW a \in Int, NEW b \in Int
  PROVE  Max({a, b}) = IF a >= b THEN a ELSE b
<1>1. \E m \in {a, b} : \A y \in {a, b} : m >= y
  OBVIOUS
<1>2. Max({a, b}) \in {a, b} /\ \A y \in {a, b} : Max({a, b}) >= y
  BY <1>1 DEF Max
<1>3. /\ Max({a, b}) = a \/ Max({a, b}) = b
      /\ Max({a, b}) >= a
      /\ Max({a, b}) >= b
  BY <1>2
<1> QED
  BY <1>3

LEMMA Clamped ==
  ASSUME NEW n \in Int, NEW limit \in {PageLimit, PickLimit}
  PROVE  Clamp(n, limit) \in 1 .. limit.max
BY LimitAssumption DEF Clamp, Limit

\* An int that is not too large is what it is, and any int is an int.
LEMMA Wrapped ==
  ASSUME NEW n \in Int
  PROVE  /\ Wrap(n, 2 * (IntMax + 1)) \in Int
         /\ n \in 0 .. IntMax => Wrap(n, 2 * (IntMax + 1)) = n
<1> DEFINE v == 2 * (IntMax + 1)
           h == v \div 2
<1>1. v \in Nat \ {0} /\ h = IntMax + 1
  BY LimitAssumption
<1>2. (n + h) % v \in 0 .. v - 1
  BY <1>1, LimitAssumption
<1>3. ASSUME n \in 0 .. IntMax
      PROVE  (n + h) % v = n + h
  <2>1. n + h \in 0 .. v - 1
    BY <1>1, <1>3, LimitAssumption
  <2> HIDE DEF v, h
  <2> QED
    BY <1>1, <2>1
<1> QED
  BY <1>1, <1>2, <1>3, LimitAssumption DEF Wrap

LEMMA PieceLength ==
  ASSUME NEW from \in Nat, NEW size \in Nat, NEW len \in Nat, NEW to \in Nat, NEW n \in Nat,
         to = IF from + size <= len THEN from + size ELSE len,
         n = IF from + 1 <= to THEN to - from ELSE 0
  PROVE  /\ from + size <= len => n = size
         /\ from <= len /\ len <= from + size => n = len - from
         /\ len <= from => n = 0
         /\ n <= size
OBVIOUS

\* LIMIT and OFFSET take a piece of the result, in its order.
LEMMA Sliced ==
  ASSUME NEW S, NEW s \in Seq(S), NEW from \in Nat, NEW size \in Nat
  PROVE  /\ Slice(s, from, size) \in Seq(S)
         /\ Len(Slice(s, from, size)) <= size
         /\ from + size <= Len(s) => Len(Slice(s, from, size)) = size
         /\ from <= Len(s) /\ Len(s) <= from + size => Len(Slice(s, from, size)) = Len(s) - from
         /\ Len(s) <= from => Len(Slice(s, from, size)) = 0
         /\ \A i \in DOMAIN Slice(s, from, size) :
              from + i \in DOMAIN s /\ Slice(s, from, size)[i] = s[from + i]
<1> DEFINE to == Min({from + size, Len(s)})
<1>1. Len(s) \in Nat /\ DOMAIN s = 1 .. Len(s)
  OBVIOUS
<1>2. to = IF from + size <= Len(s) THEN from + size ELSE Len(s)
  BY <1>1, MinOfTwo
<1>3. to \in Nat /\ to <= Len(s)
  BY <1>1, <1>2
<1> HIDE DEF to
<1>4. /\ SubSeq(s, from + 1, to) \in Seq(S)
      /\ Len(SubSeq(s, from + 1, to)) = IF from + 1 <= to THEN to - from ELSE 0
      /\ \A i \in 1 .. (to - from) : SubSeq(s, from + 1, to)[i] = s[from + i]
  BY <1>1, <1>3
<1>5. DOMAIN SubSeq(s, from + 1, to) = 1 .. Len(SubSeq(s, from + 1, to))
  BY <1>4
<1>6. Slice(s, from, size) = SubSeq(s, from + 1, to)
  BY DEF Slice, to
<1> DEFINE n == Len(SubSeq(s, from + 1, to))
<1>7. /\ from + size <= Len(s) => n = size
      /\ from <= Len(s) /\ Len(s) <= from + size => n = Len(s) - from
      /\ Len(s) <= from => n = 0
      /\ n <= size
  <2>1. n = (IF from + 1 <= to THEN to - from ELSE 0) /\ n \in Nat
    BY <1>3, <1>4
  <2> DEFINE len == Len(s)
  <2>2. to = (IF from + size <= len THEN from + size ELSE len) /\ len \in Nat /\ to \in Nat
    BY <1>1, <1>2, <1>3
  <2> HIDE DEF n, len
  <2>3. /\ from + size <= len => n = size
        /\ from <= len /\ len <= from + size => n = len - from
        /\ len <= from => n = 0
        /\ n <= size
    BY <2>1, <2>2, PieceLength
  <2> QED
    BY <2>3 DEF len
<1>8. \A i \in DOMAIN SubSeq(s, from + 1, to) : i \in 1 .. (to - from) /\ from + i \in 1 .. Len(s)
  BY <1>1, <1>3, <1>4, <1>5
<1> QED
  BY <1>1, <1>4, <1>6, <1>7, <1>8

\* A result is a sequence of its rows, each of them once.
LEMMA Listing ==
  ASSUME NEW S \in SUBSET Comics, NEW s \in SetToSeqs(S)
  PROVE  /\ s \in Seq(S)
         /\ IsFiniteSet(S)
         /\ Len(s) = Cardinality(S)
         /\ \A i, j \in DOMAIN s : s[i] = s[j] => i = j
         /\ \A c \in S : \E i \in DOMAIN s : s[i] = c
<1>1. IsFiniteSet(S) /\ Cardinality(S) \in Nat
  BY CatalogAssumption, FS_Subset, FS_CardinalityType
<1>2. s \in [1 .. Cardinality(S) -> S] /\ \A i, j \in 1 .. Cardinality(S) : i # j => s[i] # s[j]
  BY DEF SetToSeqs
<1>3. s \in Seq(S) /\ Len(s) = Cardinality(S) /\ DOMAIN s = 1 .. Cardinality(S)
  BY <1>1, <1>2
<1>4. \A c \in S : \E i \in DOMAIN s : s[i] = c
  <2>1. s \in Injection(1 .. Cardinality(S), S)
    BY <1>2 DEF Injection, IsInjective
  <2>2. Cardinality(1 .. Cardinality(S)) = Cardinality(S)
    BY <1>1, FS_Interval
  <2>3. s \in Surjection(1 .. Cardinality(S), S)
    BY <1>1, <2>1, <2>2, FS_Injection
  <2> QED
    BY <1>3, <2>3 DEF Surjection
<1> QED
  BY <1>1, <1>2, <1>3, <1>4

\* The year bounds of the WHERE clause, if a range (from f to t) or an exact
\* year (e) is given.
LEMMA YearBounds ==
  ASSUME NEW y \in Nat,
         NEW isF \in BOOLEAN, NEW isT \in BOOLEAN, NEW isE \in BOOLEAN,
         NEW f \in Int, NEW t \in Int, NEW e \in Int,
         NEW low, low = IF isF THEN f ELSE IF isE THEN e ELSE 0,
         NEW high, high = IF isT THEN t ELSE IF isE THEN e ELSE 0,
         NEW within, within <=> /\ low > 0 => y # 0 /\ y >= low
                                /\ high > 0 => y # 0 /\ y <= high
  PROVE  /\ within /\ isE /\ e > 0 /\ ~isF /\ ~isT => y = e
         /\ within /\ isF /\ f > 0 => y >= f
         /\ within /\ isT /\ t > 0 => y \in 1 .. t
         /\ (/\ isE /\ e > 0 => y = e
             /\ isF /\ f > 0 => y >= f
             /\ isT /\ t > 0 => y \in 1 .. t) => within
<1>1. CASE isF /\ isT
  BY <1>1
<1>2. CASE isF /\ ~isT
  BY <1>2
<1>3. CASE ~isF /\ isT
  BY <1>3
<1>4. CASE ~isF /\ ~isT
  BY <1>4
<1> QED
  BY <1>1, <1>2, <1>3, <1>4

\* The part of the WHERE clause that is about years.
WithinYears(q, c) ==
  /\ Year(q, "year_from") > 0 => Book[c].year # 0 /\ Book[c].year >= Year(q, "year_from")
  /\ Year(q, "year_to") > 0 => Book[c].year # 0 /\ Book[c].year <= Year(q, "year_to")

LEMMA YearsAsked ==
  ASSUME NEW q \in Queries, NEW c \in Comics
  PROVE  /\ WithinYears(q, c) =>
              \A p \in {"year", "year_from", "year_to"} :
                p \in Asking(q) \ Overruled(q) => Meets(q, p, c)
         /\ (\A p \in {"year", "year_from", "year_to"} : p \in Asking(q) => Meets(q, p, c))
              => WithinYears(q, c)
<1> DEFINE D == DOMAIN q.num
           num(p) == IF p \in D THEN q.num[p] ELSE 0
           y == Book[c].year
           W == WithinYears(q, c)
           Years == {"year", "year_from", "year_to"}
<1>1. y \in Nat
  BY BookAssumption
<1>2. \A p \in Years : num(p) \in Int
  <2>1. \A p \in DOMAIN q.num : q.num[p] \in Int
    BY QueryAssumption
  <2> QED
    BY <2>1
<1>3. \A p \in Years : p \in Asking(q) <=> p \in D /\ num(p) > 0
  BY QueryAssumption DEF Asking, Numeric, Trim
<1>4. "year" \in Overruled(q) <=> "year_from" \in D \/ "year_to" \in D
  BY DEF Overruled
<1>5. "year_from" \notin Overruled(q) /\ "year_to" \notin Overruled(q)
  BY DEF Overruled
<1>6. /\ "year" \in D => (Meets(q, "year", c) <=> y = num("year"))
      /\ "year_from" \in D => (Meets(q, "year_from", c) <=> y >= num("year_from"))
      /\ "year_to" \in D => (Meets(q, "year_to", c) <=> y \in 1 .. num("year_to"))
  BY DEF Meets
<1>7. \A p \in Years : Year(q, p) = IF p \in D THEN num(p) ELSE IF "year" \in D THEN num("year") ELSE 0
  BY DEF Year, Number
<1>8. W <=> /\ Year(q, "year_from") > 0 => y # 0 /\ y >= Year(q, "year_from")
            /\ Year(q, "year_to") > 0 => y # 0 /\ y <= Year(q, "year_to")
  BY DEF WithinYears
<1> HIDE DEF D, num, y, W
<1>9. /\ W /\ "year" \in D /\ num("year") > 0 /\ "year_from" \notin D /\ "year_to" \notin D
           => y = num("year")
      /\ W /\ "year_from" \in D /\ num("year_from") > 0 => y >= num("year_from")
      /\ W /\ "year_to" \in D /\ num("year_to") > 0 => y \in 1 .. num("year_to")
      /\ (/\ "year" \in D /\ num("year") > 0 => y = num("year")
          /\ "year_from" \in D /\ num("year_from") > 0 => y >= num("year_from")
          /\ "year_to" \in D /\ num("year_to") > 0 => y \in 1 .. num("year_to")) => W
  BY <1>1, <1>2, <1>7, <1>8, YearBounds
<1>10. W => \A p \in Years : p \in Asking(q) \ Overruled(q) => Meets(q, p, c)
  BY <1>3, <1>4, <1>6, <1>9
<1>11. (\A p \in Years : p \in Asking(q) => Meets(q, p, c)) => W
  BY <1>3, <1>6, <1>9
<1> QED
  BY <1>10, <1>11 DEF W

(***************************************************************************)
(* The WHERE clause, put together by the handler and the repository from   *)
(* aliases, blanks and ranges: what it lets through meets every parameter  *)
(* that no other one overrules, and what meets every parameter gets        *)
(* through.                                                                *)
(***************************************************************************)
LEMMA MatchingMeets ==
  ASSUME NEW q \in Queries, q.route = "search", NEW c \in Comics, Matches(q, c)
  PROVE  \A p \in Asking(q) \ Overruled(q) : Meets(q, p, c)
<1>1. /\ DOMAIN q.num \subseteq Numeric
      /\ \A p \in DOMAIN q.text \intersect Numeric : q.text[p] = "" /\ p \notin DOMAIN q.num
  BY QueryAssumption
<1> DEFINE M(p) == p \in Asking(q) \ Overruled(q) => Meets(q, p, c)
<1>2. M("q") /\ M("title")
  BY <1>1 DEF Matches, HasWord, Alias, Trim, Text, Meets, Numeric, Asking, Overruled
<1>3. M("category") /\ M("genre")
  BY <1>1 DEF Matches, Alias, Trim, Text, Meets, Numeric, Asking, Overruled
<1>4. M("author") /\ M("country")
  BY <1>1 DEF Matches, HasWord, Trim, Text, Meets, Numeric, Asking
<1>5. M("age_rating") /\ M("type")
  BY <1>1 DEF Matches, IsOrAny, Trim, Text, Meets, Numeric, Asking
<1>6. M("year") /\ M("year_from") /\ M("year_to")
  BY YearsAsked DEF Matches, WithinYears
<1>7. \A p : p \notin {"q", "title", "author", "country", "age_rating", "type", "category",
                       "genre", "year", "year_from", "year_to"} => Meets(q, p, c)
  BY DEF Meets
<1> HIDE DEF M
<1>8. \A p : M(p) \/ Meets(q, p, c)
  BY <1>2, <1>3, <1>4, <1>5, <1>6, <1>7
<1> QED
  BY <1>8 DEF M

LEMMA FittingMatches ==
  ASSUME NEW q \in Queries, NEW c \in Comics, Fits(q, c)
  PROVE  Matches(q, c)
<1> SUFFICES ASSUME q.route = "search"
             PROVE  Matches(q, c)
  BY DEF Matches
<1>1. \A p \in Asking(q) : Meets(q, p, c)
  BY DEF Fits
<1>2. \A p \in DOMAIN q.text : Trim(q.text[p]) # "" => p \in Asking(q)
  BY DEF Asking
<1>3. HasWord(Book[c].title, Alias(q, "q", "title"))
  BY <1>1, <1>2 DEF HasWord, Alias, Trim, Text, Meets
<1>4. Alias(q, "category", "genre") # "" => Alias(q, "category", "genre") \in Book[c].genres
  BY <1>1, <1>2 DEF Alias, Trim, Text, Meets
<1>5. /\ HasWord(Book[c].author, Trim(Text(q, "author")))
      /\ HasWord(Book[c].country, Trim(Text(q, "country")))
  BY <1>1, <1>2 DEF HasWord, Trim, Text, Meets
<1>6. /\ IsOrAny(Book[c].rating, Trim(Text(q, "age_rating")))
      /\ IsOrAny(Book[c].type, Trim(Text(q, "type")))
  BY <1>1, <1>2 DEF IsOrAny, Trim, Text, Meets
<1>7. WithinYears(q, c)
  BY <1>1, YearsAsked
<1> QED
  BY <1>3, <1>4, <1>5, <1>6, <1>7 DEF Matches, WithinYears

-----------------------------------------------------------------------------
(* The invariant.                                                          *)

ReadersOK ==
  /\ query \in [Readers -> Queries]
  /\ pages \in [Readers -> Nat]
  /\ got \in [Readers -> Seq(Comics)]
  /\ \A r \in Readers : added[r] <= edits /\ removed[r] <= edits
  /\ \A r \in Readers : \A i \in DOMAIN got[r] : Matches(query[r], got[r][i])
  /\ \A r \in Readers : got[r] # <<>> => Accepted(query[r])

AnswerType == [status : {0, 200, 400, 404, 500}, items : Seq(Comics \union Nat)]

CallsOK ==
  /\ lookup \in [Calls -> Lookups]
  /\ answer \in [Calls -> AnswerType]
  /\ \A k \in Calls :
       /\ pc[k] = "idle" => base[k] = NoComic
       /\ pc[k] # "done" => answer[k] = NoAnswer
       /\ pc[k] = "query" => lookup[k].op # "detail"
       /\ answer[k].status = 200 => base[k] \in Comics

CInv == TypeOK /\ ReadersOK /\ CallsOK /\ ChaptersComplete

LEMMA InitOK ==
  ASSUME Init
  PROVE  CInv
<1> USE DEF Init
<1>1. <<>> \in Seq(Comics) /\ Len(<<>>) = 0 /\ DOMAIN <<>> = {} /\ <<>> \in Seq(Comics \union Nat)
  OBVIOUS
<1>2. TypeOK
  BY <1>1, CatalogAssumption, LimitAssumption DEF TypeOK, NoAnswer, Limit
<1>3. ReadersOK
  BY <1>1 DEF ReadersOK
<1>4. CallsOK /\ ChaptersComplete
  BY <1>1 DEF CallsOK, AnswerType, ChaptersComplete, NoAnswer
<1> QED
  BY <1>2, <1>3, <1>4 DEF CInv

LEMMA EditKeeps ==
  ASSUME CInv, NEW c \in Comics,
         AddComic(c) \/ \E how \in {"deleted", "gone"} : RemoveComic(c, how)
  PROVE  CInv'
<1> USE DEF CInv
<1>1. /\ edits < LastEdit /\ edits' = edits + 1
      /\ UNCHANGED <<query, reading, pages, got, lookup, pc, base, answer>>
  BY DEF AddComic, RemoveComic, Edit, readers, calls
<1>2. /\ edits' \in 0 .. LastEdit
      /\ \A n \in 0 .. LastEdit : n <= edits => n + 1 \in 0 .. LastEdit /\ n + 1 <= edits' /\ n <= edits'
  BY <1>1, CatalogAssumption DEF TypeOK
<1>3. /\ shelf' \in [Comics -> {"absent", "listed", "deleted", "gone"}]
      /\ created' \in [Comics -> 0 .. LastEdit]
      /\ \A d \in Comics : shelf[d] = "gone" => shelf'[d] = "gone"
  <2>1. CASE AddComic(c)
    BY <1>2, <2>1, <1>1 DEF AddComic, TypeOK
  <2>2. CASE \E how \in {"deleted", "gone"} : RemoveComic(c, how)
    BY <2>2 DEF RemoveComic, TypeOK
  <2> QED
    BY <2>1, <2>2
<1>4. /\ kept' \in [Readers -> SUBSET Comics]
      /\ added' \in [Readers -> 0 .. LastEdit]
      /\ removed' \in [Readers -> 0 .. LastEdit]
      /\ \A r \in Readers : added'[r] <= edits' /\ removed'[r] <= edits'
  <2>1. \A r \in Readers : /\ added[r] \in 0 .. LastEdit /\ added[r] <= edits
                           /\ removed[r] \in 0 .. LastEdit /\ removed[r] <= edits
    BY DEF TypeOK, ReadersOK
  <2>2. CASE AddComic(c)
    <3>1. /\ added' = [r \in Readers |-> IF r \in Reading THEN added[r] + 1 ELSE added[r]]
          /\ UNCHANGED <<kept, removed>>
      BY <2>2 DEF AddComic
    <3> QED
      BY <1>2, <2>1, <3>1 DEF TypeOK
  <2>3. CASE \E how \in {"deleted", "gone"} : RemoveComic(c, how)
    <3>1. /\ removed' = [r \in Readers |-> IF r \in Reading THEN removed[r] + 1 ELSE removed[r]]
          /\ kept' = [r \in Readers |-> kept[r] \ {c}]
          /\ UNCHANGED added
      BY <2>3 DEF RemoveComic
    <3> QED
      BY <1>2, <2>1, <3>1 DEF TypeOK
  <2> QED
    BY <2>2, <2>3
<1>5. TypeOK'
  BY <1>1, <1>2, <1>3, <1>4 DEF TypeOK
<1>6. ReadersOK'
  BY <1>1, <1>4 DEF ReadersOK
<1>7. CallsOK'
  BY <1>1 DEF CallsOK
<1>8. ChaptersComplete'
  BY <1>1, <1>3 DEF ChaptersComplete, CallsOK
<1> QED
  BY <1>5, <1>6, <1>7, <1>8

\* What a reader asks for is a number and a size that is at most the greatest.
LEMMA Asked ==
  ASSUME CInv, NEW r \in Readers
  PROVE  AskedPage(r) \in Int /\ PageSize(query[r]) \in 1 .. PageLimit.max
<1>1. query[r] \in Queries /\ pages[r] \in Nat
  BY DEF CInv, ReadersOK
<1>2. \A p : Number(query[r], p) \in Int
  <2>1. \A p \in DOMAIN query[r].num : query[r].num[p] \in Int
    BY <1>1, QueryAssumption
  <2> QED
    BY <2>1 DEF Number
<1>3. AskedPage(r) \in Int
  <2>1. Max({Number(query[r], "page"), 1}) \in Int
    BY <1>2, MaxOfTwo
  <2> QED
    BY <1>1, <1>2, <2>1 DEF AskedPage
<1>4. PageSize(query[r]) \in 1 .. PageLimit.max
  BY <1>2, Clamped DEF PageSize
<1> QED
  BY <1>3, <1>4

\* What the next page of a reader is.
LEMMA PageRead ==
  ASSUME CInv, NEW r \in Readers, ReadPage(r)
  PROVE  LET q == query[r]
             size == PageSize(q)
             from == Offset(AskedPage(r), size)
         IN  /\ q \in Queries /\ Accepted(q)
             /\ AskedPage(r) \in Int
             /\ size \in 1 .. PageLimit.max
             /\ from \in Nat
             /\ \E s \in Orders(q, {c \in Listed : Matches(q, c)}) :
                  /\ got' = [got EXCEPT ![r] = @ \o Slice(s, from, size)]
                  /\ reading' = [reading EXCEPT ![r] =
                                   IF Len(Slice(s, from, size)) < size THEN "done" ELSE "reading"]
<1>1. query[r] \in Queries
  BY DEF CInv, ReadersOK
<1>3. AskedPage(r) \in Int /\ PageSize(query[r]) \in 1 .. PageLimit.max
  BY Asked
<1>5. Offset(AskedPage(r), PageSize(query[r])) \in Int
  <2>1. (IF AskedPage(r) <= 0 THEN 0 ELSE AskedPage(r) - 1) * PageSize(query[r]) \in Int
    BY <1>3, LimitAssumption DEF Limit
  <2> QED
    BY <2>1, Wrapped DEF Offset
<1>6. Accepted(query[r]) /\ Offset(AskedPage(r), PageSize(query[r])) >= 0
  BY DEF ReadPage
<1>7. \E s \in Orders(query[r], {c \in Listed : Matches(query[r], c)}) :
        LET page == Slice(s, Offset(AskedPage(r), PageSize(query[r])), PageSize(query[r])) IN
        /\ got' = [got EXCEPT ![r] = @ \o page]
        /\ reading' = [reading EXCEPT ![r] =
                         IF Len(page) < PageSize(query[r]) THEN "done" ELSE "reading"]
  BY DEF ReadPage
<1> DEFINE q == query[r]
           size == PageSize(q)
           from == Offset(AskedPage(r), size)
<1>8. \E s \in Orders(q, {c \in Listed : Matches(q, c)}) :
        /\ got' = [got EXCEPT ![r] = @ \o Slice(s, from, size)]
        /\ reading' = [reading EXCEPT ![r] =
                         IF Len(Slice(s, from, size)) < size THEN "done" ELSE "reading"]
  BY <1>7
<1>9. from \in Nat
  BY <1>5, <1>6
<1> HIDE DEF size, from
<1>10. size \in 1 .. PageLimit.max
  BY <1>3 DEF size
<1> SUFFICES /\ q \in Queries /\ Accepted(q)
             /\ AskedPage(r) \in Int
             /\ size \in 1 .. PageLimit.max
             /\ from \in Nat
             /\ \E s \in Orders(q, {c \in Listed : Matches(q, c)}) :
                  /\ got' = [got EXCEPT ![r] = @ \o Slice(s, from, size)]
                  /\ reading' = [reading EXCEPT ![r] =
                                   IF Len(Slice(s, from, size)) < size THEN "done" ELSE "reading"]
  BY DEF size, from
<1> QED
  BY <1>1, <1>3, <1>6, <1>8, <1>9, <1>10

\* One more page adds at most its greatest size.
LEMMA OnePageMore ==
  ASSUME NEW p \in Nat, NEW m \in Nat, NEW n \in Nat, NEW d \in Nat, n <= p * m, d <= m
  PROVE  n + d <= (p + 1) * m
<1>1. (p + 1) * m = p * m + m /\ p * m \in Nat
  OBVIOUS
<1> QED
  BY <1>1

LEMMA ReadPageKeeps ==
  ASSUME CInv, NEW r \in Readers, ReadPage(r)
  PROVE  CInv'
<1> USE DEF CInv
<1> DEFINE q == query[r]
           size == PageSize(q)
           from == Offset(AskedPage(r), size)
<1>1. /\ q \in Queries /\ Accepted(q)
      /\ size \in 1 .. PageLimit.max
      /\ from \in Nat
      /\ \E s \in Orders(q, {c \in Listed : Matches(q, c)}) :
           /\ got' = [got EXCEPT ![r] = @ \o Slice(s, from, size)]
           /\ reading' = [reading EXCEPT ![r] =
                            IF Len(Slice(s, from, size)) < size THEN "done" ELSE "reading"]
  BY PageRead
<1>2. /\ pages' = [pages EXCEPT ![r] = @ + 1]
      /\ kept' = [kept EXCEPT ![r] = IF pages[r] = 0 THEN Listed ELSE @]
      /\ UNCHANGED <<shelf, created, edits, query, added, removed, lookup, pc, base, answer>>
  BY DEF ReadPage, rows, calls
<1> HIDE DEF q, size, from
<1>3. PICK s \in Orders(q, {c \in Listed : Matches(q, c)}) :
        /\ got' = [got EXCEPT ![r] = @ \o Slice(s, from, size)]
        /\ reading' = [reading EXCEPT ![r] =
                         IF Len(Slice(s, from, size)) < size THEN "done" ELSE "reading"]
  BY <1>1
<1> DEFINE S == {c \in Listed : Matches(q, c)}
           page == Slice(s, from, size)
<1>4. S \subseteq Comics /\ s \in SetToSeqs(S)
  BY DEF Listed, Orders
<1>5. s \in Seq(S) /\ \A i \in DOMAIN s : s[i] \in S
  <2> HIDE DEF S
  <2>1. s \in Seq(S)
    BY <1>4, Listing
  <2> QED
    BY <2>1
<1>6. size \in Nat /\ PageLimit.max \in Nat /\ size <= PageLimit.max
  BY <1>1, LimitAssumption DEF Limit
<1>7. /\ page \in Seq(S)
      /\ Len(page) <= size
      /\ \A i \in DOMAIN page : page[i] \in S
  <2> HIDE DEF S
  <2>1. page \in Seq(S) /\ Len(page) <= size
    BY <1>1, <1>5, <1>6, Sliced
  <2> HIDE DEF page
  <2> QED
    BY <2>1
<1>8. page \in Seq(Comics) /\ Len(page) \in Nat /\ DOMAIN page = 1 .. Len(page)
  <2> HIDE DEF S, page
  <2> QED
    BY <1>4, <1>7
<1>9. \A i \in DOMAIN page : Matches(q, page[i])
  BY <1>7
<1> HIDE DEF S, page
<1>10. got' = [got EXCEPT ![r] = @ \o page]
  BY <1>3 DEF page
<1>11. /\ got[r] \in Seq(Comics)
       /\ Len(got[r]) \in Nat
       /\ Len(got[r]) <= pages[r] * PageLimit.max
       /\ pages[r] \in Nat
  BY DEF TypeOK, ReadersOK
<1>12. /\ got[r] \o page \in Seq(Comics)
       /\ Len(got[r] \o page) = Len(got[r]) + Len(page)
       /\ DOMAIN (got[r] \o page) = 1 .. Len(got[r]) + Len(page)
       /\ \A i \in 1 .. Len(got[r]) + Len(page) :
            (got[r] \o page)[i] = IF i <= Len(got[r]) THEN got[r][i] ELSE page[i - Len(got[r])]
  BY <1>8, <1>11
<1>13. Len(got[r] \o page) <= (pages[r] + 1) * PageLimit.max
  BY <1>6, <1>7, <1>8, <1>11, <1>12, OnePageMore
<1>14. \A i \in DOMAIN (got[r] \o page) : Matches(q, (got[r] \o page)[i])
  <2> SUFFICES ASSUME NEW i \in 1 .. Len(got[r]) + Len(page)
               PROVE  Matches(q, (got[r] \o page)[i])
    BY <1>12
  <2>1. CASE i <= Len(got[r])
    <3>1. i \in DOMAIN got[r]
      BY <1>11, <2>1
    <3> QED
      BY <1>12, <2>1, <3>1 DEF ReadersOK, q
  <2>2. CASE ~(i <= Len(got[r]))
    <3>1. i - Len(got[r]) \in DOMAIN page
      BY <1>8, <1>11, <2>2
    <3> QED
      BY <1>9, <1>12, <2>2, <3>1
  <2> QED
    BY <2>1, <2>2
<1>15. TypeOK'
  <2>1. /\ pages' \in [Readers -> Nat]
        /\ \A x \in Readers : got'[x] \in Seq(Comics) /\ Len(got'[x]) <= pages'[x] * PageLimit.max
    BY <1>2, <1>10, <1>12, <1>13 DEF TypeOK, ReadersOK
  <2>2. reading' \in [Readers -> {"idle", "reading", "done", "refused", "failed"}]
    BY <1>3 DEF TypeOK
  <2>3. kept' \in [Readers -> SUBSET Comics]
    BY <1>2 DEF TypeOK, Listed
  <2> QED
    BY <1>2, <2>1, <2>2, <2>3 DEF TypeOK
<1>16. ReadersOK'
  <2>1. pages' \in [Readers -> Nat] /\ got' \in [Readers -> Seq(Comics)]
    BY <1>2, <1>10, <1>12 DEF ReadersOK
  <2>2. \A x \in Readers : \A i \in DOMAIN got'[x] : Matches(query[x], got'[x][i])
    BY <1>10, <1>14 DEF ReadersOK, q
  <2>3. \A x \in Readers : got'[x] # <<>> => Accepted(query[x])
    BY <1>1, <1>10 DEF ReadersOK, q
  <2> QED
    BY <1>2, <2>1, <2>2, <2>3 DEF ReadersOK
<1>17. CallsOK' /\ ChaptersComplete'
  BY <1>2 DEF CallsOK, ChaptersComplete
<1> QED
  BY <1>15, <1>16, <1>17

LEMMA RejectKeeps ==
  ASSUME CInv, NEW r \in Readers, QueryRejected(r) \/ RefuseQuery(r)
  PROVE  CInv'
<1> USE DEF CInv
<1>1. /\ \/ reading' = [reading EXCEPT ![r] = "failed"]
         \/ reading' = [reading EXCEPT ![r] = "refused"]
      /\ UNCHANGED <<shelf, created, edits, query, pages, got, kept, added, removed, lookup, pc,
                     base, answer>>
  BY DEF QueryRejected, RefuseQuery, rows, history, calls
<1>2. reading \in [Readers -> {"idle", "reading", "done", "refused", "failed"}]
  BY DEF TypeOK
<1>3. reading' \in [Readers -> {"idle", "reading", "done", "refused", "failed"}]
  <2>1. CASE reading' = [reading EXCEPT ![r] = "failed"]
    BY <1>2, <2>1
  <2>2. CASE reading' = [reading EXCEPT ![r] = "refused"]
    BY <1>2, <2>2
  <2> QED
    BY <1>1, <2>1, <2>2
<1> QED
  BY <1>1, <1>3 DEF TypeOK, ReadersOK, CallsOK, ChaptersComplete

\* Steps of one call: what it has found and answered.
LEMMA CallKeeps ==
  ASSUME CInv, NEW k \in Calls,
         UNCHANGED <<shelf, created, edits, query, reading, pages, got, kept, added, removed, lookup>>,
         pc' \in [Calls -> {"idle", "query", "done"}],
         base' \in [Calls -> Comics \union {NoComic}],
         answer' \in [Calls -> AnswerType],
         \A j \in Calls \ {k} : pc'[j] = pc[j] /\ base'[j] = base[j] /\ answer'[j] = answer[j],
         pc'[k] # "idle",
         pc'[k] = "query" => /\ base'[k] # NoComic
                             /\ answer'[k] = NoAnswer
                             /\ lookup[k].op # "detail",
         answer'[k].status = 200 =>
           /\ base'[k] \in Comics
           /\ lookup[k].op = "chapters" =>
                \/ Len(answer'[k].items) = Book[base'[k]].chapters
                \/ answer'[k].items = <<>> /\ shelf[base'[k]] = "gone"
  PROVE  CInv'
<1> USE DEF CInv
<1>1. TypeOK'
  <2>1. \A j \in Calls : answer'[j].status \in {0, 200, 400, 404, 500}
    BY DEF AnswerType
  <2>2. ASSUME NEW j \in Calls, pc'[j] = "query"
        PROVE  base'[j] # NoComic
    <3>1. CASE j = k
      BY <2>2, <3>1
    <3>2. CASE j # k
      BY <2>2, <3>2 DEF TypeOK
    <3> QED
      BY <3>1, <3>2
  <2> QED
    BY <2>1, <2>2 DEF TypeOK
<1>2. ReadersOK'
  BY DEF ReadersOK
<1>3. CallsOK'
  BY DEF CallsOK
<1>4. ChaptersComplete'
  BY DEF ChaptersComplete
<1> QED
  BY <1>1, <1>2, <1>3, <1>4

LEMMA Answers ==
  ASSUME CInv, NEW k \in Calls, NEW status \in {200, 400, 404, 500},
         NEW items \in Seq(Comics \union Nat), Answer(k, status, items)
  PROVE  /\ answer' \in [Calls -> AnswerType]
         /\ pc' \in [Calls -> {"idle", "query", "done"}]
         /\ pc'[k] = "done"
         /\ answer'[k].status = status
         /\ answer'[k].items = items
         /\ \A j \in Calls \ {k} : pc'[j] = pc[j] /\ answer'[j] = answer[j]
<1>1. [status |-> status, items |-> items] \in AnswerType
  BY DEF AnswerType
<1> QED
  BY <1>1 DEF CInv, CallsOK, TypeOK, Answer

LEMMA FindKeeps ==
  ASSUME CInv, NEW k \in Calls, Find(k)
  PROVE  CInv'
<1> DEFINE l == lookup[k]
<1>1. /\ UNCHANGED <<shelf, created, edits, query, reading, pages, got, kept, added, removed, lookup>>
      /\ pc[k] = "idle"
      /\ base[k] = NoComic /\ answer[k] = NoAnswer
  BY DEF Find, rows, readers, history, CInv, CallsOK
<1>2. /\ base \in [Calls -> Comics \union {NoComic}]
      /\ answer \in [Calls -> AnswerType]
      /\ pc \in [Calls -> {"idle", "query", "done"}]
  BY DEF CInv, TypeOK, CallsOK
<1>3. <<>> \in Seq(Comics \union Nat)
  OBVIOUS
<1>4. CASE \E status \in {400, 404} : Answer(k, status, <<>>) /\ UNCHANGED base
  <2>1. PICK status \in {400, 404} : Answer(k, status, <<>>) /\ UNCHANGED base
    BY <1>4
  <2>2. /\ answer' \in [Calls -> AnswerType]
        /\ pc' \in [Calls -> {"idle", "query", "done"}]
        /\ pc'[k] = "done"
        /\ answer'[k].status = status
        /\ \A j \in Calls \ {k} : pc'[j] = pc[j] /\ answer'[j] = answer[j]
    <3> DEFINE items == <<>>
    <3>1. status \in {200, 400, 404, 500} /\ items \in Seq(Comics \union Nat)
      BY <1>3
    <3>2. Answer(k, status, items)
      BY <2>1
    <3> HIDE DEF items
    <3> QED
      BY <3>1, <3>2, Answers
  <2> QED
    BY <1>1, <1>2, <2>1, <2>2, CallKeeps
<1>5. CASE \E c \in Found(l) :
             /\ base' = [base EXCEPT ![k] = c]
             /\ IF l.op = "detail"
                  THEN Answer(k, 200, <<c>>)
                  ELSE pc' = [pc EXCEPT ![k] = "query"] /\ UNCHANGED answer
  <2>1. PICK c \in Found(l) :
             /\ base' = [base EXCEPT ![k] = c]
             /\ IF l.op = "detail"
                  THEN Answer(k, 200, <<c>>)
                  ELSE pc' = [pc EXCEPT ![k] = "query"] /\ UNCHANGED answer
    BY <1>5
  <2>2. c \in Comics /\ c # NoComic
    BY CatalogAssumption DEF Found, GetByTitle, GetByID, Listed
  <2>3. /\ base' \in [Calls -> Comics \union {NoComic}]
        /\ base'[k] = c
        /\ \A j \in Calls \ {k} : base'[j] = base[j]
    BY <1>2, <2>1, <2>2
  <2>4. CASE l.op = "detail"
    <3> DEFINE items == <<c>>
    <3>1. items \in Seq(Comics \union Nat)
      BY <2>2
    <3>2. /\ answer' \in [Calls -> AnswerType]
          /\ pc' \in [Calls -> {"idle", "query", "done"}]
          /\ pc'[k] = "done"
          /\ \A j \in Calls \ {k} : pc'[j] = pc[j] /\ answer'[j] = answer[j]
      <4>1. Answer(k, 200, items)
        BY <2>1, <2>4
      <4> HIDE DEF items
      <4> QED
        BY <3>1, <4>1, Answers
    <3> QED
      BY <1>1, <2>2, <2>3, <2>4, <3>2, CallKeeps
  <2>5. CASE l.op # "detail"
    <3>1. pc' = [pc EXCEPT ![k] = "query"] /\ UNCHANGED answer
      BY <2>1, <2>5
    <3>2. answer'[k].status # 200
      BY <1>1, <3>1 DEF NoAnswer
    <3> QED
      BY <1>1, <1>2, <2>2, <2>3, <2>5, <3>1, <3>2, CallKeeps
  <2> QED
    BY <2>4, <2>5
<1> QED
  BY <1>4, <1>5 DEF Find

LEMMA ListChaptersKeeps ==
  ASSUME CInv, NEW k \in Calls, ListChapters(k)
  PROVE  CInv'
<1> DEFINE n == IF shelf[base[k]] = "gone" THEN 0 ELSE Book[base[k]].chapters
           items == [i \in 1 .. n |-> i]
<1>1. /\ UNCHANGED <<shelf, created, edits, query, reading, pages, got, kept, added, removed, lookup,
                     base>>
      /\ pc[k] = "query"
      /\ Answer(k, 200, items)
  BY DEF ListChapters, rows, readers, history
<1>2. base \in [Calls -> Comics \union {NoComic}] /\ base[k] \in Comics
  BY <1>1 DEF CInv, TypeOK
<1>3. n \in Nat
  BY <1>2, BookAssumption
<1> HIDE DEF n
<1>4. items \in Seq(Comics \union Nat) /\ Len(items) = n /\ (n = 0 => items = <<>>)
  BY <1>3
<1> HIDE DEF items
<1>5. /\ answer' \in [Calls -> AnswerType]
      /\ pc' \in [Calls -> {"idle", "query", "done"}]
      /\ pc'[k] = "done"
      /\ answer'[k].items = items
      /\ \A j \in Calls \ {k} : pc'[j] = pc[j] /\ answer'[j] = answer[j]
  BY <1>1, <1>4, Answers
<1>6. \/ Len(answer'[k].items) = Book[base[k]].chapters
      \/ answer'[k].items = <<>> /\ shelf[base[k]] = "gone"
  BY <1>4, <1>5 DEF n
<1> QED
  BY <1>1, <1>2, <1>5, <1>6, CallKeeps

\* What a recommendation answers: the first rows in the order of scores.
LEMMA Recommended ==
  ASSUME CInv, NEW k \in Calls, RecommendByComic(k)
  PROVE  LET related == IF base[k] \in Listed
                          THEN {c \in Listed \ {base[k]} : Score(c, base[k]) > 0} ELSE {}
         IN  /\ UNCHANGED <<shelf, created, edits, query, reading, pages, got, kept, added, removed,
                            lookup, base>>
             /\ pc[k] = "query" /\ lookup[k].op = "recommend"
             /\ base[k] \in Comics
             /\ related \subseteq Comics
             /\ Picks(k) \in Nat \ {0}
             /\ \E s \in SetToSeqs(related) :
                  /\ \A i, j \in DOMAIN s : i < j => ~Better(base[k], s[j], s[i])
                  /\ Answer(k, 200, Slice(s, 0, Picks(k)))
<1>1. UNCHANGED <<shelf, created, edits, query, reading, pages, got, kept, added, removed, lookup,
                  base>>
  BY DEF RecommendByComic, rows, readers, history
<1>2. pc[k] = "query" /\ lookup[k].op = "recommend" /\ base[k] \in Comics
  BY DEF RecommendByComic, CInv, TypeOK
<1>3. Picks(k) \in Nat \ {0}
  <2>1. lookup[k].limit \in Int
    BY LookupAssumption DEF CInv, CallsOK
  <2> QED
    BY <2>1, Clamped, LimitAssumption DEF Picks, Limit
<1> QED
  BY <1>1, <1>2, <1>3 DEF RecommendByComic, Listed

LEMMA RecommendKeeps ==
  ASSUME CInv, NEW k \in Calls, RecommendByComic(k)
  PROVE  CInv'
<1> DEFINE related == IF base[k] \in Listed
                        THEN {c \in Listed \ {base[k]} : Score(c, base[k]) > 0} ELSE {}
<1>1. /\ UNCHANGED <<shelf, created, edits, query, reading, pages, got, kept, added, removed, lookup,
                     base>>
      /\ pc[k] = "query" /\ lookup[k].op = "recommend"
      /\ base[k] \in Comics
      /\ related \subseteq Comics
      /\ Picks(k) \in Nat \ {0}
      /\ \E s \in SetToSeqs(related) : Answer(k, 200, Slice(s, 0, Picks(k)))
  BY Recommended
<1> HIDE DEF related
<1>2. PICK s \in SetToSeqs(related) : Answer(k, 200, Slice(s, 0, Picks(k)))
  BY <1>1
<1>3. Slice(s, 0, Picks(k)) \in Seq(Comics \union Nat)
  <2>1. s \in Seq(related)
    BY <1>1, Listing
  <2>2. s \in Seq(Comics \union Nat)
    BY <1>1, <2>1
  <2> QED
    BY <1>1, <2>2, Sliced
<1>4. /\ answer' \in [Calls -> AnswerType]
      /\ pc' \in [Calls -> {"idle", "query", "done"}]
      /\ pc'[k] = "done"
      /\ \A j \in Calls \ {k} : pc'[j] = pc[j] /\ answer'[j] = answer[j]
  BY <1>2, <1>3, Answers
<1>5. base \in [Calls -> Comics \union {NoComic}]
  BY DEF CInv, TypeOK
<1> QED
  BY <1>1, <1>4, <1>5, CallKeeps

LEMMA UnavailableKeeps ==
  ASSUME CInv, NEW k \in Calls, Unavailable(k)
  PROVE  CInv'
<1>1. /\ UNCHANGED <<shelf, created, edits, query, reading, pages, got, kept, added, removed, lookup,
                     base>>
      /\ Answer(k, 500, <<>>)
  BY DEF Unavailable, rows, readers, history
<1>2. <<>> \in Seq(Comics \union Nat)
  OBVIOUS
<1>3. /\ answer' \in [Calls -> AnswerType]
      /\ pc' \in [Calls -> {"idle", "query", "done"}]
      /\ pc'[k] = "done"
      /\ answer'[k].status = 500
      /\ \A j \in Calls \ {k} : pc'[j] = pc[j] /\ answer'[j] = answer[j]
  <2> DEFINE items == <<>>
  <2>1. Answer(k, 500, items) /\ items \in Seq(Comics \union Nat)
    BY <1>1, <1>2
  <2> HIDE DEF items
  <2> QED
    BY <2>1, Answers
<1>4. base \in [Calls -> Comics \union {NoComic}]
  BY DEF CInv, TypeOK
<1> QED
  BY <1>1, <1>3, <1>4, CallKeeps

LEMMA NextKeeps ==
  ASSUME CInv, [Next]_vars
  PROVE  CInv'
<1>1. ASSUME UNCHANGED vars
      PROVE  CInv'
  BY <1>1 DEF vars, rows, readers, history, calls, CInv, TypeOK, ReadersOK, CallsOK,
     ChaptersComplete
<1> QED
  BY <1>1, EditKeeps, ReadPageKeeps, RejectKeeps, FindKeeps, ListChaptersKeeps, RecommendKeeps,
     UnavailableKeeps DEF Next

LEMMA Invariant == Spec => []CInv
BY InitOK, NextKeeps, PTL DEF Spec

(***************************************************************************)
(* Types, and a reader has at most pages * PageLimit.max comics: no page   *)
(* is longer than the greatest page size, whatever limit it asks for.      *)
(***************************************************************************)
THEOREM Types == Spec => []TypeOK
<1>1. CInv => TypeOK
  BY DEF CInv
<1> QED
  BY <1>1, Invariant, PTL

(***************************************************************************)
(* For any query, any catalog and any edits between the pages: a search is *)
(* refused, or every comic that it answers is one the parameters ask for.  *)
(***************************************************************************)
THEOREM SearchIsHonest == Spec => []SearchHonoursParameters
<1>1. ASSUME CInv, NEW r \in Readers, NEW c \in ToSet(got[r]), query[r].route = "search"
      PROVE  /\ \A p \in Asking(query[r]) \ Overruled(query[r]) : Meets(query[r], p, c)
             /\ Named(query[r]) \subseteq Allowed(query[r].plan)
  <2>1. PICK i \in DOMAIN got[r] : c = got[r][i]
    BY <1>1 DEF ToSet
  <2>2. query[r] \in Queries /\ got[r] \in Seq(Comics)
    BY <1>1 DEF CInv, ReadersOK
  <2>3. c \in Comics /\ got[r] # <<>>
    BY <2>1, <2>2
  <2>4. Matches(query[r], c) /\ Accepted(query[r])
    BY <1>1, <2>1, <2>3 DEF CInv, ReadersOK
  <2> QED
    BY <1>1, <2>2, <2>3, <2>4, MatchingMeets DEF Accepted, SearchAccepted
<1>2. CInv => SearchHonoursParameters
  BY <1>1 DEF SearchHonoursParameters
<1> QED
  BY <1>2, Invariant, PTL

(***************************************************************************)
(* Chapters are all listed or the comic is gone, in whatever moment        *)
(* between the two queries it is deleted.                                  *)
(***************************************************************************)
THEOREM ChaptersAreComplete == Spec => []ChaptersComplete
<1>1. CInv => ChaptersComplete
  BY DEF CInv
<1> QED
  BY <1>1, Invariant, PTL

-----------------------------------------------------------------------------
(* Recommendations.                                                        *)

LEMMA ScoreIsNatural ==
  ASSUME NEW c \in Comics, NEW b \in Comics
  PROVE  Score(c, b) \in Nat
<1>1. IsFiniteSet(Book[c].genres \intersect Book[b].genres)
  BY BookAssumption, FS_Subset
<1>2. Cardinality(Book[c].genres \intersect Book[b].genres) \in Nat
  BY <1>1, FS_CardinalityType
<1> DEFINE n == Cardinality(Book[c].genres \intersect Book[b].genres)
           a == IF Book[c].author # "" /\ Book[c].author = Book[b].author THEN 3 ELSE 0
           d == IF Book[c].country # "" /\ Book[c].country = Book[b].country THEN 1 ELSE 0
           t == IF Book[c].type = Book[b].type THEN 1 ELSE 0
<1>3. Score(c, b) = a + 2 * n + d + t
  BY DEF Score
<1>4. n \in Nat /\ a \in Nat /\ d \in Nat /\ t \in Nat
  BY <1>2
<1> HIDE DEF n, a, d, t
<1> QED
  BY <1>3, <1>4

\* The only step that answers a recommendation with rows.
LEMMA OnlyRecommends ==
  ASSUME CInv, Next, NEW k \in Calls,
         lookup[k].op = "recommend", answer'[k] # answer[k], answer'[k].status = 200
  PROVE  RecommendByComic(k)
<1>1. answer \in [Calls -> AnswerType]
  BY DEF CInv, CallsOK
<1>2. ASSUME NEW c \in Comics, AddComic(c) \/ \E how \in {"deleted", "gone"} : RemoveComic(c, how)
      PROVE  FALSE
  BY <1>2 DEF AddComic, RemoveComic, calls
<1>3. ASSUME NEW r \in Readers, ReadPage(r) \/ QueryRejected(r) \/ RefuseQuery(r)
      PROVE  FALSE
  BY <1>3 DEF ReadPage, QueryRejected, RefuseQuery, calls
<1>4. ASSUME NEW j \in Calls, NEW status, NEW items, Answer(j, status, items)
      PROVE  j = k /\ status = 200
  BY <1>1, <1>4 DEF Answer
<1>5. ASSUME NEW j \in Calls, Find(j)
      PROVE  FALSE
  <2>1. CASE \E status \in {400, 404} : Answer(j, status, <<>>)
    BY <1>4, <2>1
  <2>2. CASE lookup[j].op = "detail" /\ \E c \in Found(lookup[j]) : Answer(j, 200, <<c>>)
    BY <1>4, <2>2
  <2>3. CASE UNCHANGED answer
    BY <2>3
  <2> QED
    BY <1>5, <2>1, <2>2, <2>3 DEF Find
<1>6. ASSUME NEW j \in Calls, ListChapters(j)
      PROVE  FALSE
  <2>1. j = k
    BY <1>4, <1>6 DEF ListChapters
  <2> QED
    BY <1>6, <2>1 DEF ListChapters
<1>7. ASSUME NEW j \in Calls, RecommendByComic(j)
      PROVE  j = k
  BY <1>4, <1>7 DEF RecommendByComic
<1>8. ASSUME NEW j \in Calls, Unavailable(j)
      PROVE  FALSE
  BY <1>4, <1>8 DEF Unavailable
<1> QED
  BY <1>2, <1>3, <1>5, <1>6, <1>7, <1>8 DEF Next

\* The first n of a sequence that is sorted by score.
LEMMA FirstAreBest ==
  ASSUME NEW b \in Comics, NEW related \in SUBSET Comics, NEW s \in SetToSeqs(related),
         \A i, j \in DOMAIN s : i < j => ~Better(b, s[j], s[i]),
         NEW n \in Nat \ {0}
  PROVE  /\ ToSet(Slice(s, 0, n)) \subseteq related
         /\ ToSet(Slice(s, 0, n)) = {} => related = {}
         /\ \A c \in ToSet(Slice(s, 0, n)), d \in related \ ToSet(Slice(s, 0, n)) :
              Score(d, b) <= Score(c, b)
<1> DEFINE page == Slice(s, 0, n)
<1>1. /\ s \in Seq(related)
      /\ \A c \in related : \E i \in DOMAIN s : s[i] = c
  BY Listing
<1>2. /\ DOMAIN s = 1 .. Len(s) /\ Len(s) \in Nat
      /\ \A i \in DOMAIN s : s[i] \in related
  BY <1>1
<1>3. /\ page \in Seq(related)
      /\ 0 + n <= Len(s) => Len(page) = n
      /\ Len(s) <= 0 + n => Len(page) = Len(s) - 0
      /\ \A i \in DOMAIN page : 0 + i \in DOMAIN s /\ page[i] = s[0 + i]
  <2> DEFINE from == 0
  <2>1. from \in Nat /\ n \in Nat /\ s \in Seq(related) /\ Len(s) \in Nat
    BY <1>1, <1>2
  <2> HIDE DEF from, page
  <2>2. Slice(s, from, n) \in Seq(related)
    BY <2>1, Sliced
  <2>3. /\ from + n <= Len(s) => Len(Slice(s, from, n)) = n
        /\ from <= Len(s) /\ Len(s) <= from + n => Len(Slice(s, from, n)) = Len(s) - from
    BY <2>1, <2>2, Sliced
  <2>4. \A i \in DOMAIN Slice(s, from, n) :
          from + i \in DOMAIN s /\ Slice(s, from, n)[i] = s[from + i]
    BY <2>1, Sliced
  <2> QED
    BY <2>2, <2>3, <2>4 DEF from, page
<1> HIDE DEF page
<1>4. /\ DOMAIN page = 1 .. Len(page) /\ Len(page) \in Nat
      /\ Len(page) = IF n <= Len(s) THEN n ELSE Len(s)
  BY <1>2, <1>3
<1>5. \A i \in DOMAIN page : i \in DOMAIN s /\ page[i] = s[i]
  BY <1>3, <1>4
<1>6. ToSet(page) = {s[i] : i \in DOMAIN page}
  BY <1>5 DEF ToSet
<1>7. ToSet(page) \subseteq related
  BY <1>2, <1>5, <1>6
<1>8. ASSUME ToSet(page) = {}
      PROVE  related = {}
  <2>1. 1 \notin DOMAIN page
    BY <1>6, <1>8
  <2>2. Len(s) = 0
    BY <1>2, <1>4, <2>1
  <2> QED
    BY <1>1, <1>2, <2>2
<1>9. ASSUME NEW c \in ToSet(page), NEW d \in related \ ToSet(page)
      PROVE  Score(d, b) <= Score(c, b)
  <2>1. PICK i \in DOMAIN page : s[i] = c
    BY <1>6
  <2>2. PICK j \in DOMAIN s : s[j] = d
    BY <1>1
  <2>3. j \notin DOMAIN page
    BY <1>6, <2>2
  <2>4. i < j /\ i \in DOMAIN s
    BY <1>2, <1>4, <1>5, <2>1, <2>2, <2>3
  <2>5. ~Better(b, d, c)
    BY <2>1, <2>2, <2>4
  <2>6. Score(c, b) \in Nat /\ Score(d, b) \in Nat
    BY <1>7, ScoreIsNatural
  <2> QED
    BY <2>5, <2>6 DEF Better
<1> QED
  BY <1>7, <1>8, <1>9 DEF page

(***************************************************************************)
(* For any catalog: recommendations are the comics that have most in       *)
(* common with a comic still there, and are none only without such comics. *)
(***************************************************************************)
THEOREM RecommendationsAreBest == Spec => RecommendsTheBest
<1>1. ASSUME CInv, Next, NEW k \in Calls,
             lookup[k].op = "recommend", answer'[k] # answer[k], answer'[k].status = 200
      PROVE  LET items == ToSet(answer'[k].items)
             IN  /\ base[k] \notin items
                 /\ items # {} => base[k] \in Listed
                 /\ items = {} => \/ base[k] \notin Listed
                                 \/ \A d \in Listed \ {base[k]} : Score(d, base[k]) = 0
                 /\ \A c \in items : Score(c, base[k]) > 0
                 /\ \A c \in items, d \in Listed \ (items \union {base[k]}) :
                      Score(d, base[k]) <= Score(c, base[k])
  <2> DEFINE related == IF base[k] \in Listed
                          THEN {c \in Listed \ {base[k]} : Score(c, base[k]) > 0} ELSE {}
  <2>1. /\ base[k] \in Comics
        /\ related \subseteq Comics
        /\ Picks(k) \in Nat \ {0}
        /\ \E s \in SetToSeqs(related) :
             /\ \A i, j \in DOMAIN s : i < j => ~Better(base[k], s[j], s[i])
             /\ Answer(k, 200, Slice(s, 0, Picks(k)))
    <3>1. RecommendByComic(k)
      BY <1>1, OnlyRecommends
    <3> QED
      BY <1>1, <3>1, Recommended
  <2> HIDE DEF related
  <2>2. PICK s \in SetToSeqs(related) :
             /\ \A i, j \in DOMAIN s : i < j => ~Better(base[k], s[j], s[i])
             /\ Answer(k, 200, Slice(s, 0, Picks(k)))
    BY <2>1
  <2>a. \A page : Answer(k, 200, page) => answer'[k].items = page
    BY <1>1 DEF Answer, CInv, CallsOK
  <2> DEFINE n == Picks(k)
             items == ToSet(Slice(s, 0, n))
  <2>3. answer'[k].items = Slice(s, 0, n)
    BY <2>2, <2>a
  <2>4. n \in Nat \ {0}
    BY <2>1
  <2> HIDE DEF n
  <2>5. /\ items \subseteq related
        /\ items = {} => related = {}
        /\ \A c \in items, d \in related \ items : Score(d, base[k]) <= Score(c, base[k])
    BY <2>1, <2>2, <2>4, FirstAreBest
  <2>6. ToSet(answer'[k].items) = items
    BY <2>3
  <2> HIDE DEF items
  <2>7. base[k] \notin related /\ (related # {} => base[k] \in Listed)
    BY DEF related
  <2>8. \A c \in related : Score(c, base[k]) > 0
    BY DEF related
  <2>9. \A d \in Listed : Score(d, base[k]) \in Nat
    BY <2>1, ScoreIsNatural DEF Listed
  <2>10. base[k] \in Listed => \A d \in Listed \ {base[k]} : d \in related \/ Score(d, base[k]) = 0
    BY <2>9 DEF related
  <2>11. \A c \in items, d \in Listed \ (items \union {base[k]}) : Score(d, base[k]) <= Score(c, base[k])
    <3> SUFFICES ASSUME NEW c \in items, NEW d \in Listed \ (items \union {base[k]})
                 PROVE  Score(d, base[k]) <= Score(c, base[k])
      OBVIOUS
    <3>1. Score(c, base[k]) > 0 /\ c \in Comics /\ base[k] \in Listed
      BY <2>1, <2>5, <2>7, <2>8
    <3>2. CASE d \in related
      BY <2>5, <3>2
    <3>3. CASE Score(d, base[k]) = 0
      <4>1. Score(c, base[k]) \in Nat
        BY <2>1, <3>1, ScoreIsNatural
      <4> QED
        BY <3>1, <3>3, <4>1
    <3> QED
      BY <2>10, <3>1, <3>2, <3>3
  <2>12. base[k] \notin items /\ (items # {} => base[k] \in Listed)
    BY <2>5, <2>7
  <2>13. items = {} => \/ base[k] \notin Listed
                       \/ \A d \in Listed \ {base[k]} : Score(d, base[k]) = 0
    BY <2>5, <2>10
  <2>14. \A c \in items : Score(c, base[k]) > 0
    BY <2>5, <2>8
  <2> QED
    BY <2>6, <2>11, <2>12, <2>13, <2>14
<1>2. CInv /\ [Next]_vars => [\A k \in Calls :
       LET items == ToSet(answer'[k].items)
       IN  lookup[k].op = "recommend" /\ answer'[k] # answer[k] /\ answer'[k].status = 200 =>
             /\ base[k] \notin items
             /\ items # {} => base[k] \in Listed
             /\ items = {} => \/ base[k] \notin Listed
                             \/ \A d \in Listed \ {base[k]} : Score(d, base[k]) = 0
             /\ \A c \in items : Score(c, base[k]) > 0
             /\ \A c \in items, d \in Listed \ (items \union {base[k]}) :
                  Score(d, base[k]) <= Score(c, base[k])]_vars
  BY <1>1
<1> QED
  BY <1>2, Invariant, PTL DEF RecommendsTheBest, Spec

-----------------------------------------------------------------------------
(* Deleted comics.                                                         *)

\* An answer that is not 200 has no rows.
LEMMA NoRowsInErrors ==
  ASSUME CInv, [Next]_vars, NEW k \in Calls, answer'[k] # answer[k], answer'[k].status # 200
  PROVE  ToSet(answer'[k].items) = {}
<1>1. answer \in [Calls -> AnswerType]
  BY DEF CInv, CallsOK
<1>2. ASSUME NEW j \in Calls, NEW status, NEW items, Answer(j, status, items)
      PROVE  j = k /\ status # 200 /\ answer'[k].items = items
  BY <1>1, <1>2 DEF Answer
<1>3. ASSUME NEW j \in Calls, \E status : Answer(j, status, <<>>)
      PROVE  ToSet(answer'[k].items) = {}
  <2>1. answer'[k].items = <<>>
    BY <1>2, <1>3
  <2> QED
    BY <2>1 DEF ToSet
<1>4. ASSUME NEW j \in Calls, NEW items, Answer(j, 200, items)
      PROVE  FALSE
  BY <1>2, <1>4
<1>5. ASSUME NEW j \in Calls, Find(j)
      PROVE  ToSet(answer'[k].items) = {}
  <2>1. CASE \E status \in {400, 404} : Answer(j, status, <<>>)
    BY <1>3, <2>1
  <2>2. CASE \E c \in Found(lookup[j]) : Answer(j, 200, <<c>>)
    BY <1>4, <2>2
  <2>3. CASE UNCHANGED answer
    BY <2>3
  <2> QED
    BY <1>5, <2>1, <2>2, <2>3 DEF Find
<1>6. ASSUME NEW j \in Calls, ListChapters(j) \/ RecommendByComic(j)
      PROVE  FALSE
  BY <1>4, <1>6 DEF ListChapters, RecommendByComic
<1>7. ASSUME NEW j \in Calls, Unavailable(j)
      PROVE  ToSet(answer'[k].items) = {}
  BY <1>3, <1>7 DEF Unavailable
<1>8. ASSUME UNCHANGED answer
      PROVE  FALSE
  BY <1>8
<1> QED
  BY <1>5, <1>6, <1>7, <1>8 DEF Next, vars, calls, AddComic, RemoveComic, ReadPage,
     QueryRejected,
                                RefuseQuery

\* No call that began when it was deleted has come across c.
Hidden(k, c) ==
  /\ shelf[c] \in {"deleted", "gone"}
  /\ base[k] # c
  /\ lookup[k].op = "recommend" => c \notin ToSet(answer[k].items)

LEMMA HiddenKept ==
  ASSUME CInv, NEW k \in Calls, NEW c \in Comics, Hidden(k, c), [Next]_vars
  PROVE  Hidden(k, c)'
<1>1. shelf'[c] \in {"deleted", "gone"} /\ lookup' = lookup
  <2>1. ASSUME NEW d \in Comics, AddComic(d) \/ \E how \in {"deleted", "gone"} : RemoveComic(d, how)
        PROVE  shelf'[c] = shelf[c] /\ lookup' = lookup
    <3>1. shelf \in [Comics -> {"absent", "listed", "deleted", "gone"}] /\ d # c
      BY <2>1 DEF CInv, TypeOK, Hidden, AddComic, RemoveComic
    <3>2. CASE AddComic(d)
      BY <3>1, <3>2 DEF AddComic, calls
    <3>3. CASE \E how \in {"deleted", "gone"} : RemoveComic(d, how)
      BY <3>1, <3>3 DEF RemoveComic, calls
    <3> QED
      BY <2>1, <3>2, <3>3
  <2>2. ASSUME NEW r \in Readers, ReadPage(r) \/ QueryRejected(r) \/ RefuseQuery(r)
        PROVE  shelf' = shelf /\ lookup' = lookup
    BY <2>2 DEF ReadPage, QueryRejected, RefuseQuery, rows, calls
  <2>3. ASSUME NEW j \in Calls, Find(j) \/ ListChapters(j) \/ RecommendByComic(j) \/ Unavailable(j)
        PROVE  shelf' = shelf /\ lookup' = lookup
    BY <2>3 DEF Find, ListChapters, RecommendByComic, Unavailable, rows
  <2>4. CASE UNCHANGED vars
    BY <2>4 DEF vars, rows, calls, Hidden
  <2> QED
    BY <2>1, <2>2, <2>3, <2>4 DEF Next, Hidden
<1>2. base'[k] # c
  <2>1. base \in [Calls -> Comics \union {NoComic}] /\ c \notin Listed
    BY DEF CInv, TypeOK, Hidden, Listed
  <2>2. ASSUME NEW j \in Calls, Find(j)
        PROVE  base'[k] # c
    <3>1. CASE UNCHANGED base
      BY <3>1 DEF Hidden
    <3>2. CASE \E d \in Found(lookup[j]) : base' = [base EXCEPT ![j] = d]
      <4>1. \A d \in Found(lookup[j]) : d \in Listed
        BY DEF Found, GetByTitle, GetByID
      <4> QED
        BY <2>1, <3>2, <4>1 DEF Hidden
    <3> QED
      BY <2>2, <3>1, <3>2 DEF Find
  <2>3. ASSUME UNCHANGED base
        PROVE  base'[k] # c
    BY <2>3 DEF Hidden
  <2> QED
    BY <2>2, <2>3 DEF Next, vars, calls, AddComic, RemoveComic, ReadPage, QueryRejected,
                      RefuseQuery, ListChapters, RecommendByComic, Unavailable
<1>3. ASSUME lookup[k].op = "recommend"
      PROVE  c \notin ToSet(answer'[k].items)
  <2>1. CASE answer'[k] = answer[k]
    BY <1>3, <2>1 DEF Hidden
  <2>2. CASE answer'[k] # answer[k] /\ answer'[k].status # 200
    BY <2>2, <1>3, NoRowsInErrors
  <2>3. CASE answer'[k] # answer[k] /\ answer'[k].status = 200
    <3> DEFINE related == IF base[k] \in Listed
                            THEN {d \in Listed \ {base[k]} : Score(d, base[k]) > 0} ELSE {}
    <3>1. Next
      BY <2>3 DEF vars, calls
    <3>2. RecommendByComic(k)
      BY <1>3, <2>3, <3>1, OnlyRecommends
    <3>3. /\ base[k] \in Comics
          /\ related \subseteq Comics
          /\ Picks(k) \in Nat \ {0}
          /\ \E s \in SetToSeqs(related) :
               /\ \A i, j \in DOMAIN s : i < j => ~Better(base[k], s[j], s[i])
               /\ Answer(k, 200, Slice(s, 0, Picks(k)))
      BY <3>2, Recommended
    <3>4. c \notin related
      BY DEF Hidden, Listed
    <3> HIDE DEF related
    <3>5. PICK s \in SetToSeqs(related) :
               /\ \A i, j \in DOMAIN s : i < j => ~Better(base[k], s[j], s[i])
               /\ Answer(k, 200, Slice(s, 0, Picks(k)))
      BY <3>3
    <3> DEFINE n == Picks(k)
    <3>6. answer'[k].items = Slice(s, 0, n)
      BY <3>5 DEF Answer, CInv, CallsOK
    <3>7. n \in Nat \ {0}
      BY <3>3
    <3> HIDE DEF n
    <3>8. ToSet(Slice(s, 0, n)) \subseteq related
      BY <3>3, <3>5, <3>7, FirstAreBest
    <3> QED
      BY <3>4, <3>6, <3>8
  <2> QED
    BY <2>1, <2>2, <2>3
<1> QED
  BY <1>1, <1>2, <1>3 DEF Hidden

(***************************************************************************)
(* Whoever asks after a comic was deleted does not see it, its chapters or *)
(* it among recommendations, however the queries and edits interleave.     *)
(***************************************************************************)
THEOREM DeletedIsHidden == Spec => DeletedStaysHidden
<1> SUFFICES ASSUME NEW k \in Calls, NEW c \in Comics
             PROVE  Spec => []( pc[k] = "idle" /\ shelf[c] \in {"deleted", "gone"}
        => [](base[k] # c /\ (lookup[k].op = "recommend" => c \notin ToSet(answer[k].items))) )
  BY DEF DeletedStaysHidden
<1>1. CInv /\ (pc[k] = "idle" /\ shelf[c] \in {"deleted", "gone"}) => Hidden(k, c)
  <2> SUFFICES ASSUME CInv, pc[k] = "idle", shelf[c] \in {"deleted", "gone"}
               PROVE  Hidden(k, c)
    OBVIOUS
  <2>1. base[k] = NoComic /\ answer[k].items = <<>> /\ c # NoComic
    BY CatalogAssumption DEF CInv, CallsOK, NoAnswer
  <2>2. ToSet(<<>>) = {}
    BY DEF ToSet
  <2> QED
    BY <2>1, <2>2 DEF Hidden
<1>2. CInv /\ Hidden(k, c) /\ [Next]_vars => Hidden(k, c)'
  BY HiddenKept
<1>3. Hidden(k, c) => base[k] # c /\ (lookup[k].op = "recommend" => c \notin ToSet(answer[k].items))
  BY DEF Hidden
<1> QED
  BY <1>1, <1>2, <1>3, Invariant, PTL DEF Spec

-----------------------------------------------------------------------------
(* Page numbers.                                                           *)

\* An offset that is an int is the number of rows on the pages before.
LEMMA OffsetIs ==
  ASSUME NEW n \in Int, NEW size \in Nat, Max({n - 1, 0}) * size <= IntMax
  PROVE  /\ Offset(n, size) = Max({n - 1, 0}) * size
         /\ Max({n - 1, 0}) * size \in Nat
<1> DEFINE m == IF n <= 0 THEN 0 ELSE n - 1
<1>1. Max({n - 1, 0}) = m /\ m \in Nat
  BY MaxOfTwo
<1>2. Offset(n, size) = Wrap(m * size, 2 * (IntMax + 1))
  BY DEF Offset
<1> HIDE DEF m
<1>3. m * size \in Nat
  BY <1>1
<1>4. m * size \in 0 .. IntMax
  BY <1>1, <1>3, LimitAssumption
<1> QED
  BY <1>1, <1>2, <1>3, <1>4, Wrapped

LEMMA NotBeforeItself ==
  ASSUME CInv, NEW q \in Queries, NEW c \in Comics
  PROVE  ~Before(q, c, c)
<1>1. created[c] \in Int /\ Book[c].rank \in Int /\ Book[c].year \in Int
  BY CatalogAssumption, BookAssumption DEF CInv, TypeOK
<1>2. CASE SortBy(q) = "created_at"
  BY <1>1, <1>2 DEF Before
<1>3. CASE SortBy(q) = "title"
  BY <1>1, <1>3 DEF Before
<1>4. CASE SortBy(q) \notin {"created_at", "title"}
  BY <1>1, <1>4 DEF Before
<1> QED
  BY <1>2, <1>3, <1>4

\* The p-th comic of a result, if it is tied with none, has p - 1 before it.
LEMMA RankInOrder ==
  ASSUME CInv, NEW q \in Queries, NEW S \in SUBSET Comics, NEW s \in Orders(q, S),
         NEW p \in DOMAIN s,
         \A d \in S \ {s[p]} : Before(q, s[p], d) \/ Before(q, d, s[p])
  PROVE  Cardinality({d \in S : Before(q, d, s[p])}) = p - 1
<1>1. s \in SetToSeqs(S) /\ \A i, j \in DOMAIN s : i < j => ~Before(q, s[j], s[i])
  BY DEF Orders
<1>2. /\ s \in Seq(S)
      /\ IsFiniteSet(S)
      /\ \A i, j \in DOMAIN s : s[i] = s[j] => i = j
      /\ \A c \in S : \E i \in DOMAIN s : s[i] = c
  BY <1>1, Listing
<1>3. /\ DOMAIN s = 1 .. Len(s) /\ Len(s) \in Nat
      /\ \A i \in DOMAIN s : s[i] \in S
  BY <1>2
<1> DEFINE B == {d \in S : Before(q, d, s[p])}
           f == [i \in 1 .. p - 1 |-> s[i]]
<1>4. \A i \in DOMAIN s : Before(q, s[i], s[p]) <=> i < p
  <2> SUFFICES ASSUME NEW i \in DOMAIN s
               PROVE  Before(q, s[i], s[p]) <=> i < p
    OBVIOUS
  <2>1. CASE i = p
    BY <1>3, <2>1, NotBeforeItself
  <2>2. CASE i < p
    <3>1. ~Before(q, s[p], s[i]) /\ s[i] # s[p]
      BY <1>1, <1>2, <1>3, <2>2
    <3> QED
      BY <1>3, <2>2, <3>1
  <2>3. CASE p < i
    BY <1>1, <1>3, <2>3
  <2> QED
    BY <1>3, <2>1, <2>2, <2>3
<1>5. \A i \in 1 .. p - 1 : i \in DOMAIN s /\ i < p
  BY <1>3
<1>6. f \in Injection(1 .. p - 1, B)
  BY <1>2, <1>3, <1>4, <1>5 DEF Injection, IsInjective
<1>7. f \in Surjection(1 .. p - 1, B)
  <2>1. \A d \in B : \E i \in 1 .. p - 1 : f[i] = d
    <3> SUFFICES ASSUME NEW d \in B
                 PROVE  \E i \in 1 .. p - 1 : f[i] = d
      OBVIOUS
    <3>1. PICK i \in DOMAIN s : s[i] = d
      BY <1>2
    <3>2. i < p
      BY <1>4, <3>1
    <3>3. i \in 1 .. p - 1
      BY <1>3, <3>2
    <3> QED
      BY <3>1, <3>3
  <2> QED
    BY <1>6, <2>1 DEF Injection, Surjection
<1>8. IsFiniteSet(B)
  BY <1>2, FS_Subset
<1>9. Cardinality(1 .. p - 1) = p - 1
  BY <1>3, FS_Interval
<1> HIDE DEF B, f
<1>10. Cardinality(1 .. p - 1) = Cardinality(B)
  BY <1>6, <1>7, <1>8, FS_Injection
<1> QED
  BY <1>9, <1>10 DEF B

(***************************************************************************)
(* For any catalog, page sizes and numbers: as long as (page - 1) * limit  *)
(* is an int, the page is answered and holds the comics of that rank.      *)
(***************************************************************************)
THEOREM PagesAreInPlace == Spec => PageNumberHonoured
<1>1. ASSUME CInv, Next, NEW r \in Readers,
             Max({AskedPage(r) - 1, 0}) * PageSize(query[r]) <= IntMax, YearsFit(query[r])
      PROVE  /\ reading'[r] = "failed" => reading[r] = "failed"
             /\ \A i \in (Len(got[r]) + 1) .. Len(got'[r]) : got'[r][i] \in Untied(query[r]) =>
                  Cardinality({d \in Listed : Matches(query[r], d)
                                              /\ Before(query[r], d, got'[r][i])})
                    = Max({AskedPage(r) - 1, 0}) * PageSize(query[r]) + i - Len(got[r]) - 1
  <2> DEFINE q == query[r]
             size == PageSize(q)
             from == Offset(AskedPage(r), size)
             before == Max({AskedPage(r) - 1, 0}) * size
  <2>1. /\ got \in [Readers -> Seq(Comics)]
        /\ reading \in [Readers -> {"idle", "reading", "done", "refused", "failed"}]
        /\ Len(got[r]) \in Nat
    <3>1. got \in [Readers -> Seq(Comics)]
      BY <1>1 DEF CInv, ReadersOK
    <3> QED
      BY <1>1, <3>1 DEF CInv, TypeOK
  <2>2. from = before /\ from \in Nat
    <3>1. AskedPage(r) \in Int /\ size \in Nat
      BY <1>1, Asked, LimitAssumption DEF Limit
    <3> HIDE DEF size
    <3> QED
      BY <1>1, <3>1, OffsetIs DEF size
  <2>3. CASE ReadPage(r)
    <3>1. /\ q \in Queries /\ Accepted(q)
          /\ size \in 1 .. PageLimit.max
          /\ \E s \in Orders(q, {c \in Listed : Matches(q, c)}) :
               /\ got' = [got EXCEPT ![r] = @ \o Slice(s, from, size)]
               /\ reading' = [reading EXCEPT ![r] =
                                IF Len(Slice(s, from, size)) < size THEN "done" ELSE "reading"]
      BY <1>1, <2>3, PageRead
    <3>2. size \in Nat
      BY <3>1, LimitAssumption DEF Limit
    <3>3. PICK s \in Orders(q, {c \in Listed : Matches(q, c)}) :
               /\ got' = [got EXCEPT ![r] = @ \o Slice(s, from, size)]
               /\ reading' = [reading EXCEPT ![r] =
                                IF Len(Slice(s, from, size)) < size THEN "done" ELSE "reading"]
      BY <3>1
    <3> DEFINE S == {c \in Listed : Matches(q, c)}
               page == Slice(s, from, size)
    <3>4. S \subseteq Comics /\ s \in Orders(q, S) /\ s \in SetToSeqs(S)
      BY DEF Listed, Orders
    <3>5. S = {c \in Listed : Matches(q, c)}
      OBVIOUS
    <3>6. \A d \in S : shelf[d] # "absent"
      BY DEF Listed
    <3>7. reading'[r] # "failed" /\ got'[r] = got[r] \o page
      BY <2>1, <3>3
    <3> HIDE DEF S, q, size, from, before
    <3>8. s \in Seq(S)
      BY <3>4, Listing
    <3>9. /\ page \in Seq(S)
          /\ \A i \in DOMAIN page : from + i \in DOMAIN s /\ page[i] = s[from + i]
      <4>1. from \in Nat
        BY <2>2
      <4>2. page \in Seq(S)
        BY <3>2, <3>8, <4>1, Sliced
      <4>3. \A i \in DOMAIN page : from + i \in DOMAIN s /\ page[i] = s[from + i]
        BY <3>2, <3>8, <4>1, Sliced
      <4> QED
        BY <4>2, <4>3
    <3> HIDE DEF page
    <3>10. DOMAIN page = 1 .. Len(page) /\ Len(page) \in Nat
      BY <3>9
    <3>11. /\ Len(got'[r]) = Len(got[r]) + Len(page)
           /\ \A i \in (Len(got[r]) + 1) .. Len(got'[r]) : got'[r][i] = page[i - Len(got[r])]
      <4>1. got[r] \in Seq(Comics) /\ page \in Seq(Comics)
        BY <2>1, <3>4, <3>9
      <4> QED
        BY <2>1, <3>7, <3>10, <4>1
    <3>12. ASSUME NEW i \in (Len(got[r]) + 1) .. Len(got'[r]), got'[r][i] \in Untied(q)
           PROVE  Cardinality({d \in S : Before(q, d, got'[r][i])}) = before + i - Len(got[r]) - 1
      <4> DEFINE n == i - Len(got[r])
                 p == from + n
      <4>1. n \in DOMAIN page /\ n \in Nat /\ n = i - Len(got[r]) /\ i \in Int
        BY <2>1, <3>10, <3>11
      <4>2. got'[r][i] = page[n]
        BY <3>11, <3>12
      <4> HIDE DEF n
      <4>3. p \in DOMAIN s /\ got'[r][i] = s[p] /\ p = from + n
        BY <3>9, <4>1, <4>2
      <4> HIDE DEF p
      <4>4. \A d \in S \ {s[p]} : Before(q, s[p], d) \/ Before(q, d, s[p])
        <5>1. \A d \in Comics \ {s[p]} :
                shelf[d] # "absent" => Before(q, s[p], d) \/ Before(q, d, s[p])
          BY <3>12, <4>3 DEF Untied
        <5> QED
          BY <3>4, <3>6, <5>1
      <4>5. Cardinality({d \in S : Before(q, d, s[p])}) = p - 1
        <5>1. CInv /\ q \in Queries /\ S \in SUBSET Comics /\ s \in Orders(q, S) /\ p \in DOMAIN s
          BY <1>1, <3>1, <3>4, <4>3
        <5> QED
          BY <4>4, <5>1, RankInOrder
      <4>6. p - 1 = before + i - Len(got[r]) - 1
        BY <2>1, <2>2, <4>1, <4>3
      <4> QED
        BY <4>3, <4>5, <4>6
    <3>13. \A c : {d \in S : Before(q, d, c)} = {d \in Listed : Matches(q, d) /\ Before(q, d, c)}
      BY <3>5
    <3> QED
      BY <3>7, <3>12, <3>13 DEF q, size, before
  <2>4. CASE QueryRejected(r)
    <3>1. from < 0
      BY <1>1, <2>4 DEF QueryRejected
    <3> HIDE DEF from
    <3> QED
      BY <2>2, <3>1
  <2>5. ASSUME got'[r] = got[r], reading'[r] = "failed" => reading[r] = "failed"
        PROVE  /\ reading'[r] = "failed" => reading[r] = "failed"
               /\ \A i \in (Len(got[r]) + 1) .. Len(got'[r]) : FALSE
    BY <2>1, <2>5
  <2>6. ASSUME ~ReadPage(r), ~QueryRejected(r)
        PROVE  got'[r] = got[r] /\ (reading'[r] = "failed" => reading[r] = "failed")
    <3>1. ASSUME NEW c \in Comics, AddComic(c) \/ \E how \in {"deleted", "gone"} : RemoveComic(c, how)
          PROVE  got' = got /\ reading' = reading
      BY <3>1 DEF AddComic, RemoveComic, readers
    <3>2. ASSUME NEW x \in Readers, ReadPage(x)
          PROVE  got'[r] = got[r] /\ reading'[r] = reading[r]
      <4>1. x # r
        BY <2>6, <3>2
      <4> QED
        BY <2>1, <3>2, <4>1 DEF ReadPage
    <3>3. ASSUME NEW x \in Readers, QueryRejected(x)
          PROVE  got'[r] = got[r] /\ reading'[r] = reading[r]
      <4>1. x # r
        BY <2>6, <3>3
      <4> QED
        BY <2>1, <3>3, <4>1 DEF QueryRejected
    <3>4. ASSUME NEW x \in Readers, RefuseQuery(x)
          PROVE  got'[r] = got[r] /\ (reading'[r] = "failed" => reading[r] = "failed")
      BY <2>1, <3>4 DEF RefuseQuery
    <3>5. ASSUME NEW k \in Calls,
                 Find(k) \/ ListChapters(k) \/ RecommendByComic(k) \/ Unavailable(k)
          PROVE  got' = got /\ reading' = reading
      BY <3>5 DEF Find, ListChapters, RecommendByComic, Unavailable, readers
    <3> QED
      BY <1>1, <3>1, <3>2, <3>3, <3>4, <3>5 DEF Next
  <2> QED
    BY <2>3, <2>4, <2>5, <2>6
<1>2. CInv /\ [Next]_vars =>
      [\A r \in Readers :
       LET q == query[r]
           before == Max({AskedPage(r) - 1, 0}) * PageSize(q)
           page == (Len(got[r]) + 1) .. Len(got'[r])
       IN  before <= IntMax /\ YearsFit(q) =>
             /\ reading'[r] = "failed" => reading[r] = "failed"
             /\ \A i \in page : got'[r][i] \in Untied(q) =>
                  Cardinality({d \in Listed : Matches(q, d) /\ Before(q, d, got'[r][i])})
                    = before + i - Len(got[r]) - 1]_vars
  BY <1>1
<1> QED
  BY <1>2, Invariant, PTL DEF PageNumberHonoured, Spec

-----------------------------------------------------------------------------
(* Page after page: what a reader misses and what it sees again.           *)

\* There is one way to divide.
LEMMA RemainderIs ==
  ASSUME NEW v \in Nat \ {0}, NEW k \in Int, NEW m \in 0 .. v - 1
  PROVE  (k * v + m) % v = m
<1> DEFINE n == k * v + m
           j == n \div v
           o == n % v
<1>1. n \in Int /\ j \in Int /\ o \in 0 .. v - 1 /\ n = v * j + o
  OBVIOUS
<1>2. n = k * v + m
  OBVIOUS
<1> HIDE DEF n, j, o
<1>3. (k - j) * v = o - m
  BY <1>1, <1>2
<1> DEFINE d == k - j
<1>4. d \in Int /\ d * v = o - m
  BY <1>1, <1>3
<1> HIDE DEF d
<1>5. CASE d = 0
  BY <1>1, <1>4, <1>5 DEF n, o
<1>6. CASE d >= 1
  <2>1. d * v = (d - 1) * v + v /\ (d - 1) * v >= 0
    BY <1>4, <1>6
  <2> QED
    BY <1>1, <1>4, <2>1
<1>7. CASE d <= -1
  <2>1. (-d) * v = (-d - 1) * v + v /\ (-d - 1) * v >= 0 /\ (-d) * v = -(d * v)
    BY <1>4, <1>7
  <2> QED
    BY <1>1, <1>4, <2>1
<1> QED
  BY <1>4, <1>5, <1>6, <1>7

\* An int that grows stays what it is or turns negative, until it is back.
LEMMA WrapGrows ==
  ASSUME NEW a \in Int, NEW y \in Nat,
         Wrap(a, 2 * (IntMax + 1)) >= 0, Wrap(a, 2 * (IntMax + 1)) + y <= 2 * IntMax + 1
  PROVE  Wrap(a + y, 2 * (IntMax + 1)) >= 0 =>
           Wrap(a + y, 2 * (IntMax + 1)) = Wrap(a, 2 * (IntMax + 1)) + y
<1> DEFINE h == IntMax + 1
           v == 2 * h
           k == (a + h) \div v
           m == (a + h) % v
<1>1. h \in Nat \ {0} /\ v \in Nat \ {0} /\ v \div 2 = h /\ v = 2 * h /\ v = 2 * (IntMax + 1)
  BY LimitAssumption
<1>2. h = IntMax + 1
  OBVIOUS
<1> HIDE DEF h, v
<1>3. k \in Int /\ m \in 0 .. v - 1 /\ a + h = k * v + m
  BY <1>1
<1>4. \A n \in Int : Wrap(n, v) = ((n + h) % v) - h
  BY <1>1 DEF Wrap
<1>5. Wrap(a, v) = m - h /\ Wrap(a + y, v) = ((a + y + h) % v) - h
  <2>1. a + y \in Int
    OBVIOUS
  <2> QED
    BY <1>4, <2>1
<1> HIDE DEF k, m
<1>6. m >= h /\ m + y <= 3 * h - 1
  BY <1>1, <1>2, <1>3, <1>5, LimitAssumption
<1>7. CASE m + y <= v - 1
  <2>1. a + y + h = k * v + (m + y) /\ m + y \in 0 .. v - 1
    BY <1>1, <1>3, <1>7
  <2>2. (k * v + (m + y)) % v = m + y
    BY <1>1, <1>3, <2>1, RemainderIs
  <2>3. Wrap(a + y, v) = Wrap(a, v) + y
    BY <1>1, <1>3, <1>5, <2>1, <2>2
  <2> QED
    BY <1>1, <2>3
<1>8. CASE ~(m + y <= v - 1)
  <2>1. a + y + h = (k + 1) * v + (m + y - v) /\ m + y - v \in 0 .. h - 1
    <3>1. (k + 1) * v = k * v + v
      BY <1>1, <1>3
    <3> QED
      BY <1>1, <1>3, <1>6, <1>8, <3>1
  <2>2. ((k + 1) * v + (m + y - v)) % v = m + y - v
    <3>1. k + 1 \in Int /\ m + y - v \in 0 .. v - 1
      BY <1>1, <1>3, <2>1
    <3> QED
      BY <1>1, <3>1, RemainderIs
  <2>3. Wrap(a + y, v) < 0
    BY <1>1, <1>5, <2>1, <2>2
  <2>4. Wrap(a + y, v) \in Int
    BY <1>1, <1>5, <2>1, <2>2
  <2> QED
    BY <1>1, <2>3, <2>4
<1> QED
  BY <1>7, <1>8

FirstRow(r) == Offset(Number(query[r], "page"), PageSize(query[r]))

\* The row that the next page begins with.
NextRow(r) == FirstRow(r) + pages[r] * PageSize(query[r])

\* A page that was answered begins with it, though pages are ints.
RowsOK(r) ==
  pages[r] > 0 => FirstRow(r) >= 0 /\ NextRow(r) - PageSize(query[r]) <= IntMax

LEMMA BeginsAt ==
  ASSUME CInv, NEW r \in Readers, RowsOK(r), Offset(AskedPage(r), PageSize(query[r])) >= 0
  PROVE  /\ Offset(AskedPage(r), PageSize(query[r])) = NextRow(r)
         /\ NextRow(r) \in 0 .. IntMax
         /\ pages[r] = 0 /\ Number(query[r], "page") <= 1 => NextRow(r) = 0
<1> DEFINE first == Number(query[r], "page")
           size == PageSize(query[r])
           m == IF first <= 0 THEN 0 ELSE first - 1
           y == pages[r] * size
           v == 2 * (IntMax + 1)
<1>1. first \in Int /\ pages[r] \in Nat /\ size \in 1 .. IntMax
  <2>1. query[r] \in Queries /\ pages[r] \in Nat
    BY DEF CInv, ReadersOK
  <2>2. \A p \in DOMAIN query[r].num : query[r].num[p] \in Int
    BY <2>1, QueryAssumption
  <2>3. first \in Int
    BY <2>2 DEF Number
  <2> QED
    BY <2>1, <2>3, Asked, LimitAssumption DEF Limit
<1>2. m \in Nat /\ (first <= 1 => m = 0)
  BY <1>1
<1>3. FirstRow(r) = Wrap(m * size, v) /\ NextRow(r) = FirstRow(r) + y
  BY DEF FirstRow, NextRow, Offset
<1>4. m * size \in Int /\ y \in Nat /\ (m = 0 => m * size = 0) /\ (pages[r] = 0 => y = 0)
  BY <1>1, <1>2
<1>5. Offset(AskedPage(r), size) = Wrap(m * size + y, v)
  <2>1. CASE pages[r] = 0
    <3>1. AskedPage(r) = first
      BY <2>1 DEF AskedPage
    <3> QED
      BY <1>3, <1>4, <2>1, <3>1 DEF FirstRow
  <2>2. CASE pages[r] # 0
    <3>1. AskedPage(r) = m + 1 + pages[r]
      BY <1>1, <2>2, MaxOfTwo DEF AskedPage
    <3>2. AskedPage(r) > 0 /\ AskedPage(r) - 1 = m + pages[r]
      BY <1>1, <1>2, <2>2, <3>1
    <3>3. (m + pages[r]) * size = m * size + y
      <4> HIDE DEF m, size
      <4> QED
        BY <1>1, <1>2 DEF size
    <3>4. Offset(AskedPage(r), size) = Wrap((AskedPage(r) - 1) * size, v)
      BY <1>1, <1>2, <3>1, <3>2 DEF Offset
    <3> QED
      BY <3>2, <3>3, <3>4
  <2> QED
    BY <2>1, <2>2
<1> HIDE DEF first, size, m, y
<1>6. Wrap(m * size, v) \in Int /\ Wrap(m * size + y, v) \in Int
      /\ (m * size = 0 => Wrap(m * size, v) = 0)
  BY <1>4, Wrapped, LimitAssumption
<1>7. Wrap(m * size + y, v) <= IntMax
  <2> DEFINE n == m * size + y + v \div 2
  <2>1. v \in Nat \ {0} /\ v \div 2 = IntMax + 1 /\ v = 2 * (IntMax + 1)
    BY LimitAssumption
  <2>2. n \in Int
    BY <1>4, <2>1, LimitAssumption
  <2>3. Wrap(m * size + y, v) = (n % v) - v \div 2
    BY DEF Wrap
  <2> HIDE DEF n, v
  <2>4. n % v \in 0 .. v - 1
    BY <2>1, <2>2
  <2> QED
    BY <2>1, <2>3, <2>4, LimitAssumption
<1>8. Wrap(m * size + y, v) >= 0
  BY <1>5 DEF size
<1>9. Wrap(m * size + y, v) = Wrap(m * size, v) + y
  <2>1. CASE pages[r] = 0
    BY <1>4, <1>6, <2>1
  <2>2. CASE pages[r] # 0
    <3>1. FirstRow(r) >= 0 /\ NextRow(r) - size <= IntMax
      BY <1>1, <2>2 DEF RowsOK, size
    <3>2. Wrap(m * size, v) >= 0 /\ Wrap(m * size, v) + y <= 2 * IntMax + 1
      BY <1>1, <1>3, <1>4, <1>6, <3>1, LimitAssumption
    <3> QED
      BY <1>4, <1>8, <3>2, WrapGrows
  <2> QED
    BY <2>1, <2>2
<1>10. Offset(AskedPage(r), size) = NextRow(r) /\ NextRow(r) \in 0 .. IntMax
  BY <1>3, <1>5, <1>6, <1>7, <1>8, <1>9, LimitAssumption
<1>11. pages[r] = 0 /\ first <= 1 => NextRow(r) = 0
  BY <1>2, <1>3, <1>4, <1>6
<1> QED
  BY <1>10, <1>11 DEF first, size

Results(q) == {c \in Listed : Matches(q, c)}

\* The place of a comic among the results that are listed now.
Rank(q, c) == Cardinality({d \in Results(q) : Before(q, d, c)})

LEMMA BeforeIsTransitive ==
  ASSUME CInv, NEW q \in Queries, NEW b \in Comics, NEW c \in Comics, NEW d \in Comics,
         Before(q, b, c), Before(q, c, d)
  PROVE  Before(q, b, d)
<1>1. \A x \in Comics : created[x] \in Int /\ Book[x].rank \in Int /\ Book[x].year \in Nat
  BY CatalogAssumption, BookAssumption DEF CInv, TypeOK
<1>2. CASE SortBy(q) = "created_at"
  BY <1>1, <1>2 DEF Before
<1>3. CASE SortBy(q) = "title"
  BY <1>1, <1>3 DEF Before
<1>4. CASE SortBy(q) \notin {"created_at", "title"}
  BY <1>1, <1>4 DEF Before
<1> QED
  BY <1>2, <1>3, <1>4

LEMMA ResultsAreFinite ==
  ASSUME NEW q \in Queries, NEW c
  PROVE  /\ IsFiniteSet(Results(q))
         /\ IsFiniteSet({d \in Results(q) : Before(q, d, c)})
         /\ Rank(q, c) \in Nat
<1>1. Results(q) \subseteq Comics /\ {d \in Results(q) : Before(q, d, c)} \subseteq Comics
  BY DEF Results, Listed
<1> QED
  BY <1>1, CatalogAssumption, FS_Subset, FS_CardinalityType DEF Rank

\* Two comics that are tied with none have different places.
LEMMA RanksDiffer ==
  ASSUME CInv, NEW q \in Queries, NEW c \in Results(q) \intersect Untied(q),
         NEW d \in Results(q) \intersect Untied(q), Rank(q, c) = Rank(q, d)
  PROVE  c = d
<1>1. /\ Results(q) \subseteq Comics
      /\ \A x \in Results(q) : shelf[x] # "absent"
      /\ c \in Comics /\ d \in Comics
  BY DEF Results, Listed
<1>2. ASSUME NEW x \in Results(q), NEW y \in Results(q), Before(q, x, y)
      PROVE  Rank(q, x) < Rank(q, y)
  <2> DEFINE X == {e \in Results(q) : Before(q, e, x)}
             Y == {e \in Results(q) : Before(q, e, y)}
  <2>1. X \subseteq Y
    BY <1>1, <1>2, BeforeIsTransitive
  <2>2. x \in Y /\ x \notin X
    BY <1>1, <1>2, NotBeforeItself
  <2>3. IsFiniteSet(Y) /\ Cardinality(X) = Rank(q, x) /\ Cardinality(Y) = Rank(q, y)
    BY ResultsAreFinite DEF Rank
  <2> HIDE DEF X, Y
  <2>4. Cardinality(X) \in Nat /\ Cardinality(Y) \in Nat /\ Cardinality(X) <= Cardinality(Y)
    BY <2>1, <2>3, FS_Subset, FS_CardinalityType
  <2>5. Cardinality(X) = Cardinality(Y) => X = Y
    BY <2>1, <2>3, FS_Subset
  <2> QED
    BY <2>2, <2>3, <2>4, <2>5
<1>3. Rank(q, c) \in Nat /\ Rank(q, d) \in Nat
  BY ResultsAreFinite
<1> SUFFICES ASSUME c # d
             PROVE  FALSE
  OBVIOUS
<1>4. Before(q, c, d) \/ Before(q, d, c)
  BY <1>1 DEF Untied
<1> QED
  BY <1>2, <1>3, <1>4

\* A set that has at most one new element.
LEMMA OneMore ==
  ASSUME NEW S, NEW T, IsFiniteSet(S), IsFiniteSet(T),
         \A x, y \in T \ S : x = y
  PROVE  Cardinality(T) <= Cardinality(S) + 1
<1>1. CASE T \subseteq S
  <2>1. Cardinality(T) <= Cardinality(S) /\ Cardinality(S) \in Nat /\ Cardinality(T) \in Nat
    BY <1>1, FS_Subset, FS_CardinalityType
  <2> QED
    BY <2>1
<1>2. CASE ~(T \subseteq S)
  <2>1. PICK x \in T \ S : TRUE
    BY <1>2
  <2>2. T \subseteq S \union {x}
    BY <2>1
  <2>3. IsFiniteSet(S \union {x}) /\ Cardinality(S \union {x}) = Cardinality(S) + 1
    BY <2>1, FS_AddElement
  <2>4. Cardinality(T) <= Cardinality(S \union {x})
    BY <2>2, <2>3, FS_Subset
  <2> QED
    BY <2>3, <2>4
<1> QED
  BY <1>1, <1>2

\* A set counts as much as a part of it and the rest.
LEMMA Difference ==
  ASSUME NEW A, NEW B, IsFiniteSet(A), B \subseteq A
  PROVE  /\ IsFiniteSet(B) /\ IsFiniteSet(A \ B)
         /\ Cardinality(A) = Cardinality(B) + Cardinality(A \ B)
         /\ Cardinality(A) \in Nat /\ Cardinality(B) \in Nat /\ Cardinality(A \ B) \in Nat
<1>1. IsFiniteSet(B) /\ IsFiniteSet(A \ B)
  BY FS_Subset
<1>2. B \union (A \ B) = A /\ B \intersect (A \ B) = {}
  OBVIOUS
<1>3. Cardinality(B \union (A \ B)) =
        Cardinality(B) + Cardinality(A \ B) - Cardinality(B \intersect (A \ B))
  BY <1>1, FS_Union
<1>4. Cardinality({}) = 0
  BY FS_EmptySet
<1>5. Cardinality(A) \in Nat /\ Cardinality(B) \in Nat /\ Cardinality(A \ B) \in Nat
  BY <1>1, FS_CardinalityType
<1> QED
  BY <1>1, <1>2, <1>3, <1>4, <1>5

\* Fewer comics at fewer places: as many are repeated, or fewer.
LEMMA FewerRepeats ==
  ASSUME NEW s, NEW A, NEW B, IsFiniteSet(A), B \subseteq A,
         \A i \in A, j \in B : s[i] = s[j] => i \in B
  PROVE  /\ IsFiniteSet(B)
         /\ IsFiniteSet({s[i] : i \in A}) /\ IsFiniteSet({s[i] : i \in B})
         /\ Cardinality(B) + Cardinality({s[i] : i \in A})
              <= Cardinality(A) + Cardinality({s[i] : i \in B})
<1> DEFINE V(X) == {s[i] : i \in X}
           C == A \ B
           f == [i \in C |-> s[i]]
           g == [i \in A |-> s[i]]
<1>1. g \in Surjection(A, V(A)) /\ f \in Surjection(C, V(A) \ V(B))
  BY DEF Surjection
<1>2. V(B) \subseteq V(A)
  OBVIOUS
<1>3. IsFiniteSet(V(A))
  BY <1>1, FS_Surjection
<1>4. /\ IsFiniteSet(B) /\ IsFiniteSet(C)
      /\ Cardinality(A) = Cardinality(B) + Cardinality(C)
      /\ Cardinality(A) \in Nat /\ Cardinality(B) \in Nat /\ Cardinality(C) \in Nat
  BY Difference
<1>5. Cardinality(V(A) \ V(B)) <= Cardinality(C)
  BY <1>1, <1>4, FS_Surjection
<1> HIDE DEF V
<1>6. /\ IsFiniteSet(V(B))
      /\ Cardinality(V(A)) = Cardinality(V(B)) + Cardinality(V(A) \ V(B))
      /\ Cardinality(V(A)) \in Nat /\ Cardinality(V(B)) \in Nat
      /\ Cardinality(V(A) \ V(B)) \in Nat
  BY <1>2, <1>3, Difference
<1> HIDE DEF C
<1>7. Cardinality(B) + Cardinality(V(A)) <= Cardinality(A) + Cardinality(V(B))
  BY <1>4, <1>5, <1>6
<1> QED
  BY <1>3, <1>4, <1>6, <1>7 DEF V

\* Where untied comics are on the pages of a reader, and which these are.
UntiedAt(r) == {i \in DOMAIN got[r] : got[r][i] \in Untied(query[r])}
UntiedSeen(r) == {got[r][i] : i \in UntiedAt(r)}

\* Comics that a reader has not seen, those among them that its pages have
\* passed, and comics it has seen that its next pages may show again.
Missed(r) ==
  {c \in kept[r] \intersect Untied(query[r]) : Matches(query[r], c) /\ c \notin ToSet(got[r])}
Passed(r) == {c \in Missed(r) : Rank(query[r], c) < NextRow(r)}
PushedBack(r) == {c \in UntiedSeen(r) \intersect Listed : Rank(query[r], c) >= NextRow(r)}

LossesOK(r) == Cardinality(Passed(r)) <= removed[r]
RepeatsOK(r) ==
  Cardinality(UntiedAt(r)) + Cardinality(PushedBack(r)) <= Cardinality(UntiedSeen(r)) + added[r]

PagesOK(r) ==
  /\ reading[r] = "idle" => pages[r] = 0
  /\ pages[r] = 0 => got[r] = <<>> /\ kept[r] = {}
  /\ kept[r] \subseteq Listed
  /\ \A i \in DOMAIN got[r] : shelf[got[r][i]] # "absent"
  /\ RowsOK(r)
  /\ reading[r] \in {"idle", "reading"} =>
       RepeatsOK(r) /\ (Number(query[r], "page") <= 1 => LossesOK(r))
  /\ reading[r] = "done" /\ Number(query[r], "page") <= 1 => Cardinality(Missed(r)) <= removed[r]
  /\ Cardinality(UntiedAt(r)) <= Cardinality(UntiedSeen(r)) + added[r]

LEMMA FirstRowIsInt ==
  ASSUME CInv, NEW r \in Readers
  PROVE  FirstRow(r) \in Int
<1> DEFINE first == Number(query[r], "page")
<1>1. PageSize(query[r]) \in Nat
  BY Asked, LimitAssumption DEF Limit
<1>2. first \in Int
  <2>1. \A p \in DOMAIN query[r].num : query[r].num[p] \in Int
    BY QueryAssumption DEF CInv, ReadersOK
  <2> QED
    BY <2>1 DEF Number
<1> HIDE DEF first
<1>3. (IF first <= 0 THEN 0 ELSE first - 1) * PageSize(query[r]) \in Int
  BY <1>1, <1>2
<1> QED
  BY <1>3, Wrapped DEF FirstRow, Offset, first

LEMMA ReadersSets ==
  ASSUME CInv, NEW r \in Readers
  PROVE  /\ query[r] \in Queries
         /\ got[r] \in Seq(Comics)
         /\ DOMAIN got[r] = 1 .. Len(got[r]) /\ Len(got[r]) \in Nat
         /\ \A i \in DOMAIN got[r] : got[r][i] \in Comics /\ Matches(query[r], got[r][i])
         /\ IsFiniteSet(UntiedAt(r)) /\ IsFiniteSet(UntiedSeen(r)) /\ IsFiniteSet(Missed(r))
         /\ IsFiniteSet(Passed(r)) /\ IsFiniteSet(PushedBack(r))
         /\ Cardinality(UntiedAt(r)) \in Nat /\ Cardinality(UntiedSeen(r)) \in Nat
         /\ Cardinality(Missed(r)) \in Nat /\ Cardinality(Passed(r)) \in Nat
         /\ Cardinality(PushedBack(r)) \in Nat
         /\ added[r] \in Nat /\ removed[r] \in Nat
         /\ pages[r] \in Nat /\ NextRow(r) \in Int
<1>1. query[r] \in Queries /\ got[r] \in Seq(Comics) /\ pages[r] \in Nat
  BY DEF CInv, ReadersOK
<1>2. DOMAIN got[r] = 1 .. Len(got[r]) /\ Len(got[r]) \in Nat
  BY <1>1
<1>3. \A i \in DOMAIN got[r] : got[r][i] \in Comics /\ Matches(query[r], got[r][i])
  <2>1. \A i \in DOMAIN got[r] : got[r][i] \in Comics
    BY <1>1
  <2>2. \A i \in DOMAIN got[r] : Matches(query[r], got[r][i])
    BY DEF CInv, ReadersOK
  <2> QED
    BY <2>1, <2>2
<1>4. IsFiniteSet(1 .. Len(got[r]))
  <2>1. PICK n \in Nat : n = Len(got[r])
    BY <1>2
  <2>2. IsFiniteSet(1 .. n)
    BY FS_Interval
  <2> QED
    BY <2>1, <2>2
<1>5. UntiedAt(r) \subseteq 1 .. Len(got[r])
  BY <1>2 DEF UntiedAt
<1>6. UntiedSeen(r) \subseteq Comics /\ PushedBack(r) \subseteq Comics
  BY <1>3 DEF UntiedSeen, UntiedAt, PushedBack
<1>7. Missed(r) \subseteq Comics /\ Passed(r) \subseteq Comics
  BY DEF Missed, Passed, Untied
<1>8. added[r] \in Nat /\ removed[r] \in Nat
  BY CatalogAssumption DEF CInv, TypeOK
<1>9. NextRow(r) \in Int
  <2>1. PageSize(query[r]) \in Nat
    BY Asked, LimitAssumption DEF Limit
  <2>2. FirstRow(r) \in Int
    BY FirstRowIsInt
  <2> QED
    BY <1>1, <2>1, <2>2 DEF NextRow
<1>10. /\ IsFiniteSet(UntiedAt(r)) /\ IsFiniteSet(UntiedSeen(r)) /\ IsFiniteSet(Missed(r))
       /\ IsFiniteSet(Passed(r)) /\ IsFiniteSet(PushedBack(r))
  BY <1>4, <1>5, <1>6, <1>7, CatalogAssumption, FS_Subset
<1>11. /\ Cardinality(UntiedAt(r)) \in Nat /\ Cardinality(UntiedSeen(r)) \in Nat
       /\ Cardinality(Missed(r)) \in Nat /\ Cardinality(Passed(r)) \in Nat
       /\ Cardinality(PushedBack(r)) \in Nat
  BY <1>10, FS_CardinalityType
<1> QED
  BY <1>1, <1>2, <1>3, <1>8, <1>9, <1>10, <1>11

\* An edit does not change the order of the other rows.
LEMMA EditOrders ==
  ASSUME CInv, NEW q \in Queries, NEW x \in Comics,
         AddComic(x) \/ \E how \in {"deleted", "gone"} : RemoveComic(x, how)
  PROVE  /\ \A c \in Comics : shelf[c] # "absent" => shelf'[c] # "absent"
         /\ \A c, d \in Comics : shelf[c] # "absent" /\ shelf[d] # "absent" =>
              (Before(q, c, d)' <=> Before(q, c, d))
         /\ \A c \in Comics : shelf[c] # "absent" /\ c \in Untied(q)' => c \in Untied(q)
<1>1. /\ \A c \in Comics : shelf[c] # "absent" => shelf'[c] # "absent" /\ created'[c] = created[c]
  <2>1. CASE AddComic(x)
    BY <2>1 DEF AddComic, CInv, TypeOK
  <2>2. CASE \E how \in {"deleted", "gone"} : RemoveComic(x, how)
    BY <2>2 DEF RemoveComic, CInv, TypeOK
  <2> QED
    BY <2>1, <2>2
<1>2. \A c, d \in Comics : shelf[c] # "absent" /\ shelf[d] # "absent" =>
        (Before(q, c, d)' <=> Before(q, c, d))
  BY <1>1 DEF Before
<1>3. \A c \in Comics : shelf[c] # "absent" /\ c \in Untied(q)' => c \in Untied(q)
  BY <1>1, <1>2 DEF Untied
<1> QED
  BY <1>1, <1>2, <1>3

\* It moves another row by one place at most.
LEMMA EditRanks ==
  ASSUME CInv, NEW q \in Queries, NEW x \in Comics, NEW c \in Comics, shelf[c] # "absent"
  PROVE  /\ Rank(q, c) \in Nat
         /\ AddComic(x) =>
              Rank(q, c)' \in Nat /\ Rank(q, c) <= Rank(q, c)' /\ Rank(q, c)' <= Rank(q, c) + 1
         /\ (\E how \in {"deleted", "gone"} : RemoveComic(x, how)) =>
              Rank(q, c)' \in Nat /\ Rank(q, c)' <= Rank(q, c) /\ Rank(q, c) <= Rank(q, c)' + 1
<1> DEFINE R == {d \in Results(q) : Before(q, d, c)}
           T == {d \in Results(q)' : Before(q, d, c)'}
<1>1. /\ IsFiniteSet(R) /\ Rank(q, c) = Cardinality(R)
  BY ResultsAreFinite DEF Rank
<1>2. IsFiniteSet(T) /\ Rank(q, c)' = Cardinality(T)
  <2>1. T \subseteq Comics
    BY DEF Results, Listed
  <2> QED
    BY <2>1, CatalogAssumption, FS_Subset DEF Rank
<1>3. Cardinality(R) \in Nat /\ Cardinality(T) \in Nat
  BY <1>1, <1>2, FS_CardinalityType
<1>4. ASSUME AddComic(x)
      PROVE  R \subseteq T /\ T \ R \subseteq {x}
  <2>1. \A d \in Comics : (d \in Listed' <=> d \in Listed \/ d = x)
    BY <1>4 DEF AddComic, Listed, CInv, TypeOK
  <2>2. \A d \in Listed : d \in Comics /\ (Before(q, d, c)' <=> Before(q, d, c))
    BY <1>4, EditOrders DEF Listed
  <2>3. \A d \in Listed' : d \in Comics
    BY DEF Listed
  <2> QED
    BY <2>1, <2>2, <2>3 DEF Results
<1>5. ASSUME \E how \in {"deleted", "gone"} : RemoveComic(x, how)
      PROVE  T \subseteq R /\ R \ T \subseteq {x}
  <2>1. \A d \in Comics : (d \in Listed' <=> d \in Listed /\ d # x)
    BY <1>5 DEF RemoveComic, Listed, CInv, TypeOK
  <2>2. \A d \in Listed : d \in Comics /\ (Before(q, d, c)' <=> Before(q, d, c))
    BY <1>5, EditOrders DEF Listed
  <2>3. \A d \in Listed' : d \in Comics
    BY DEF Listed
  <2> QED
    BY <2>1, <2>2, <2>3 DEF Results
<1> HIDE DEF R, T
<1>6. ASSUME R \subseteq T, T \ R \subseteq {x}
      PROVE  Cardinality(R) <= Cardinality(T) /\ Cardinality(T) <= Cardinality(R) + 1
  <2>1. \A y, z \in T \ R : y = z
    BY <1>6
  <2> QED
    BY <1>1, <1>2, <1>6, <2>1, FS_Subset, OneMore
<1>7. ASSUME T \subseteq R, R \ T \subseteq {x}
      PROVE  Cardinality(T) <= Cardinality(R) /\ Cardinality(R) <= Cardinality(T) + 1
  <2>1. \A y, z \in R \ T : y = z
    BY <1>7
  <2> QED
    BY <1>1, <1>2, <1>7, <2>1, FS_Subset, OneMore
<1> QED
  BY <1>1, <1>2, <1>3, <1>4, <1>5, <1>6, <1>7

\* An edit may tie comics that were not: these do not count any more, neither
\* the places where a reader saw them nor the comics.
LEMMA EditRepeats ==
  ASSUME CInv, NEW x \in Comics, NEW r \in Readers, PagesOK(r),
         AddComic(x) \/ \E how \in {"deleted", "gone"} : RemoveComic(x, how)
  PROVE  /\ UntiedAt(r)' \subseteq UntiedAt(r) /\ UntiedSeen(r)' \subseteq UntiedSeen(r)
         /\ Cardinality(UntiedAt(r)') + Cardinality(UntiedSeen(r))
              <= Cardinality(UntiedAt(r)) + Cardinality(UntiedSeen(r)')
         /\ Cardinality(UntiedAt(r)') \in Nat /\ Cardinality(UntiedSeen(r)') \in Nat
         /\ IsFiniteSet(UntiedSeen(r)')
<1>1. PICK q \in Queries : q = query[r] /\ q = query'[r]
  BY ReadersSets DEF AddComic, RemoveComic, readers
<1>2. got' = got
  BY DEF AddComic, RemoveComic, readers
<1>3. PICK s : s = got[r] /\ s = got'[r]
  BY <1>2
<1> DEFINE A == UntiedAt(r)
           B == UntiedAt(r)'
<1>4. /\ A = {i \in DOMAIN s : s[i] \in Untied(q)}
      /\ B = {i \in DOMAIN s : s[i] \in Untied(q)'}
      /\ UntiedSeen(r) = {s[i] : i \in A}
      /\ UntiedSeen(r)' = {s[i] : i \in B}
  BY <1>1, <1>3 DEF UntiedAt, UntiedSeen
<1>5. \A i \in DOMAIN s : s[i] \in Comics /\ shelf[s[i]] # "absent"
  BY <1>3, ReadersSets DEF PagesOK
<1>6. B \subseteq A
  BY <1>4, <1>5, EditOrders
<1>7. \A i \in A, j \in B : s[i] = s[j] => i \in B
  BY <1>4
<1>8. IsFiniteSet(A)
  BY ReadersSets
<1> HIDE DEF A, B
<1>9. /\ IsFiniteSet(B)
      /\ IsFiniteSet({s[i] : i \in A}) /\ IsFiniteSet({s[i] : i \in B})
      /\ Cardinality(B) + Cardinality({s[i] : i \in A})
           <= Cardinality(A) + Cardinality({s[i] : i \in B})
  BY <1>6, <1>7, <1>8, FewerRepeats
<1>10. Cardinality(B) \in Nat /\ Cardinality({s[i] : i \in B}) \in Nat
  BY <1>9, FS_CardinalityType
<1>11. {s[i] : i \in B} \subseteq {s[i] : i \in A}
  BY <1>6
<1>12. /\ B \subseteq A /\ UntiedSeen(r)' \subseteq UntiedSeen(r)
       /\ Cardinality(B) + Cardinality(UntiedSeen(r))
            <= Cardinality(A) + Cardinality(UntiedSeen(r)')
       /\ Cardinality(B) \in Nat /\ Cardinality(UntiedSeen(r)') \in Nat
       /\ IsFiniteSet(UntiedSeen(r)')
  BY <1>4, <1>6, <1>9, <1>10, <1>11
<1> QED
  BY <1>12 DEF A, B

LEMMA AddKeepsPages ==
  ASSUME CInv, NEW x \in Comics, AddComic(x), NEW r \in Readers, PagesOK(r)
  PROVE  PagesOK(r)'
<1>1. PICK q \in Queries : q = query[r] /\ q = query'[r]
  BY ReadersSets DEF AddComic, readers
<1>2. /\ UNCHANGED <<query, reading, pages, got, kept, removed>>
      /\ added'[r] = IF reading[r] = "reading" THEN added[r] + 1 ELSE added[r]
  BY DEF AddComic, readers, Reading
<1>3. PICK n \in Int : n = NextRow(r) /\ n = NextRow(r)'
  BY <1>2, ReadersSets DEF NextRow, FirstRow
<1>4. RowsOK(r)'
  BY <1>2 DEF PagesOK, RowsOK, NextRow, FirstRow
<1>5. Listed \subseteq Listed' /\ (\A c \in Listed' : c \in Listed \/ c = x) /\ shelf[x] = "absent"
  BY DEF AddComic, Listed, CInv, TypeOK
<1>6. \A i \in DOMAIN got'[r] : shelf'[got'[r][i]] # "absent"
  BY <1>2, ReadersSets, EditOrders DEF PagesOK
<1>7. Missed(r)' \subseteq Missed(r)
  <2>1. \A c \in kept[r] : c \in Comics /\ shelf[c] # "absent"
    BY DEF PagesOK, Listed
  <2> QED
    BY <1>1, <1>2, <2>1, EditOrders DEF Missed
<1>8. Passed(r)' \subseteq Passed(r)
  <2> SUFFICES ASSUME NEW c \in Passed(r)'
               PROVE  c \in Passed(r)
    OBVIOUS
  <2>1. c \in Missed(r) /\ Rank(q, c)' < n
    BY <1>1, <1>3, <1>7 DEF Passed
  <2>2. c \in Comics /\ shelf[c] # "absent"
    BY <2>1 DEF Missed, PagesOK, Listed
  <2>3. Rank(q, c) \in Nat /\ Rank(q, c)' \in Nat /\ Rank(q, c) <= Rank(q, c)'
    BY <2>2, EditRanks
  <2>4. Rank(q, c) < n
    BY <2>1, <2>3
  <2> QED
    BY <1>1, <1>3, <2>1, <2>4 DEF Passed
<1>9. /\ Cardinality(Missed(r)') \in Nat /\ Cardinality(Missed(r)') <= Cardinality(Missed(r))
      /\ Cardinality(Passed(r)') \in Nat /\ Cardinality(Passed(r)') <= Cardinality(Passed(r))
  BY <1>7, <1>8, ReadersSets, FS_Subset, FS_CardinalityType
<1> DEFINE S == PushedBack(r)
           T == PushedBack(r)'
<1>10. \A c \in T : /\ c \in UntiedSeen(r) \intersect Listed /\ c \in Results(q) \intersect Untied(q)
                    /\ Rank(q, c) \in Nat /\ Rank(q, c) + 1 >= n
  <2> SUFFICES ASSUME NEW c \in T
               PROVE  /\ c \in UntiedSeen(r) \intersect Listed
                      /\ c \in Results(q) \intersect Untied(q)
                      /\ Rank(q, c) \in Nat /\ Rank(q, c) + 1 >= n
    OBVIOUS
  <2>1. c \in UntiedSeen(r)' /\ c \in Listed' /\ Rank(q, c)' >= n
    BY <1>1, <1>3 DEF PushedBack
  <2>2. c \in UntiedSeen(r)
    BY <2>1, EditRepeats
  <2>3. PICK i \in UntiedAt(r) : c = got[r][i]
    BY <2>2 DEF UntiedSeen
  <2>4. c \in Comics /\ shelf[c] # "absent" /\ Matches(q, c) /\ c \in Untied(q)
    BY <1>1, <2>3, ReadersSets DEF UntiedAt, PagesOK
  <2>5. c \in Listed
    BY <1>5, <2>1, <2>4
  <2>6. Rank(q, c) \in Nat /\ Rank(q, c)' \in Nat /\ Rank(q, c)' <= Rank(q, c) + 1
    BY <2>4, EditRanks
  <2> QED
    BY <2>1, <2>2, <2>4, <2>5, <2>6 DEF Results
<1>11. \A c, d \in T \ S : c = d
  <2>1. \A c \in T \ S : ~(Rank(q, c) >= n)
    BY <1>1, <1>3, <1>10 DEF PushedBack
  <2>2. \A c \in T \ S : Rank(q, c) = n - 1
    BY <1>10, <2>1
  <2>3. \A c, d \in T \ S : Rank(q, c) = Rank(q, d)
    BY <2>2
  <2> HIDE DEF S, T
  <2> QED
    BY <1>10, <2>3, RanksDiffer
<1>12. T \subseteq UntiedSeen(r)
  BY <1>10
<1>13. IsFiniteSet(S) /\ IsFiniteSet(T)
  BY <1>12, ReadersSets, FS_Subset
<1> HIDE DEF S, T
<1>14. Cardinality(T) <= Cardinality(S) + 1
  BY <1>11, <1>13, OneMore
<1>15. Cardinality(S) \in Nat /\ Cardinality(T) \in Nat
  BY <1>13, FS_CardinalityType
<1>16. /\ Cardinality(UntiedAt(r)) \in Nat /\ Cardinality(UntiedSeen(r)) \in Nat
       /\ added[r] \in Nat /\ removed[r] \in Nat
       /\ Cardinality(Missed(r)) \in Nat /\ Cardinality(Passed(r)) \in Nat
  BY ReadersSets
<1>17. /\ Cardinality(UntiedAt(r)') \in Nat /\ Cardinality(UntiedSeen(r)') \in Nat
       /\ Cardinality(UntiedAt(r)') + Cardinality(UntiedSeen(r))
            <= Cardinality(UntiedAt(r)) + Cardinality(UntiedSeen(r)')
  BY EditRepeats
<1>18. ASSUME reading[r] = "reading", RepeatsOK(r)
       PROVE  RepeatsOK(r)'
  <2>1. Cardinality(UntiedAt(r)) + Cardinality(S) <= Cardinality(UntiedSeen(r)) + added[r]
    BY <1>18 DEF RepeatsOK, S
  <2>2. added'[r] = added[r] + 1
    BY <1>2, <1>18
  <2>3. Cardinality(UntiedAt(r)') + Cardinality(T) <= Cardinality(UntiedSeen(r)') + added'[r]
    BY <1>14, <1>15, <1>16, <1>17, <2>1, <2>2
  <2> QED
    BY <2>3 DEF RepeatsOK, T
<1>19. ASSUME reading[r] = "idle"
       PROVE  RepeatsOK(r)'
  <2>1. got[r] = <<>> /\ DOMAIN <<>> = {}
    BY <1>19 DEF PagesOK
  <2>2. UntiedAt(r)' = {} /\ UntiedSeen(r)' = {} /\ T = {}
    BY <1>2, <2>1 DEF UntiedAt, UntiedSeen, PushedBack, T
  <2>3. added'[r] \in Nat /\ Cardinality({}) = 0
    BY <1>2, <1>16, FS_EmptySet
  <2> QED
    BY <2>2, <2>3 DEF RepeatsOK, T
<1>20. Cardinality(UntiedAt(r)') <= Cardinality(UntiedSeen(r)') + added'[r]
  <2>1. Cardinality(UntiedAt(r)) <= Cardinality(UntiedSeen(r)) + added[r]
    BY DEF PagesOK
  <2>2. added'[r] \in Nat /\ added[r] <= added'[r]
    BY <1>2, <1>16
  <2> QED
    BY <1>16, <1>17, <2>1, <2>2
<1>21. LossesOK(r) => LossesOK(r)'
  BY <1>2, <1>9, <1>16 DEF LossesOK
<1>22. Cardinality(Missed(r)) <= removed[r] => Cardinality(Missed(r)') <= removed'[r]
  BY <1>2, <1>9, <1>16
<1>23. kept'[r] \subseteq Listed'
  BY <1>2, <1>5 DEF PagesOK
<1> QED
  BY <1>2, <1>4, <1>6, <1>18, <1>19, <1>20, <1>21, <1>22, <1>23 DEF PagesOK

LEMMA RemoveKeepsPages ==
  ASSUME CInv, NEW x \in Comics, \E how \in {"deleted", "gone"} : RemoveComic(x, how),
         NEW r \in Readers, PagesOK(r)
  PROVE  PagesOK(r)'
<1>1. PICK q \in Queries : q = query[r] /\ q = query'[r]
  BY ReadersSets DEF RemoveComic, readers
<1>2. /\ UNCHANGED <<query, reading, pages, got, added>>
      /\ kept'[r] = kept[r] \ {x}
      /\ removed'[r] = IF reading[r] = "reading" THEN removed[r] + 1 ELSE removed[r]
  BY DEF RemoveComic, readers, Reading
<1>3. PICK n \in Int : n = NextRow(r) /\ n = NextRow(r)'
  BY <1>2, ReadersSets DEF NextRow, FirstRow
<1>4. RowsOK(r)'
  BY <1>2 DEF PagesOK, RowsOK, NextRow, FirstRow
<1>5. Listed' = Listed \ {x}
  BY DEF RemoveComic, Listed, CInv, TypeOK
<1>6. \A i \in DOMAIN got'[r] : shelf'[got'[r][i]] # "absent"
  BY <1>2, ReadersSets, EditOrders DEF PagesOK
<1>7. Missed(r)' \subseteq Missed(r)
  <2>1. \A c \in kept[r] : c \in Comics /\ shelf[c] # "absent"
    BY DEF PagesOK, Listed
  <2> QED
    BY <1>1, <1>2, <2>1, EditOrders DEF Missed
<1>8. PushedBack(r)' \subseteq PushedBack(r)
  <2> SUFFICES ASSUME NEW c \in PushedBack(r)'
               PROVE  c \in PushedBack(r)
    OBVIOUS
  <2>1. c \in UntiedSeen(r) /\ c \in Listed /\ Rank(q, c)' >= n
    BY <1>1, <1>3, <1>5, EditRepeats DEF PushedBack
  <2>2. c \in Comics /\ shelf[c] # "absent"
    BY <2>1 DEF Listed
  <2>3. Rank(q, c) \in Nat /\ Rank(q, c)' \in Nat /\ Rank(q, c)' <= Rank(q, c)
    BY <2>2, EditRanks
  <2>4. Rank(q, c) >= n
    BY <2>1, <2>3
  <2> QED
    BY <1>1, <1>3, <2>1, <2>4 DEF PushedBack
<1>9. /\ Cardinality(Missed(r)') \in Nat /\ Cardinality(Missed(r)') <= Cardinality(Missed(r))
      /\ Cardinality(PushedBack(r)') \in Nat
      /\ Cardinality(PushedBack(r)') <= Cardinality(PushedBack(r))
      /\ IsFiniteSet(Missed(r)')
  BY <1>7, <1>8, ReadersSets, FS_Subset, FS_CardinalityType
<1> DEFINE S == Passed(r)
           T == Passed(r)'
<1>10. \A c \in T : /\ c \in Missed(r) /\ c \in Results(q) \intersect Untied(q)
                    /\ Rank(q, c) \in Nat /\ Rank(q, c) <= n
  <2> SUFFICES ASSUME NEW c \in T
               PROVE  /\ c \in Missed(r) /\ c \in Results(q) \intersect Untied(q)
                      /\ Rank(q, c) \in Nat /\ Rank(q, c) <= n
    OBVIOUS
  <2>1. c \in Missed(r) /\ Rank(q, c)' < n
    BY <1>1, <1>3, <1>7 DEF Passed
  <2>2. c \in Listed /\ c \in Comics /\ shelf[c] # "absent" /\ Matches(q, c) /\ c \in Untied(q)
    BY <1>1, <2>1 DEF Missed, PagesOK, Listed
  <2>3. Rank(q, c) \in Nat /\ Rank(q, c)' \in Nat /\ Rank(q, c) <= Rank(q, c)' + 1
    BY <2>2, EditRanks
  <2> QED
    BY <2>1, <2>2, <2>3 DEF Results
<1>11. \A c, d \in T \ S : c = d
  <2>1. \A c \in T \ S : ~(Rank(q, c) < n)
    BY <1>1, <1>3, <1>10 DEF Passed
  <2>2. \A c \in T \ S : Rank(q, c) = n
    BY <1>10, <2>1
  <2>3. \A c, d \in T \ S : Rank(q, c) = Rank(q, d)
    BY <2>2
  <2> HIDE DEF S, T
  <2> QED
    BY <1>10, <2>3, RanksDiffer
<1>12. T \subseteq Missed(r)
  BY <1>10
<1>13. IsFiniteSet(S) /\ IsFiniteSet(T)
  BY <1>12, ReadersSets, FS_Subset
<1> HIDE DEF S, T
<1>14. Cardinality(T) <= Cardinality(S) + 1
  BY <1>11, <1>13, OneMore
<1>15. Cardinality(S) \in Nat /\ Cardinality(T) \in Nat
  BY <1>13, FS_CardinalityType
<1>16. /\ Cardinality(UntiedAt(r)) \in Nat /\ Cardinality(UntiedSeen(r)) \in Nat
       /\ added[r] \in Nat /\ removed[r] \in Nat
       /\ Cardinality(Missed(r)) \in Nat /\ Cardinality(PushedBack(r)) \in Nat
  BY ReadersSets
<1>17. /\ Cardinality(UntiedAt(r)') \in Nat /\ Cardinality(UntiedSeen(r)') \in Nat
       /\ Cardinality(UntiedAt(r)') + Cardinality(UntiedSeen(r))
            <= Cardinality(UntiedAt(r)) + Cardinality(UntiedSeen(r)')
  BY EditRepeats
<1>18. ASSUME reading[r] = "reading", LossesOK(r)
       PROVE  LossesOK(r)'
  <2>1. Cardinality(S) <= removed[r]
    BY <1>18 DEF LossesOK, S
  <2>2. removed'[r] = removed[r] + 1
    BY <1>2, <1>18
  <2>3. Cardinality(T) <= removed'[r]
    BY <1>14, <1>15, <1>16, <2>1, <2>2
  <2> QED
    BY <2>3 DEF LossesOK, T
<1>19. ASSUME reading[r] = "idle"
       PROVE  LossesOK(r)'
  <2>1. kept'[r] = {}
    BY <1>2, <1>19 DEF PagesOK
  <2>2. T = {}
    BY <2>1 DEF Missed, Passed, T
  <2>3. removed'[r] \in Nat /\ Cardinality({}) = 0
    BY <1>2, <1>16, FS_EmptySet
  <2> QED
    BY <2>2, <2>3 DEF LossesOK, T
<1>20. Cardinality(UntiedAt(r)') <= Cardinality(UntiedSeen(r)') + added'[r]
  <2>1. Cardinality(UntiedAt(r)) <= Cardinality(UntiedSeen(r)) + added[r]
    BY DEF PagesOK
  <2>2. added'[r] = added[r]
    BY <1>2
  <2> QED
    BY <1>16, <1>17, <2>1, <2>2
<1>21. RepeatsOK(r) => RepeatsOK(r)'
  <2> SUFFICES ASSUME RepeatsOK(r)
               PROVE  RepeatsOK(r)'
    OBVIOUS
  <2>1. Cardinality(UntiedAt(r)) + Cardinality(PushedBack(r)) <= Cardinality(UntiedSeen(r)) + added[r]
    BY DEF RepeatsOK
  <2>2. added'[r] = added[r]
    BY <1>2
  <2>3. Cardinality(UntiedAt(r)') + Cardinality(PushedBack(r)') <= Cardinality(UntiedSeen(r)') + added'[r]
    BY <1>9, <1>16, <1>17, <2>1, <2>2
  <2> QED
    BY <2>3 DEF RepeatsOK
<1>22. Cardinality(Missed(r)) <= removed[r] => Cardinality(Missed(r)') <= removed'[r]
  <2>1. removed'[r] \in Nat /\ removed[r] <= removed'[r]
    BY <1>2, <1>16
  <2> QED
    BY <1>9, <1>16, <2>1
<1>23. kept'[r] \subseteq Listed'
  BY <1>2, <1>5 DEF PagesOK
<1>24. /\ reading'[r] = reading[r] /\ pages'[r] = pages[r] /\ got'[r] = got[r] /\ query'[r] = query[r]
       /\ (kept[r] = {} => kept'[r] = {})
  BY <1>2
<1> QED
  BY <1>4, <1>6, <1>18, <1>19, <1>20, <1>21, <1>22, <1>23, <1>24 DEF PagesOK

\* Stated for itself: in its context no prover finds it.
LEMMA SameSummand ==
  ASSUME NEW a \in Nat, NEW i \in Int, NEW j \in Int, a + i = a + j
  PROVE  i = j
OBVIOUS

\* What a page holds of the comics whose place is clear.
LEMMA OnPage ==
  ASSUME CInv, NEW r \in Readers, RowsOK(r), ReadPage(r)
  PROVE  /\ NextRow(r) \in 0 .. IntMax
         /\ pages[r] = 0 /\ Number(query[r], "page") <= 1 => NextRow(r) = 0
         /\ \E page \in Seq(Results(query[r])) :
              /\ got'[r] = got[r] \o page
              /\ reading'[r] = IF Len(page) < PageSize(query[r]) THEN "done" ELSE "reading"
              /\ \A i, j \in DOMAIN page : page[i] = page[j] => i = j
              /\ \A i \in DOMAIN page : page[i] \in Untied(query[r]) =>
                   /\ NextRow(r) <= Rank(query[r], page[i])
                   /\ Rank(query[r], page[i]) < NextRow(r) + PageSize(query[r])
              /\ \A c \in Results(query[r]) \intersect Untied(query[r]) :
                   /\ NextRow(r) <= Rank(query[r], c)
                      /\ Rank(query[r], c) < NextRow(r) + PageSize(query[r])
                      => \E i \in DOMAIN page : page[i] = c
                   /\ Len(page) < PageSize(query[r])
                      => Rank(query[r], c) < NextRow(r) + PageSize(query[r])
<1> DEFINE q == query[r]
           size == PageSize(q)
           from == NextRow(r)
           S == Results(q)
<1>1. /\ Offset(AskedPage(r), size) = from
      /\ from \in 0 .. IntMax
      /\ pages[r] = 0 /\ Number(query[r], "page") <= 1 => from = 0
  BY BeginsAt DEF ReadPage
<1>2. /\ q \in Queries /\ Accepted(q)
      /\ size \in 1 .. PageLimit.max
      /\ \E s \in Orders(q, {c \in Listed : Matches(q, c)}) :
           /\ got' = [got EXCEPT ![r] = @ \o Slice(s, from, size)]
           /\ reading' = [reading EXCEPT ![r] =
                            IF Len(Slice(s, from, size)) < size THEN "done" ELSE "reading"]
  BY <1>1, PageRead
<1>3. {c \in Listed : Matches(q, c)} = S
  BY DEF Results
<1>4. size \in Nat \ {0} /\ from \in Nat
  BY <1>1, <1>2, LimitAssumption DEF Limit
<1> HIDE DEF size, from, S
<1>5. PICK s \in Orders(q, S) :
           /\ got' = [got EXCEPT ![r] = @ \o Slice(s, from, size)]
           /\ reading' = [reading EXCEPT ![r] =
                            IF Len(Slice(s, from, size)) < size THEN "done" ELSE "reading"]
  BY <1>2, <1>3
<1> DEFINE page == Slice(s, from, size)
<1>6. S \subseteq Comics /\ s \in SetToSeqs(S) /\ \A d \in S : shelf[d] # "absent"
  BY DEF Orders, S, Results, Listed
<1>7. /\ s \in Seq(S)
      /\ \A i, j \in DOMAIN s : s[i] = s[j] => i = j
      /\ \A c \in S : \E i \in DOMAIN s : s[i] = c
  BY <1>6, Listing
<1>8. /\ page \in Seq(S)
      /\ Len(page) <= size
      /\ from + size <= Len(s) => Len(page) = size
      /\ from <= Len(s) /\ Len(s) <= from + size => Len(page) = Len(s) - from
      /\ Len(s) <= from => Len(page) = 0
      /\ \A i \in DOMAIN page : from + i \in DOMAIN s /\ page[i] = s[from + i]
  <2>1. from \in Nat /\ size \in Nat
    BY <1>4
  <2>2. page \in Seq(S) /\ Len(page) <= size
    BY <1>7, <2>1, Sliced
  <2>3. Len(s) \in Nat
    BY <1>7
  <2>4. /\ from + size <= Len(s) => Len(page) = size
        /\ from <= Len(s) /\ Len(s) <= from + size => Len(page) = Len(s) - from
        /\ Len(s) <= from => Len(page) = 0
    BY <1>7, <2>1, <2>2, <2>3, Sliced
  <2>5. \A i \in DOMAIN page : from + i \in DOMAIN s /\ page[i] = s[from + i]
    <3>1. PICK a \in Nat, b \in Nat : a = from /\ b = size
      BY <2>1
    <3>2. \A i \in DOMAIN Slice(s, a, b) : a + i \in DOMAIN s /\ Slice(s, a, b)[i] = s[a + i]
      BY <1>7, Sliced
    <3> QED
      BY <3>1, <3>2
  <2> QED
    BY <2>2, <2>4, <2>5
<1> HIDE DEF page
<1>9. /\ DOMAIN page = 1 .. Len(page) /\ Len(page) \in Nat
      /\ DOMAIN s = 1 .. Len(s) /\ Len(s) \in Nat
      /\ \A p \in DOMAIN s : s[p] \in S
  BY <1>7, <1>8
<1>10. got'[r] = got[r] \o page /\ reading'[r] = IF Len(page) < size THEN "done" ELSE "reading"
  BY <1>5 DEF CInv, TypeOK, ReadersOK, page
<1> DEFINE n == Len(page)
           m == Len(s)
<1>11. /\ n \in Nat /\ m \in Nat
       /\ \A i \in DOMAIN page : i \in 1 .. n /\ from + i \in 1 .. m
       /\ \A p \in 1 .. n : p \in DOMAIN page
       /\ \A p \in DOMAIN s : p \in 1 .. m
       /\ from + size <= m => n = size
       /\ from <= m /\ m <= from + size => n = m - from
       /\ m <= from => n = 0
       /\ n <= size
  BY <1>8, <1>9
<1> HIDE DEF n, m
<1>12. \A p \in DOMAIN s : s[p] \in Untied(q) => Rank(q, s[p]) = p - 1
  <2> SUFFICES ASSUME NEW p \in DOMAIN s, s[p] \in Untied(q)
               PROVE  Rank(q, s[p]) = p - 1
    OBVIOUS
  <2>1. \A d \in S \ {s[p]} : Before(q, s[p], d) \/ Before(q, d, s[p])
    BY <1>6 DEF Untied
  <2>2. Cardinality({d \in S : Before(q, d, s[p])}) = p - 1
    BY <1>2, <1>5, <1>6, <2>1, RankInOrder
  <2> QED
    BY <2>2 DEF Rank, S
<1>13. ASSUME NEW i \in DOMAIN page, page[i] \in Untied(q)
       PROVE  from <= Rank(q, page[i]) /\ Rank(q, page[i]) < from + size
  <2> DEFINE p == from + i
  <2>1. p \in DOMAIN s /\ page[i] = s[p]
    BY <1>8, <1>13
  <2>2. i \in 1 .. n /\ p = from + i
    BY <1>11, <1>13
  <2> HIDE DEF p
  <2>3. Rank(q, page[i]) = p - 1
    BY <1>12, <1>13, <2>1
  <2>4. from <= p - 1 /\ p - 1 < from + size
    BY <1>4, <1>11, <2>2
  <2> QED
    BY <2>3, <2>4
<1>14. ASSUME NEW c \in S, c \in Untied(q)
       PROVE  /\ from <= Rank(q, c) /\ Rank(q, c) < from + size => \E i \in DOMAIN page : page[i] = c
              /\ Len(page) < size => Rank(q, c) < from + size
  <2>1. PICK p \in DOMAIN s : s[p] = c
    BY <1>7
  <2>2. Rank(q, c) = p - 1 /\ p \in 1 .. m
    BY <1>11, <1>12, <1>14, <2>1
  <2>3. ASSUME from <= p - 1, p - 1 < from + size
        PROVE  \E i \in DOMAIN page : page[i] = c
    <3>1. PICK i \in Int : i = p - from
      BY <1>4, <2>2
    <3>2. i \in 1 .. n /\ from + i = p
      BY <1>4, <1>11, <2>2, <2>3, <3>1
    <3>3. i \in DOMAIN page
      BY <1>11, <3>2
    <3>4. page[i] = s[from + i]
      BY <1>8, <3>3
    <3> QED
      BY <2>1, <3>2, <3>3, <3>4
  <2>4. n < size => p - 1 < from + size
    BY <1>4, <1>11, <2>2
  <2> QED
    BY <2>2, <2>3, <2>4 DEF n
<1>15. \A i, j \in DOMAIN page : page[i] = page[j] => i = j
  <2> SUFFICES ASSUME NEW i \in DOMAIN page, NEW j \in DOMAIN page, page[i] = page[j]
               PROVE  i = j
    OBVIOUS
  <2>1. from + i = from + j
    BY <1>7, <1>8
  <2>2. i \in Int /\ j \in Int
    BY <1>11
  <2> QED
    BY <1>4, <2>1, <2>2, SameSummand
<1>16. /\ page \in Seq(S)
       /\ got'[r] = got[r] \o page
       /\ reading'[r] = IF Len(page) < size THEN "done" ELSE "reading"
       /\ \A i, j \in DOMAIN page : page[i] = page[j] => i = j
       /\ \A i \in DOMAIN page : page[i] \in Untied(q) =>
            from <= Rank(q, page[i]) /\ Rank(q, page[i]) < from + size
       /\ \A c \in S \intersect Untied(q) :
            /\ from <= Rank(q, c) /\ Rank(q, c) < from + size => \E i \in DOMAIN page : page[i] = c
            /\ Len(page) < size => Rank(q, c) < from + size
  BY <1>8, <1>10, <1>13, <1>14, <1>15
<1> QED
  BY <1>1, <1>16 DEF size, from, S

At(s, U) == {i \in DOMAIN s : s[i] \in U}
Values(s, A) == {s[i] : i \in A}

\* A reader's pages with one more.
Joined(s, page) == s \o page

LEMMA JoinedPages ==
  ASSUME NEW C, NEW s \in Seq(C), NEW page \in Seq(C), NEW t, t = Joined(s, page)
  PROVE  /\ s \in Seq(C) /\ page \in Seq(C) /\ t \in Seq(C)
         /\ \A i \in DOMAIN s : i \in DOMAIN t /\ t[i] = s[i]
         /\ \A i \in DOMAIN page : \E j \in DOMAIN t : t[j] = page[i]
         /\ \A j \in DOMAIN t : \/ j \in DOMAIN s /\ t[j] = s[j]
                                \/ \E i \in DOMAIN page : t[j] = page[i]
<1> USE DEF Joined
<1>1. PICK m \in Nat, n \in Nat : m = Len(s) /\ n = Len(page)
  OBVIOUS
<1>2. DOMAIN s = 1 .. m /\ DOMAIN page = 1 .. n /\ DOMAIN t = 1 .. m + n /\ t \in Seq(C)
  BY <1>1
<1>3. /\ \A i \in 1 .. m : t[i] = s[i]
      /\ \A i \in 1 .. m + n : ~(i <= m) => t[i] = page[i - m]
  BY <1>1
<1>4. \A i \in 1 .. m + n : i \in 1 .. m \/ (~(i <= m) /\ i - m \in 1 .. n)
  BY <1>1
<1>5. \A i \in 1 .. n : m + i \in 1 .. m + n /\ ~(m + i <= m) /\ (m + i) - m = i
  BY <1>1
<1>6. \A i \in 1 .. m : i \in 1 .. m + n
  BY <1>1
<1>7. \A i \in DOMAIN page : \E j \in DOMAIN t : t[j] = page[i]
  BY <1>2, <1>3, <1>5
<1>8. \A j \in DOMAIN t : \/ j \in DOMAIN s /\ t[j] = s[j]
                          \/ \E i \in DOMAIN page : t[j] = page[i]
  BY <1>2, <1>3, <1>4
<1> QED
  BY <1>2, <1>3, <1>6, <1>7, <1>8

\* A page shows each comic once, so only those seen before count twice.
LEMMA PageAdds ==
  ASSUME NEW C, IsFiniteSet(C), NEW U, NEW s \in Seq(C), NEW page \in Seq(C),
         \A i, j \in DOMAIN page : page[i] = page[j] => i = j
  PROVE  LET t == Joined(s, page)
             A == At(s, U)
             B == At(t, U)
             P == Values(page, At(page, U))
             S == Values(s, A)
         IN  /\ Values(t, B) = S \union P
             /\ Cardinality(B) = Cardinality(A) + Cardinality(P)
             /\ Cardinality(S \union P) + Cardinality(S \intersect P) = Cardinality(S) + Cardinality(P)
             /\ Cardinality(A) \in Nat /\ Cardinality(B) \in Nat
             /\ Cardinality(P) \in Nat /\ Cardinality(S) \in Nat
             /\ Cardinality(S \union P) \in Nat /\ Cardinality(S \intersect P) \in Nat
             /\ IsFiniteSet(S \intersect P)
<1> DEFINE t == Joined(s, page)
           A == At(s, U)
           B == At(t, U)
           P == Values(page, At(page, U))
           S == Values(s, A)
<1> SUFFICES /\ Values(t, B) = S \union P
             /\ Cardinality(B) = Cardinality(A) + Cardinality(P)
             /\ Cardinality(S \union P) + Cardinality(S \intersect P) = Cardinality(S) + Cardinality(P)
             /\ Cardinality(A) \in Nat /\ Cardinality(B) \in Nat
             /\ Cardinality(P) \in Nat /\ Cardinality(S) \in Nat
             /\ Cardinality(S \union P) \in Nat /\ Cardinality(S \intersect P) \in Nat
             /\ IsFiniteSet(S \intersect P)
  OBVIOUS
<1> HIDE DEF A, B, P, S, t
<1>1. PICK m \in Nat, n \in Nat : m = Len(s) /\ n = Len(page)
  OBVIOUS
<1>2. DOMAIN s = 1 .. m /\ DOMAIN page = 1 .. n
  BY <1>1
<1>3. /\ t \in Seq(C)
      /\ DOMAIN t = 1 .. m + n
      /\ \A i \in 1 .. m : t[i] = s[i]
      /\ \A i \in 1 .. m + n : ~(i <= m) => t[i] = page[i - m]
  <2> USE DEF Joined, t
  <2>1. t \in Seq(C)
    OBVIOUS
  <2>2. /\ Len(t) = m + n
        /\ \A i \in 1 .. m : t[i] = s[i]
        /\ \A i \in 1 .. m + n : ~(i <= m) => t[i] = page[i - m]
    BY <1>1
  <2> QED
    BY <2>1, <2>2
<1>4. \A i \in 1 .. m + n : i \in 1 .. m \/ (~(i <= m) /\ i - m \in 1 .. n)
  BY <1>1
<1>5. \A i \in 1 .. n : m + i \in 1 .. m + n /\ ~(m + i <= m) /\ (m + i) - m = i
  BY <1>1
<1>6. \A i \in 1 .. m : i \in 1 .. m + n
  BY <1>1
<1>7. A = {i \in 1 .. m : t[i] \in U} /\ B = {i \in 1 .. m + n : t[i] \in U}
  BY <1>2, <1>3 DEF At, A, B
<1>8. \A i \in 1 .. n : t[m + i] = page[i]
  BY <1>3, <1>5
<1>9. A \subseteq B /\ B \ A = {i \in 1 .. m + n : ~(i <= m) /\ t[i] \in U}
  <2>1. A \subseteq B
    BY <1>6, <1>7
  <2>2. \A i \in 1 .. m + n : (i \in 1 .. m <=> i <= m)
    BY <1>1
  <2>3. B \ A = {i \in 1 .. m + n : ~(i <= m) /\ t[i] \in U}
    BY <1>6, <1>7, <2>2
  <2> QED
    BY <2>1, <2>3
<1>10. \A i \in B \ A : i \in Int /\ i - m \in 1 .. n /\ t[i] = page[i - m] /\ t[i] \in U
  <2> SUFFICES ASSUME NEW i \in B \ A
               PROVE  i \in Int /\ i - m \in 1 .. n /\ t[i] = page[i - m] /\ t[i] \in U
    OBVIOUS
  <2>1. i \in 1 .. m + n /\ ~(i <= m) /\ t[i] \in U
    BY <1>9
  <2>2. i \in Int /\ i - m \in 1 .. n
    BY <1>1, <2>1
  <2> QED
    BY <1>3, <2>1, <2>2
<1>11. \A i \in 1 .. n : page[i] \in U => m + i \in B \ A
  BY <1>5, <1>8, <1>9
<1> DEFINE f == [i \in B \ A |-> t[i]]
<1>12. f \in Injection(B \ A, P) /\ f \in Surjection(B \ A, P)
  <2>1. \A i \in B \ A : f[i] \in P
    BY <1>2, <1>10 DEF Values, At, P
  <2>2. \A i, j \in B \ A : f[i] = f[j] => i = j
    <3> SUFFICES ASSUME NEW i \in B \ A, NEW j \in B \ A, f[i] = f[j]
                 PROVE  i = j
      OBVIOUS
    <3>1. i - m = j - m
      BY <1>2, <1>10
    <3>2. i \in Int /\ j \in Int
      BY <1>10
    <3> QED
      BY <3>1, <3>2
  <2>3. \A x \in P : \E i \in B \ A : f[i] = x
    <3> SUFFICES ASSUME NEW x \in P
                 PROVE  \E i \in B \ A : f[i] = x
      OBVIOUS
    <3>1. PICK i \in 1 .. n : page[i] \in U /\ page[i] = x
      BY <1>2 DEF Values, At, P
    <3> QED
      BY <1>8, <1>11, <3>1
  <2> QED
    <3>1. f \in [B \ A -> P] /\ DOMAIN f = B \ A
      BY <2>1
    <3> HIDE DEF f
    <3>2. f \in Injection(B \ A, P)
      BY <2>2, <3>1 DEF Injection, IsInjective
    <3>3. f \in Surjection(B \ A, P)
      BY <2>3, <3>1 DEF Surjection
    <3> QED
      BY <3>2, <3>3
<1>13. IsFiniteSet(B)
  <2>1. IsFiniteSet(1 .. m + n)
    BY <1>1, FS_Interval
  <2> QED
    BY <1>7, <2>1, FS_Subset
<1>14. /\ IsFiniteSet(A) /\ IsFiniteSet(B \ A)
       /\ Cardinality(B) = Cardinality(A) + Cardinality(B \ A)
       /\ Cardinality(A) \in Nat /\ Cardinality(B) \in Nat
  BY <1>9, <1>13, Difference
<1>15. Cardinality(B \ A) = Cardinality(P)
  BY <1>12, <1>14, FS_Surjection
<1>16. Values(t, B) = S \union P
  <2>1. \A x : x \in Values(t, B) <=> \E i \in B : t[i] = x
    BY DEF Values
  <2>2. \A x : x \in S <=> \E i \in A : s[i] = x
    BY DEF Values, S
  <2>3. \A x : x \in P <=> \E i \in 1 .. n : page[i] \in U /\ page[i] = x
    BY <1>2 DEF Values, At, P
  <2>4. \A i \in A : t[i] = s[i]
    BY <1>3, <1>7
  <2>5. ASSUME NEW x \in Values(t, B)
        PROVE  x \in S \union P
    <3>1. PICK i \in B : t[i] = x
      BY <2>1
    <3>2. CASE i \in A
      <4>1. s[i] = x
        BY <2>4, <3>1, <3>2
      <4> QED
        BY <2>2, <3>2, <4>1
    <3>3. CASE i \notin A
      <4>1. i \in B \ A
        BY <3>3
      <4>2. i - m \in 1 .. n /\ page[i - m] = x /\ page[i - m] \in U
        BY <1>10, <3>1, <4>1
      <4> QED
        BY <2>3, <4>2
    <3> QED
      BY <3>2, <3>3
  <2>6. ASSUME NEW x \in S
        PROVE  x \in Values(t, B)
    <3>1. PICK i \in A : s[i] = x
      BY <2>2
    <3>2. i \in B /\ t[i] = x
      BY <1>9, <2>4, <3>1
    <3> QED
      BY <2>1, <3>2
  <2>7. ASSUME NEW x \in P
        PROVE  x \in Values(t, B)
    <3>1. PICK i \in 1 .. n : page[i] \in U /\ page[i] = x
      BY <2>3
    <3>2. m + i \in B /\ t[m + i] = x
      BY <1>8, <1>11, <3>1
    <3> QED
      BY <2>1, <3>2
  <2> QED
    BY <2>5, <2>6, <2>7
<1>17. S \subseteq C /\ P \subseteq C
  <2>1. \A i \in DOMAIN s : s[i] \in C
    OBVIOUS
  <2>2. \A i \in DOMAIN page : page[i] \in C
    OBVIOUS
  <2> QED
    BY <1>2, <2>1, <2>2 DEF Values, At, A, P, S
<1>18. IsFiniteSet(S) /\ IsFiniteSet(P)
  BY <1>17, FS_Subset
<1>19. /\ IsFiniteSet(S \union P)
       /\ Cardinality(S \union P) = Cardinality(S) + Cardinality(P) - Cardinality(S \intersect P)
  BY <1>18, FS_Union
<1>20. IsFiniteSet(S \intersect P)
  BY <1>18, FS_Intersection
<1>21. /\ Cardinality(P) \in Nat /\ Cardinality(S) \in Nat
       /\ Cardinality(S \union P) \in Nat /\ Cardinality(S \intersect P) \in Nat
  BY <1>18, <1>19, <1>20, FS_CardinalityType
<1>22. Cardinality(S \union P) + Cardinality(S \intersect P) = Cardinality(S) + Cardinality(P)
  BY <1>19, <1>21
<1> QED
  BY <1>14, <1>15, <1>16, <1>20, <1>21, <1>22

LEMMA ReadKeepsPages ==
  ASSUME CInv, NEW r \in Readers, ReadPage(r), PagesOK(r)
  PROVE  PagesOK(r)'
<1>1. PICK q \in Queries, n \in 0 .. IntMax, size \in Nat \ {0} :
        /\ q = query[r] /\ q = query'[r]
        /\ n = NextRow(r)
        /\ size = PageSize(q)
  <2>1. PageSize(query[r]) \in Nat \ {0}
    BY Asked, LimitAssumption DEF Limit
  <2>2. query[r] \in Queries /\ query'[r] = query[r]
    BY ReadersSets DEF ReadPage
  <2>3. NextRow(r) \in 0 .. IntMax
    BY OnPage DEF PagesOK
  <2> QED
    BY <2>1, <2>2, <2>3
<1>2. /\ pages' = [pages EXCEPT ![r] = @ + 1]
      /\ kept' = [kept EXCEPT ![r] = IF pages[r] = 0 THEN Listed ELSE @]
      /\ UNCHANGED <<shelf, created, query, added, removed>>
      /\ reading[r] \in {"idle", "reading"}
  BY DEF ReadPage, rows
<1>3. /\ pages[r] \in Nat /\ pages'[r] = pages[r] + 1
      /\ kept'[r] = IF pages[r] = 0 THEN Listed ELSE kept[r]
      /\ added'[r] = added[r] /\ removed'[r] = removed[r]
  BY <1>2 DEF CInv, ReadersOK, TypeOK
<1>4. PICK U : U = Untied(q) /\ U = Untied(q)'
  BY <1>2 DEF Untied, Before
<1>5. Listed' = Listed /\ \A c : Rank(q, c)' = Rank(q, c)
  BY <1>2 DEF Listed, Rank, Results, Before
<1>6. PICK page \in Seq(Results(q)) :
        /\ got'[r] = got[r] \o page
        /\ reading'[r] = IF Len(page) < size THEN "done" ELSE "reading"
        /\ \A i, j \in DOMAIN page : page[i] = page[j] => i = j
        /\ \A i \in DOMAIN page : page[i] \in U => n <= Rank(q, page[i]) /\ Rank(q, page[i]) < n + size
        /\ \A c \in Results(q) \intersect U :
             /\ n <= Rank(q, c) /\ Rank(q, c) < n + size => \E i \in DOMAIN page : page[i] = c
             /\ Len(page) < size => Rank(q, c) < n + size
  <2>1. PICK page \in Seq(Results(query[r])) :
              /\ got'[r] = got[r] \o page
              /\ reading'[r] = IF Len(page) < PageSize(query[r]) THEN "done" ELSE "reading"
              /\ \A i, j \in DOMAIN page : page[i] = page[j] => i = j
              /\ \A i \in DOMAIN page : page[i] \in Untied(query[r]) =>
                   /\ NextRow(r) <= Rank(query[r], page[i])
                   /\ Rank(query[r], page[i]) < NextRow(r) + PageSize(query[r])
              /\ \A c \in Results(query[r]) \intersect Untied(query[r]) :
                   /\ NextRow(r) <= Rank(query[r], c)
                      /\ Rank(query[r], c) < NextRow(r) + PageSize(query[r])
                      => \E i \in DOMAIN page : page[i] = c
                   /\ Len(page) < PageSize(query[r])
                      => Rank(query[r], c) < NextRow(r) + PageSize(query[r])
    BY OnPage DEF PagesOK
  <2> QED
    BY <1>1, <1>4, <2>1
<1>7. FirstRow(r)' = FirstRow(r) /\ NextRow(r)' = n + size
  <2>1. PICK a \in Nat : a = pages[r]
    BY <1>3
  <2>2. (a + 1) * size = a * size + size /\ a * size \in Nat
    OBVIOUS
  <2>3. FirstRow(r)' = FirstRow(r)
    BY <1>1 DEF FirstRow
  <2>4. PICK f : f = FirstRow(r) /\ n = f + a * size /\ NextRow(r)' = f + (a + 1) * size
    BY <1>1, <1>3, <2>1, <2>3 DEF NextRow
  <2>5. FirstRow(r) \in Int
    BY ReadersSets, FirstRowIsInt
  <2> QED
    BY <2>2, <2>3, <2>4, <2>5
<1>8. RowsOK(r)'
  <2>1. FirstRow(r)' >= 0
    <3>1. CASE pages[r] = 0
      <4>1. NextRow(r) = FirstRow(r)
        BY <1>1, <3>1, FirstRowIsInt DEF NextRow
      <4> QED
        BY <1>1, <1>7, <4>1
    <3>2. CASE pages[r] # 0
      BY <1>3, <1>7, <3>2 DEF PagesOK, RowsOK
    <3> QED
      BY <3>1, <3>2
  <2>2. NextRow(r)' - PageSize(query[r])' <= IntMax
    BY <1>1, <1>7, LimitAssumption
  <2> QED
    BY <2>1, <2>2 DEF RowsOK
<1>9. \A i \in DOMAIN page : page[i] \in Results(q) /\ page[i] \in Comics /\ page[i] \in Listed
                             /\ shelf[page[i]] # "absent"
  <2>1. \A i \in DOMAIN page : page[i] \in Results(q)
    BY <1>6
  <2> QED
    BY <2>1 DEF Results, Listed
<1>10. /\ got[r] \in Seq(Comics) /\ page \in Seq(Comics) /\ got'[r] \in Seq(Comics)
       /\ \A i \in DOMAIN got[r] : i \in DOMAIN got'[r] /\ got'[r][i] = got[r][i]
       /\ \A i \in DOMAIN page : \E j \in DOMAIN got'[r] : got'[r][j] = page[i]
       /\ \A j \in DOMAIN got'[r] : \/ j \in DOMAIN got[r] /\ got'[r][j] = got[r][j]
                                    \/ \E i \in DOMAIN page : got'[r][j] = page[i]
  <2>1. got[r] \in Seq(Comics)
    BY ReadersSets
  <2>2. page \in Seq(Comics)
    <3>1. Results(q) \subseteq Comics
      BY DEF Results, Listed
    <3> QED
      BY <1>6, <3>1
  <2>3. PICK s, t : s \in Seq(Comics) /\ s = got[r] /\ t = got'[r] /\ t = Joined(s, page)
    BY <1>6, <2>1 DEF Joined
  <2>4. /\ t \in Seq(Comics)
        /\ \A i \in DOMAIN s : i \in DOMAIN t /\ t[i] = s[i]
        /\ \A i \in DOMAIN page : \E j \in DOMAIN t : t[j] = page[i]
        /\ \A j \in DOMAIN t : \/ j \in DOMAIN s /\ t[j] = s[j]
                               \/ \E i \in DOMAIN page : t[j] = page[i]
    BY <2>2, <2>3, JoinedPages
  <2> QED
    BY <2>2, <2>3, <2>4
<1>11. \A c : c \in ToSet(got'[r]) <=> c \in ToSet(got[r]) \/ \E i \in DOMAIN page : page[i] = c
  <2>1. \A c : c \in ToSet(got'[r]) <=> \E j \in DOMAIN got'[r] : got'[r][j] = c
    BY DEF ToSet
  <2>2. \A c : c \in ToSet(got[r]) <=> \E j \in DOMAIN got[r] : got[r][j] = c
    BY DEF ToSet
  <2>3. PICK s, t : s = got[r] /\ t = got'[r]
    OBVIOUS
  <2>4. /\ \A i \in DOMAIN s : i \in DOMAIN t /\ t[i] = s[i]
        /\ \A i \in DOMAIN page : \E j \in DOMAIN t : t[j] = page[i]
        /\ \A j \in DOMAIN t : \/ j \in DOMAIN s /\ t[j] = s[j]
                               \/ \E i \in DOMAIN page : t[j] = page[i]
    BY <1>10, <2>3
  <2>5. \A c : (\E j \in DOMAIN t : t[j] = c)
                 <=> (\E j \in DOMAIN s : s[j] = c) \/ \E i \in DOMAIN page : page[i] = c
    BY <2>4, Zenon
  <2> QED
    BY <2>1, <2>2, <2>3, <2>5
<1>12. \A i \in DOMAIN got'[r] : shelf'[got'[r][i]] # "absent"
  <2> SUFFICES ASSUME NEW j \in DOMAIN got'[r]
               PROVE  shelf'[got'[r][j]] # "absent"
    OBVIOUS
  <2>1. CASE j \in DOMAIN got[r] /\ got'[r][j] = got[r][j]
    BY <1>2, <2>1 DEF PagesOK
  <2>2. CASE \E i \in DOMAIN page : got'[r][j] = page[i]
    BY <1>2, <1>9, <2>2
  <2> QED
    BY <1>10, <2>1, <2>2
<1>13. kept'[r] \subseteq Listed' /\ kept'[r] \subseteq Listed
  BY <1>3, <1>5 DEF PagesOK
<1>14. ASSUME NEW c \in Missed(r)'
       PROVE  c \in Results(q) \intersect U /\ c \in kept'[r] /\ c \notin ToSet(got'[r])
  BY <1>1, <1>4, <1>13, <1>14 DEF Missed, Results
<1>15. ASSUME Number(q, "page") <= 1
       PROVE  Passed(r)' \subseteq Passed(r)
  <2> SUFFICES ASSUME NEW c \in Passed(r)'
               PROVE  c \in Passed(r)
    OBVIOUS
  <2>1. c \in Missed(r)' /\ Rank(q, c) < n + size
    BY <1>1, <1>5, <1>7 DEF Passed
  <2>2. Rank(q, c) \in Nat
    BY ResultsAreFinite
  <2>3. ~(n <= Rank(q, c))
    BY <1>6, <1>11, <1>14, <2>1
  <2>4. Rank(q, c) < n
    BY <2>2, <2>3
  <2>5. n # 0
    BY <2>2, <2>4
  <2>6. pages[r] # 0
    BY <1>1, <1>15, <2>5, OnPage DEF PagesOK
  <2>7. c \in kept[r] /\ c \notin ToSet(got[r])
    BY <1>3, <1>11, <1>14, <2>1, <2>6
  <2>8. Matches(q, c) /\ c \in U
    BY <1>14, <2>1 DEF Results
  <2> QED
    BY <1>1, <1>4, <2>4, <2>7, <2>8 DEF Passed, Missed
<1>16. ASSUME reading'[r] = "done"
       PROVE  Missed(r)' \subseteq Passed(r)'
  <2> SUFFICES ASSUME NEW c \in Missed(r)'
               PROVE  c \in Passed(r)'
    OBVIOUS
  <2>1. Rank(q, c) < n + size
    BY <1>6, <1>14, <1>16
  <2> QED
    BY <1>1, <1>5, <1>7, <2>1 DEF Passed
<1>17. /\ IsFiniteSet(Passed(r)) /\ Cardinality(Passed(r)) \in Nat
       /\ removed[r] \in Nat /\ added[r] \in Nat
       /\ IsFiniteSet(PushedBack(r)) /\ Cardinality(PushedBack(r)) \in Nat
  BY ReadersSets
<1>18. Number(q, "page") <= 1 => LossesOK(r)'
  <2> SUFFICES ASSUME Number(q, "page") <= 1
               PROVE  LossesOK(r)'
    OBVIOUS
  <2>1. Cardinality(Passed(r)) <= removed[r]
    BY <1>1, <1>2 DEF PagesOK, LossesOK
  <2>2. IsFiniteSet(Passed(r)') /\ Cardinality(Passed(r)') <= Cardinality(Passed(r))
    BY <1>15, <1>17, FS_Subset
  <2>3. Cardinality(Passed(r)') \in Nat
    BY <2>2, FS_CardinalityType
  <2> QED
    BY <1>3, <1>17, <2>1, <2>2, <2>3 DEF LossesOK
<1>19. ASSUME reading'[r] = "done", Number(q, "page") <= 1
       PROVE  Cardinality(Missed(r)') <= removed'[r]
  <2>1. IsFiniteSet(Passed(r)')
    BY <1>15, <1>17, <1>19, FS_Subset
  <2>2. IsFiniteSet(Missed(r)') /\ Cardinality(Missed(r)') <= Cardinality(Passed(r)')
    BY <1>16, <1>19, <2>1, FS_Subset
  <2>3. Cardinality(Missed(r)') \in Nat /\ Cardinality(Passed(r)') \in Nat
    BY <2>1, <2>2, FS_CardinalityType
  <2>4. Cardinality(Passed(r)') <= removed'[r]
    BY <1>18, <1>19 DEF LossesOK
  <2> QED
    BY <1>3, <1>17, <2>2, <2>3, <2>4
<1>20. RepeatsOK(r)' /\ Cardinality(UntiedAt(r)') <= Cardinality(UntiedSeen(r)') + added'[r]
  <2>1. PICK s \in Seq(Comics) : s = got[r] /\ Joined(s, page) = got'[r]
    BY <1>6, <1>10 DEF Joined
  <2> DEFINE t == Joined(s, page)
             A == At(s, U)
             B == At(t, U)
             P == Values(page, At(page, U))
             S == Values(s, A)
             K == PushedBack(r)
             L == PushedBack(r)'
  <2>2. /\ UntiedAt(r) = A /\ UntiedAt(r)' = B
        /\ UntiedSeen(r) = S /\ UntiedSeen(r)' = Values(t, B)
    BY <1>1, <1>4, <2>1 DEF UntiedAt, UntiedSeen, At, Values
  <2>3. \A c \in P : c \in Listed /\ n <= Rank(q, c) /\ Rank(q, c) < n + size
    BY <1>6, <1>9 DEF At, Values
  <2>4. \A c : Rank(q, c) \in Nat
    BY ResultsAreFinite
  <2> HIDE DEF A, B, P, S, t
  <2>5. /\ Values(t, B) = S \union P
        /\ Cardinality(B) = Cardinality(A) + Cardinality(P)
        /\ Cardinality(S \union P) + Cardinality(S \intersect P) = Cardinality(S) + Cardinality(P)
        /\ Cardinality(A) \in Nat /\ Cardinality(B) \in Nat
        /\ Cardinality(P) \in Nat /\ Cardinality(S) \in Nat
        /\ Cardinality(S \union P) \in Nat /\ Cardinality(S \intersect P) \in Nat
        /\ IsFiniteSet(S \intersect P)
    <3>1. page \in Seq(Comics) /\ IsFiniteSet(Comics)
          /\ \A i, j \in DOMAIN page : page[i] = page[j] => i = j
      BY <1>6, <1>10, CatalogAssumption
    <3> QED
      BY <3>1, PageAdds DEF A, B, P, S, t
  <2>6. S \intersect P \subseteq K
    BY <1>1, <2>2, <2>3 DEF PushedBack, K
  <2>7. L \subseteq K \ (S \intersect P)
    <3> SUFFICES ASSUME NEW c \in L
                 PROVE  c \in K /\ c \notin P
      OBVIOUS
    <3>1. c \in S \union P /\ c \in Listed /\ Rank(q, c) >= n + size
      BY <1>1, <1>5, <1>7, <2>2, <2>5 DEF PushedBack, L
    <3>2. c \notin P /\ Rank(q, c) >= n
      BY <2>3, <2>4, <3>1
    <3> QED
      BY <1>1, <2>2, <3>1, <3>2 DEF PushedBack, K
  <2>8. IsFiniteSet(K) /\ Cardinality(K) \in Nat
    BY <1>17
  <2>9. Cardinality(A) + Cardinality(K) <= Cardinality(S) + added[r]
    BY <1>2, <2>2 DEF PagesOK, RepeatsOK, K
  <2> HIDE DEF K, L
  <2>10. /\ Cardinality(K) = Cardinality(S \intersect P) + Cardinality(K \ (S \intersect P))
         /\ IsFiniteSet(K \ (S \intersect P)) /\ Cardinality(K \ (S \intersect P)) \in Nat
    BY <2>6, <2>8, Difference
  <2>11. /\ Cardinality(L) <= Cardinality(K \ (S \intersect P))
         /\ Cardinality(L) \in Nat
    BY <2>7, <2>10, FS_Subset, FS_CardinalityType
  <2>12. Cardinality(B) + Cardinality(L) <= Cardinality(S \union P) + added[r]
    <3> DEFINE b == Cardinality(B)
               a == Cardinality(A)
               p == Cardinality(P)
               s0 == Cardinality(S)
               u == Cardinality(S \union P)
               i == Cardinality(S \intersect P)
               k == Cardinality(K)
               d == Cardinality(K \ (S \intersect P))
               l == Cardinality(L)
               e == added[r]
    <3>1. /\ b \in Nat /\ a \in Nat /\ p \in Nat /\ s0 \in Nat /\ u \in Nat /\ i \in Nat
          /\ k \in Nat /\ d \in Nat /\ l \in Nat /\ e \in Nat
      BY <1>17, <2>5, <2>8, <2>10, <2>11
    <3>2. b = a + p /\ u + i = s0 + p
      BY <2>5
    <3>3. a + k <= s0 + e /\ k = i + d /\ l <= d
      BY <2>9, <2>10, <2>11
    <3> HIDE DEF b, a, p, s0, u, i, k, d, l, e
    <3>4. b + l <= u + e
      BY <3>1, <3>2, <3>3
    <3> QED
      BY <3>4 DEF b, l, u, e
  <2>13. Cardinality(B) <= Cardinality(S \union P) + added[r]
    <3> DEFINE b == Cardinality(B)
               u == Cardinality(S \union P)
               l == Cardinality(L)
               e == added[r]
    <3>1. b \in Nat /\ u \in Nat /\ l \in Nat /\ e \in Nat /\ b + l <= u + e
      BY <1>17, <2>5, <2>11, <2>12
    <3> HIDE DEF b, u, l, e
    <3>2. b <= u + e
      BY <3>1
    <3> QED
      BY <3>2 DEF b, u, e
  <2> QED
    BY <1>3, <2>2, <2>5, <2>12, <2>13 DEF RepeatsOK, L
<1>21. reading'[r] # "idle" /\ pages'[r] # 0
  BY <1>3, <1>6
<1> QED
  BY <1>1, <1>8, <1>12, <1>13, <1>18, <1>19, <1>20, <1>21 DEF PagesOK

LEMMA ReaderStops ==
  ASSUME CInv, NEW r \in Readers, PagesOK(r), QueryRejected(r) \/ RefuseQuery(r)
  PROVE  PagesOK(r)'
<1>1. UNCHANGED <<shelf, created, query, pages, got, kept, added, removed>>
  BY DEF QueryRejected, RefuseQuery, rows, history
<1>2. reading'[r] \in {"failed", "refused"}
  BY DEF QueryRejected, RefuseQuery, CInv, TypeOK
<1>3. /\ UntiedAt(r)' = UntiedAt(r) /\ UntiedSeen(r)' = UntiedSeen(r)
      /\ Listed' = Listed /\ (RowsOK(r) => RowsOK(r)')
  BY <1>1 DEF UntiedAt, UntiedSeen, Untied, Before, Listed, RowsOK, NextRow, FirstRow
<1> QED
  BY <1>1, <1>2, <1>3 DEF PagesOK

\* A reader is where it was if nothing of it or of the rows has changed.
LEMMA NothingRead ==
  ASSUME NEW r \in Readers, PagesOK(r), UNCHANGED rows,
         query'[r] = query[r], reading'[r] = reading[r], pages'[r] = pages[r],
         got'[r] = got[r], kept'[r] = kept[r], added'[r] = added[r], removed'[r] = removed[r]
  PROVE  PagesOK(r)'
<1>1. shelf' = shelf /\ created' = created
  BY DEF rows
<1>2. Listed' = Listed /\ Untied(query[r])' = Untied(query[r])
  BY <1>1 DEF Listed, Untied, Before
<1>3. \A c : Rank(query[r], c)' = Rank(query[r], c)
  BY <1>1 DEF Rank, Results, Listed, Before
<1>4. RowsOK(r)' /\ NextRow(r)' = NextRow(r)
  BY DEF PagesOK, RowsOK, NextRow, FirstRow
<1>5. UntiedAt(r)' = UntiedAt(r) /\ UntiedSeen(r)' = UntiedSeen(r)
  BY <1>2 DEF UntiedAt, UntiedSeen
<1>6. Missed(r)' = Missed(r)
  BY <1>2 DEF Missed
<1>7. Passed(r)' = Passed(r) /\ PushedBack(r)' = PushedBack(r)
  BY <1>2, <1>3, <1>4, <1>5, <1>6 DEF Passed, PushedBack
<1> QED
  BY <1>1, <1>2, <1>4, <1>5, <1>6, <1>7 DEF PagesOK, LossesOK, RepeatsOK

PagesInv == \A r \in Readers : PagesOK(r)

LEMMA PagesInit ==
  ASSUME Init, CInv
  PROVE  PagesInv
<1> SUFFICES ASSUME NEW r \in Readers
             PROVE  PagesOK(r)
  BY DEF PagesInv
<1>1. /\ reading[r] = "idle" /\ pages[r] = 0 /\ got[r] = <<>> /\ kept[r] = {}
      /\ added[r] = 0 /\ removed[r] = 0
  BY DEF Init
<1>2. DOMAIN got[r] = {}
  BY <1>1
<1>3. UntiedAt(r) = {} /\ UntiedSeen(r) = {} /\ PushedBack(r) = {} /\ Passed(r) = {}
  BY <1>1, <1>2 DEF UntiedAt, UntiedSeen, PushedBack, Passed, Missed
<1>4. Cardinality({}) = 0
  BY FS_EmptySet
<1> QED
  BY <1>1, <1>2, <1>3, <1>4 DEF PagesOK, RowsOK, RepeatsOK, LossesOK

LEMMA PagesStep ==
  ASSUME CInv, PagesInv, [Next]_vars
  PROVE  PagesInv'
<1> SUFFICES ASSUME NEW r \in Readers
             PROVE  PagesOK(r)'
  BY DEF PagesInv
<1>1. PagesOK(r)
  BY DEF PagesInv
<1>2. CASE \E c \in Comics : AddComic(c)
  BY <1>1, <1>2, AddKeepsPages
<1>3. CASE \E c \in Comics : \E how \in {"deleted", "gone"} : RemoveComic(c, how)
  BY <1>1, <1>3, RemoveKeepsPages
<1>4. CASE ReadPage(r)
  BY <1>1, <1>4, ReadKeepsPages
<1>5. CASE QueryRejected(r) \/ RefuseQuery(r)
  BY <1>1, <1>5, ReaderStops
<1>6. ASSUME NEW x \in Readers \ {r}, ReadPage(x) \/ QueryRejected(x) \/ RefuseQuery(x)
      PROVE  PagesOK(r)'
  <2>1. UNCHANGED rows /\ UNCHANGED <<query, added, removed>>
    BY <1>6 DEF ReadPage, QueryRejected, RefuseQuery, history
  <2>2. kept'[r] = kept[r] /\ pages'[r] = pages[r] /\ reading'[r] = reading[r] /\ got'[r] = got[r]
    <3>1. /\ kept \in [Readers -> SUBSET Comics] /\ pages \in [Readers -> Nat]
          /\ got \in [Readers -> Seq(Comics)]
          /\ reading \in [Readers -> {"idle", "reading", "done", "refused", "failed"}]
      BY DEF CInv, TypeOK, ReadersOK
    <3>2. CASE ReadPage(x)
      BY <1>6, <3>1, <3>2 DEF ReadPage
    <3>3. CASE QueryRejected(x)
      BY <1>6, <3>1, <3>3 DEF QueryRejected, history
    <3>4. CASE RefuseQuery(x)
      BY <1>6, <3>1, <3>4 DEF RefuseQuery, history
    <3> QED
      BY <1>6, <3>2, <3>3, <3>4
  <2> QED
    BY <1>1, <2>1, <2>2, NothingRead
<1>7. ASSUME UNCHANGED <<rows, readers, history>>
      PROVE  PagesOK(r)'
  <2>1. UNCHANGED rows /\ UNCHANGED <<query, reading, pages, got, kept, added, removed>>
    BY <1>7 DEF readers, history
  <2> QED
    BY <1>1, <2>1, NothingRead
<1>8. CASE \E k \in Calls : Find(k) \/ ListChapters(k) \/ RecommendByComic(k) \/ Unavailable(k)
  BY <1>7, <1>8 DEF Find, ListChapters, RecommendByComic, Unavailable
<1>9. CASE UNCHANGED vars
  BY <1>7, <1>9 DEF vars
<1> QED
  BY <1>2, <1>3, <1>4, <1>5, <1>6, <1>8, <1>9 DEF Next

LEMMA PagesInvariant == Spec => []PagesInv
<1>1. Init => CInv
  BY InitOK
<1>2. Init /\ CInv => PagesInv
  BY PagesInit
<1>3. CInv /\ PagesInv /\ [Next]_vars => PagesInv'
  BY PagesStep
<1> QED
  BY <1>1, <1>2, <1>3, Invariant, PTL DEF Spec

(***************************************************************************)
(* However many pages, edits and readers there are, a reader that comes to *)
(* the end has missed at most one comic for each one that was removed.     *)
(***************************************************************************)
THEOREM LittleIsLost == Spec => []PagesLoseLittle
<1>1. ASSUME CInv, PagesInv, NEW r \in Readers,
             reading[r] = "done", Number(query[r], "page") <= 1
      PROVE  Cardinality({c \in kept[r] \intersect Untied(query[r]) :
                            Fits(query[r], c) /\ c \notin ToSet(got[r])}) <= removed[r]
  <2> DEFINE F == {c \in kept[r] \intersect Untied(query[r]) :
                     Fits(query[r], c) /\ c \notin ToSet(got[r])}
  <2>1. query[r] \in Queries /\ removed[r] \in Nat
    BY <1>1, CatalogAssumption DEF CInv, ReadersOK, TypeOK
  <2>2. \A c \in F : c \in Comics /\ Matches(query[r], c)
    BY <2>1, FittingMatches DEF Untied
  <2>3. F \subseteq Missed(r)
    BY <2>2 DEF Missed
  <2>4. IsFiniteSet(Missed(r))
    <3>1. Missed(r) \subseteq Comics
      BY DEF Missed, Untied
    <3> QED
      BY <3>1, CatalogAssumption, FS_Subset
  <2>5. Cardinality(Missed(r)) <= removed[r]
    BY <1>1 DEF PagesInv, PagesOK
  <2> HIDE DEF F
  <2>6. Cardinality(F) \in Nat /\ Cardinality(Missed(r)) \in Nat
         /\ Cardinality(F) <= Cardinality(Missed(r))
    BY <2>3, <2>4, FS_Subset, FS_CardinalityType
  <2>7. Cardinality(F) <= removed[r]
    BY <2>1, <2>5, <2>6
  <2> QED
    BY <2>7 DEF F
<1>2. CInv /\ PagesInv => PagesLoseLittle
  BY <1>1 DEF PagesLoseLittle
<1> QED
  BY <1>2, Invariant, PagesInvariant, PTL

(***************************************************************************)
(* And it has seen at most one comic again for each one that was added.    *)
(***************************************************************************)
THEOREM LittleIsRepeated == Spec => []PagesRepeatLittle
<1>1. PagesInv => PagesRepeatLittle
  BY DEF PagesInv, PagesOK, PagesRepeatLittle, UntiedAt, UntiedSeen
<1> QED
  BY <1>1, PagesInvariant, PTL
=============================================================================
