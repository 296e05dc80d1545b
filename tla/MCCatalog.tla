------------------------------ MODULE MCCatalog ------------------------------
(***************************************************************************)
(* Catalog with two comics of the SQL script and two that editors add.     *)
(* Pages hold one to three comics, so that a result has several pages.     *)
(***************************************************************************)
EXTENDS Catalog, TLC

CONSTANTS sky, moon, fox, owl, r1, k1

MCBook ==
  sky  :> [title |-> "Sky Cartographers", rank |-> 3, author |-> "Mori", country |-> "Japan",
           year |-> 2001, rating |-> "13+", type |-> "manga", genres |-> {"sci-fi", "drama"},
           chapters |-> 2] @@
  moon :> [title |-> "Moon Sky Ledger", rank |-> 2, author |-> "Mori", country |-> "Japan",
           year |-> 2010, rating |-> "16+", type |-> "manga", genres |-> {"drama"},
           chapters |-> 1] @@
  fox  :> [title |-> "Fox Alley", rank |-> 1, author |-> "", country |-> "France",
           year |-> 0, rating |-> "13+", type |-> "comic", genres |-> {"sci-fi", "drama"},
           chapters |-> 1] @@
  owl  :> [title |-> "Owl in the Sky", rank |-> 2, author |-> "Mori", country |-> "",
           year |-> 2010, rating |-> "16+", type |-> "manhwa", genres |-> {}, chapters |-> 0]

MCWords ==
  "Sky Cartographers" :> {"sky"} @@ "Moon Sky Ledger" :> {"sky", "moon"} @@
  "Fox Alley" :> {"fox"} @@ "Owl in the Sky" :> {"sky", "owl"} @@
  "Mori" :> {"mori"} @@ "Japan" :> {"japan"} @@ "France" :> {"france"} @@ "" :> {}

MCPageLimit == [default |-> 2, max |-> 3]
MCPickLimit == [default |-> 1, max |-> 2]

List(num, bad) ==
  [route |-> "list", plan |-> "free", text |-> <<>>, num |-> num, bad |-> bad]
Search(plan, text, num, bad) ==
  [route |-> "search", plan |-> plan, text |-> text, num |-> num, bad |-> bad]

One == "limit" :> 1
Sorted(by, order) == "sort" :> by @@ "order" :> order

MCQueries ==
  {List(<<>>, {}), List("limit" :> 1, {}), List("limit" :> 7, {}), List(<<>>, {"limit"}),
   List("page" :> 2 @@ "limit" :> 1, {}), List("page" :> 7 @@ "limit" :> 1, {}),
   List("page" :> 7, {}), List("page" :> 7 @@ "limit" :> 3, {}),
   Search("standard", "title" :> "sky", One, {}),
   Search("standard", "q" :> " " @@ "title" :> "fox" @@ "genre" :> "drama", <<>>, {}),
   Search("standard", "q" :> "sky" @@ "title" :> "fox" @@ "author" :> "mori", <<>>, {}),
   Search("standard", "genre" :> "drama" @@ "country" :> "japan", One, {}),
   Search("standard", Sorted("title", "asc"), One, {}),
   Search("premium", Sorted("title", "asc"), One, {}),
   Search("premium", Sorted("publish_year", "desc"), One, {}),
   Search("premium", Sorted("created_at", "asc"), One, {}),
   Search("premium", "age_rating" :> "16+" @@ "type" :> "manga", <<>>, {}),
   Search("standard", "q" :> "" @@ "title" :> "fox" @@ "page" :> "", <<>>, {}),
   Search("standard", "year" :> "", <<>>, {}),
   Search("premium", "category" :> "" @@ "genre" :> "drama" @@ "year_from" :> "", "year" :> 2001, {}),
   Search("premium", <<>>, "year" :> 2010, {}),
   Search("premium", <<>>, "year" :> 2001 @@ "year_from" :> 1990, {}),
   Search("premium", <<>>, "year_from" :> 0 @@ "year_to" :> 2005, {}),
   Search("premium", <<>>, "year" :> 2010 @@ "year_to" :> 0, {}),
   Search("premium", <<>>, "year_to" :> 2050, {}),
   Search("premium", <<>>, "year_from" :> 2010 @@ "year_to" :> 2001, {}),
   Search("premium", <<>>, <<>>, {"year"})}

Lookup(op, id, title, limit, text) ==
  [op |-> op, id |-> id, title |-> title, limit |-> limit, limit_is_text |-> text]

MCLookups ==
  {Lookup("detail", sky, "", 0, FALSE), Lookup("detail", BadId, "", 0, FALSE),
   Lookup("chapters", sky, "", 0, FALSE), Lookup("chapters", moon, "", 0, FALSE),
   Lookup("recommend", sky, "", 0, FALSE), Lookup("recommend", BadId, "sky", 5, FALSE),
   Lookup("recommend", NoComic, "sky", 5, FALSE),
   Lookup("recommend", NoComic, "", 1, FALSE), Lookup("recommend", sky, "", 1, TRUE)}

\* Readers and the other calls share the tables, which neither of them changes:
\* it is enough to interleave each with the editors, the other being idle.
AQuery == List(<<>>, {})
ALookup == Lookup("detail", sky, "", 0, FALSE)

Apart ==
  \/ \A r \in Readers : reading[r] = "idle" /\ query[r] = AQuery
  \/ \A k \in Calls : pc[k] = "idle" /\ lookup[k] = ALookup
=============================================================================
