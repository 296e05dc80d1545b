SPECIFICATION Spec
CONSTANTS
  sky = sky
  moon = moon
  fox = fox
  owl = owl
  r1 = r1
  k1 = k1
  NoComic = NoComic
  BadId = BadId
  Comics = {sky, moon, fox, owl}
  Book <- MCBook
  Words <- MCWords
  Seeded = {sky, moon}
  PageLimit <- MCPageLimit
  PickLimit <- MCPickLimit
  Readers = {r1}
  Queries <- MCQueries
  Calls = {k1}
  Lookups <- MCLookups
  LastEdit = 3
  IntMax = 7
  YearMax = 2047
CONSTRAINT
  Apart
INVARIANTS
  TypeOK
  SearchHonoursParameters
  PagesLoseLittle
  PagesRepeatLittle
  ChaptersComplete
PROPERTIES
  DeletedStaysHidden
  RecommendsTheBest
  PageNumberHonoured
CHECK_DEADLOCK FALSE
