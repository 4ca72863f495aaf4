------------------------------ MODULE Listing ------------------------------
(***************************************************************************)
(* What clients read from several queries: a product list, page by page    *)
(* (ProductHandler.List over ProductRepository.FindAll), and the           *)
(* statistics (internal/handlers/stats_handler.go).                        *)
(*                                                                         *)
(* One client walks through the pages of a list, in one order, from the    *)
(* first to the one that is empty.  Filters are left out: they are the     *)
(* same WHERE in both queries.                                             *)
(***************************************************************************)
EXTENDS Access, Catalogue, Sequences, SequencesExt

CONSTANT PageSize

ASSUME ListingAssumption == PageSize \in Nat \ {0}

VARIABLE walk

SortColumns == {"created_at", "entry_date"}

\* page: the page to ask for next; total: what the last response said; start: the
\* products there were at the first page; seen: those listed, twice: some of them
\* more than once; calm: no product has been written since.
Walk == [st : {"none", "between", "asking", "over"}, sort : SortColumns, asc : BOOLEAN,
         page : Nat, total : Nat, start : SUBSET Products, seen : SUBSET Products,
         twice : BOOLEAN, calm : BOOLEAN]

NoWalk == [st |-> "none", sort |-> "created_at", asc |-> FALSE, page |-> 1, total |-> 0,
           start |-> {}, seen |-> {}, twice |-> FALSE, calm |-> TRUE]

Figures == [products : Nat, repaired : Nat, categories : Nat, users : Nat]

NoFigures == [products |-> 0, repaired |-> 0, categories |-> 0, users |-> 0]

ListRequest == [op : {"list"}, pc : {"count", "page"}, by : Token, total : Nat]

StatsRequest ==
    [op : {"stats"}, pc : {"countproducts", "countcategories", "countusers", "report"},
     by : Token, figures : Figures]

ListingInit == walk = NoWalk

LiveProducts == {p \in Products : Live(p)}

-----------------------------------------------------------------------------
\* ORDER BY created_at, or by a date column with NULLS LAST either way.
Before(p, q) ==
    LET d == product[p].date  e == product[q].date IN
    \/ walk.sort = "created_at" /\ IF walk.asc THEN p < q ELSE p > q
    \/ /\ walk.sort = "entry_date" /\ d # NoDate
       /\ e = NoDate \/ IF walk.asc THEN d < e ELSE d > e

\* The database may put rows that compare equal in any order.
Sorted ==
    {s \in SetToSeqs(LiveProducts) : \A i, j \in DOMAIN s : i < j => ~Before(s[j], s[i])}

OffsetOffByOne(page) == page * PageSize
Offset(page) == (page - 1) * PageSize

PageOfInclusive(s, page) ==
    {s[i] : i \in {i \in DOMAIN s : Offset(page) < i /\ i <= Offset(page) + PageSize + 1}}
\* OFFSET and LIMIT.
PageOf(s, page) ==
    {s[i] : i \in {i \in DOMAIN s : Offset(page) < i /\ i <= Offset(page) + PageSize}}

ArriveList(r) ==
    /\ \E t \in Callers("list") :
          Start(r, [op |-> "list", pc |-> "count", by |-> t, total |-> 0])
    /\ \/ /\ walk.st \in {"none", "over"}
          /\ \E column \in SortColumns, asc \in BOOLEAN :
                walk' = [NoWalk EXCEPT !.st = "asking", !.sort = column, !.asc = asc,
                                       !.start = LiveProducts]
       \/ walk.st = "between" /\ walk' = [walk EXCEPT !.st = "asking"]

\* The 500 of a list; the client may ask for the same page again.
ListFails(r) == QueryFails(r) /\ walk' = [walk EXCEPT !.st = "between"]

\* FindAll does not look at the error of this query, but it stays in the *gorm.DB: the
\* next query is not made and returns it.
CountProducts(r) ==
    /\ req[r].pc = "count"
    /\ \/ /\ req' = [req EXCEPT ![r] = [@ EXCEPT !.pc = "page",
                                                 !.total = Cardinality(LiveProducts)]]
          /\ UNCHANGED walk
       \/ ListFails(r)

ReadPage(r) ==
    /\ req[r].pc = "page"
    /\ \/ /\ \E s \in Sorted :
                LET rows == PageOf(s, walk.page) IN
                walk' = [walk EXCEPT !.st = IF rows = {} THEN "over" ELSE "between",
                                     !.page = @ + 1, !.total = req[r].total,
                                     !.seen = @ \cup rows,
                                     !.twice = @ \/ walk.seen \cap rows # {}]
          /\ Reply(r)
       \/ ListFails(r)

-----------------------------------------------------------------------------
ArriveStats(r) ==
    /\ \E t \in Callers("stats") :
          Start(r, [op |-> "stats", pc |-> "countproducts", by |-> t, figures |-> NoFigures])
    /\ UNCHANGED walk

\* Records a count and goes on to the next.
Record(r, pc, figures) == req' = [req EXCEPT ![r] = [@ EXCEPT !.pc = pc, !.figures = figures]]

RepairedProducts == {p \in LiveProducts : product[p].status = "reparado"}

\* One statement for all the figures of products.
StatsProducts(r) ==
    /\ req[r].pc = "countproducts"
    /\ \/ Record(r, "countcategories",
                 [req[r].figures EXCEPT !.products = Cardinality(LiveProducts),
                                        !.repaired = Cardinality(RepairedProducts)])
       \/ QueryFails(r)
    /\ UNCHANGED walk

StatsCategories(r) ==
    /\ req[r].pc = "countcategories"
    /\ \/ Record(r, "countusers",
                 [req[r].figures EXCEPT !.categories =
                     Cardinality({c \in Categories : LiveCategory(c)})])
       \/ QueryFails(r)
    /\ UNCHANGED walk

StatsUsersRecounting(r) ==
    /\ req[r].pc = "countusers"
    /\ Record(r, "report",
              [req[r].figures EXCEPT !.users = Cardinality({u \in Users : LiveAccount(u)}),
                                     !.repaired = Cardinality(RepairedProducts)])
    /\ UNCHANGED walk
StatsUsers(r) ==
    /\ req[r].pc = "countusers"
    /\ \/ Record(r, "report",
                 [req[r].figures EXCEPT !.users =
                     Cardinality({u \in Users : LiveAccount(u)})])
       \/ QueryFails(r)
    /\ UNCHANGED walk

\* The 200 is sent.
Report(r) ==
    /\ req[r].pc = "report"
    /\ Reply(r)
    /\ UNCHANGED walk

ArriveRead(r) == ArriveList(r) \/ ArriveStats(r)

HandleRead(r) == \/ CountProducts(r) \/ ReadPage(r) \/ StatsProducts(r) \/ StatsCategories(r)
                 \/ StatsUsers(r) \/ Report(r)
=============================================================================
