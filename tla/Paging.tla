-------------------------------- MODULE Paging --------------------------------
(* KeysetCursorPagination: the work queue read page by page while others      *)
(* change it.                                                                 *)
(*                                                                            *)
(* A cursor is the position of a row in the ordering: the values of the sort  *)
(* keys it had when its page was served.  The next page is the rows strictly  *)
(* behind that position, by a disjunction of one comparison per key; the page *)
(* before is asked for in the inverted ordering.                              *)
EXTENDS Integers, FiniteSets, Sequences, SequencesExt

CONSTANTS
    Rows,           \* primary keys
    Ranks, Ages, Totals,    \* values of severity_rank, opened_at and corroboration_total
    Limit,          \* page size
    MaxChanges,     \* bound of the model: changes made by others
    MaxPages,       \* bound of the model: pages the client asks for
    None

(* What is assumed of the constants: a table has finitely many rows. *)
PagingAssumption ==
    /\ Rows \cup Ranks \cup Ages \cup Totals \subseteq Nat
    /\ IsFiniteSet(Rows)
    /\ Limit \in Nat \ {0} /\ {MaxChanges, MaxPages} \subseteq Nat

VARIABLES
    sort,       \* the sort the client asks for
    table,      \* per row: its sort values, or None
    cursor,     \* what the client would send: a position and a direction, or None
    page,       \* the rows of the last page
    served,     \* rows in the order the client has received them, forwards
    scroll,     \* "forward": from the first page on; "over": to the last page;
                \* "mixed": the client also went back or changed the sort
    touched,    \* rows created, removed or moved since the first page
    changes, pages

vars == <<sort, table, cursor, page, served, scroll, touched, changes, pages>>

Values == [pk : Rows, severity_rank : Ranks, opened_at : Ages,
           corroboration_total : Totals]

(* SORT_KEYS: field and whether it descends, most significant first. *)
Sorts == {"severity", "age", "-createdAt", "corroborationCount"}

Key(field, descending) == [field |-> field, descending |-> descending]

Keys(s) ==
    CASE s = "severity" ->
           <<Key("severity_rank", TRUE), Key("opened_at", FALSE), Key("pk", FALSE)>>
      [] s = "age" -> <<Key("opened_at", FALSE), Key("pk", FALSE)>>
      [] s = "-createdAt" -> <<Key("opened_at", TRUE), Key("pk", TRUE)>>
      [] s = "corroborationCount" ->
           <<Key("corroboration_total", TRUE), Key("opened_at", FALSE), Key("pk", FALSE)>>

Position(s, values) == [n \in DOMAIN Keys(s) |-> values[Keys(s)[n].field]]

(* list_issues: the Issues that this caller may see and that pass the         *)
(* filters; an Issue that is moderated or filtered out is not in the table.   *)
Present == {r \in Rows : table[r] # None}

(* Shape of the state. *)
TypeOK ==
    /\ sort \in Sorts
    /\ table \in [Rows -> Values \cup {None}]
    /\ cursor = None \/ (cursor.reverse \in BOOLEAN /\ Len(cursor.position) \in {2, 3})
    /\ page \in Seq(Rows) /\ Len(page) <= Limit
    /\ served \in Seq(Rows)
    /\ scroll \in {"new", "forward", "over", "mixed"}
    /\ touched \subseteq Rows
    /\ changes \in 0 .. MaxChanges /\ pages \in 0 .. MaxPages

Init ==
    /\ sort \in Sorts
    /\ table \in [Rows -> Values \cup {None}]
    /\ \A r \in Rows : table[r] # None => table[r].pk = r
    /\ cursor = None
    /\ page = <<>> /\ served = <<>>
    /\ scroll = "new"
    /\ touched = {}
    /\ changes = 0 /\ pages = 0

-----------------------------------------------------------------------------
Beyond(a, b, smaller) == IF smaller THEN a < b ELSE a > b

\* Mutation: the last key is compared with >= instead of >.
BehindOrAt(s, values, position, reverse) ==
    \E n \in DOMAIN Keys(s) :
        /\ \/ Beyond(values[Keys(s)[n].field], position[n], Keys(s)[n].descending # reverse)
           \/ n = Len(Keys(s)) /\ values[Keys(s)[n].field] = position[n]
        /\ \A m \in 1 .. n - 1 : values[Keys(s)[m].field] = position[m]

(* _position_filter: in each branch one key is beyond the position and every  *)
(* key before it is equal.                                                    *)
Behind(s, values, position, reverse) ==
    \E n \in DOMAIN Keys(s) :
        /\ Beyond(values[Keys(s)[n].field], position[n], Keys(s)[n].descending # reverse)
        /\ \A m \in 1 .. n - 1 : values[Keys(s)[m].field] = position[m]

(* ORDER BY the keys, each inverted when the page is read backwards: the      *)
(* values p come after the values q.                                          *)
Later(s, p, q, reverse) ==
    \E n \in DOMAIN Keys(s) :
        /\ Beyond(p[n], q[n], Keys(s)[n].descending # reverse)
        /\ \A m \in 1 .. n - 1 : p[m] = q[m]

(* The rows in this order: at place n the row that n - 1 others precede. *)
Earlier(rows, r, s, reverse) ==
    {q \in rows : Later(s, Position(s, table[r]), Position(s, table[q]), reverse)}

Ordered(rows, s, reverse) ==
    [n \in 1 .. Cardinality(rows) |->
        CHOOSE r \in rows : Cardinality(Earlier(rows, r, s, reverse)) = n - 1]

(* The first rows of the slice, one more than the page to see whether it ends. *)
Fetched(rows, s, reverse) ==
    LET count == Cardinality(rows) IN
    [rows |-> SubSeq(Ordered(rows, s, reverse), 1, IF count > Limit THEN Limit ELSE count),
     more |-> count > Limit]

Cursor(s, row, reverse) ==
    [position |-> Position(s, table[row]), reverse |-> reverse]

(* Links of the page: a next one if there is more, a previous one if the page *)
(* had a position; a page without rows has none.                              *)
Follow(s, rows, hasNext, hasPrevious) ==
    IF rows = <<>> THEN {None}
    ELSE (IF hasNext THEN {Cursor(s, rows[Len(rows)], FALSE)} ELSE {})
         \cup (IF hasPrevious THEN {Cursor(s, rows[1], TRUE)} ELSE {})
         \cup (IF ~hasNext /\ ~hasPrevious THEN {None} ELSE {})

-----------------------------------------------------------------------------
(* GET /issues without a cursor. *)
FirstPage ==
    /\ scroll = "new" /\ pages < MaxPages
    /\ LET f == Fetched(Present, sort, FALSE) IN
         /\ page' = f.rows /\ served' = f.rows
         /\ cursor' \in Follow(sort, f.rows, f.more, FALSE)
         /\ scroll' = IF f.more THEN "forward" ELSE "over"
    /\ touched' = {}
    /\ pages' = pages + 1
    /\ UNCHANGED <<sort, table, changes>>

(* With a cursor onwards.  The arity of the position is all that is checked.  *)
NextPage ==
    /\ cursor # None /\ ~cursor.reverse /\ pages < MaxPages
    /\ Len(cursor.position) = Len(Keys(sort))
    /\ LET f == Fetched({r \in Present : Behind(sort, table[r], cursor.position, FALSE)},
                        sort, FALSE) IN
         /\ page' = f.rows /\ served' = served \o f.rows
         /\ cursor' \in Follow(sort, f.rows, f.more, TRUE)
         /\ scroll' = IF scroll = "forward" /\ ~f.more THEN "over" ELSE scroll
    /\ pages' = pages + 1
    /\ UNCHANGED <<sort, table, touched, changes>>

(* With a cursor backwards: the rows come inverted and are turned round; the  *)
(* page after it is taken to exist.                                           *)
PreviousPage ==
    /\ cursor # None /\ cursor.reverse /\ pages < MaxPages
    /\ Len(cursor.position) = Len(Keys(sort))
    /\ LET f == Fetched({r \in Present : Behind(sort, table[r], cursor.position, TRUE)},
                        sort, TRUE)
       IN /\ page' = Reverse(f.rows)
          /\ cursor' \in Follow(sort, Reverse(f.rows), TRUE, f.more)
    /\ scroll' = "mixed"
    /\ pages' = pages + 1
    /\ UNCHANGED <<sort, table, served, touched, changes>>

(* The same cursor sent with another sort.  A position of another length is   *)
(* answered with NotFound, and the client starts again.                       *)
ChangeSort(s) ==
    /\ cursor # None /\ s # sort
    /\ sort' = s
    /\ IF Len(cursor.position) = Len(Keys(s))
       THEN scroll' = "mixed" /\ UNCHANGED <<cursor, served>>
       ELSE scroll' = "new" /\ cursor' = None /\ served' = <<>>
    /\ UNCHANGED <<table, page, touched, changes, pages>>

-----------------------------------------------------------------------------
(* What others do to the queue meanwhile: an Issue is created, leaves the     *)
(* list, or moves as its severity or its support changes.                     *)
Change(r) ==
    /\ changes < MaxChanges
    /\ changes' = changes + 1
    /\ touched' = touched \cup {r}
    /\ UNCHANGED <<sort, cursor, page, served, scroll, pages>>

Insert(r, values) ==
    /\ table[r] = None /\ values.pk = r
    /\ table' = [table EXCEPT ![r] = values]
    /\ Change(r)

Leave(r) ==
    /\ table[r] # None
    /\ table' = [table EXCEPT ![r] = None]
    /\ Change(r)

Move(r, rank, total) ==
    /\ table[r] # None
    /\ table' = [table EXCEPT ![r].severity_rank = rank, ![r].corroboration_total = total]
    /\ Change(r)

-----------------------------------------------------------------------------
Next ==
    \/ FirstPage
    \/ NextPage
    \/ PreviousPage
    \/ \E s \in Sorts : ChangeSort(s)
    \/ \E r \in Rows, values \in Values : Insert(r, values)
    \/ \E r \in Rows : Leave(r)
    \/ \E r \in Rows, rank \in Ranks, total \in Totals : Move(r, rank, total)

Spec == Init /\ [][Next]_vars

-----------------------------------------------------------------------------
(* A scroll from the first page on gives no Issue that nobody touched          *)
(* meanwhile twice, and by its last page it has given each of them once,       *)
(* however many others are opened, removed or re-ranked around them, also where *)
(* rows tie on every key but the last; and at every page it has given them in  *)
(* the order of the sort (KeysetCursorPagination, API 4.4).                    *)
Leading(r) == table[r][Keys(sort)[1].field]
Second(r) == table[r][Keys(sort)[2].field]
Comes(a, b, descending) == IF descending THEN a > b ELSE a < b

InOrder(a, b) ==
    \/ Comes(Leading(a), Leading(b), Keys(sort)[1].descending)
    \/ /\ Leading(a) = Leading(b)
       /\ Second(a) = Second(b) \/ Comes(Second(a), Second(b), Keys(sort)[2].descending)

UntouchedServedOnce ==
    scroll \in {"forward", "over"} =>
        /\ \A r \in Present \ touched :
              LET times == Cardinality({n \in DOMAIN served : served[n] = r})
              IN  times <= 1 /\ (scroll = "over" => times = 1)
        /\ \A m, n \in DOMAIN served :
              m < n /\ {served[m], served[n]} \subseteq Present \ touched
                  => InOrder(served[m], served[n])

=============================================================================
