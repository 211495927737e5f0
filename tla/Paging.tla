------------------------------- MODULE Paging -------------------------------
(***************************************************************************)
(* Keyset pagination of commons/net/http: cursor.go pages by id, and       *)
(* pagination_sort.go by a sort column with the id as tie-breaker.  The    *)
(* library decides which way to compare and to order, cuts and turns the   *)
(* rows that came back, and issues the cursors; the query itself belongs to*)
(* the service (external) and fetches one row more than a page holds.      *)
(*                                                                         *)
(* Between two requests of a client rows come and go, and a cursor may name*)
(* a row that no longer exists.  A cursor is the key it carries and the way*)
(* it points; its base64 JSON is not modelled.                             *)
(***************************************************************************)
EXTENDS Integers, Sequences, FiniteSets, SequencesExt

CONSTANTS Ids,                    \* positive numbers
          Value,                  \* the sort column of a row
          Tables,                 \* the rows there may be at the start
          RawLimits,              \* limits a client asks for
          DefaultLimit, MaxLimit,
          MaxEdits                \* rows inserted or deleted during a run

ASSUME PagingAssumption ==
    /\ Ids \subseteq Nat \ {0} /\ Value \in [Ids -> Int]
    /\ \A t \in Tables : t \subseteq Ids /\ IsFiniteSet(t)
    /\ RawLimits \subseteq Int /\ DefaultLimit \in Nat \ {0} /\ MaxLimit \in Nat \ {0} /\ DefaultLimit <= MaxLimit

VARIABLES rows,                   \* the table
          family,                 \* "id" or "sort"
          order,                  \* the sort direction asked for: ASC, DESC or none
          limit,                  \* the page size in force
          page,                   \* the last response, with its cursors
          nextCursor, prevCursor,
          edits,
          snap,                   \* the table that response was read from
          walking,                \* only next cursors followed since the start
          walked,                 \* rows that walk returned
          stable,                 \* rows that have been there all along
          repeated,               \* the walk returned a row twice
          left,                   \* the page the last next cursor was taken from
          retraced                \* every step back led where it came from

pageVars == <<rows, family, order, limit, page, nextCursor, prevCursor, edits, snap,
              walking, walked, stable, repeated, left, retraced>>

NoCursor == [id |-> 0, pointsNext |-> TRUE]
NoPage == <<0>>

-----------------------------------------------------------------------------
(* The codec and the rules.                                                *)

\* A cursor without an id is not issued.
EncodeCursor(id, pointsNext) == [id |-> id, pointsNext |-> pointsNext]
EncodeSortCursor(id, pointsNext) == [id |-> id, pointsNext |-> pointsNext]

\* A cursor that names no row is refused.
DecodeCursor(c) == c.id # 0
DecodeSortCursor(c) == c.id # 0

\* Whatever is not DESC is ascending.
ValidateSortDirection(dir) == IF dir = "DESC" THEN "DESC" ELSE "ASC"

\* The comparison with the cursor and the order of the query.
CursorDirectionRules(dir, pointsNext) ==
    LET asc == ValidateSortDirection(dir) = "ASC" IN
    IF pointsNext THEN [op |-> IF asc THEN ">" ELSE "<", dir |-> IF asc THEN "ASC" ELSE "DESC"]
                  ELSE [op |-> IF asc THEN "<" ELSE ">", dir |-> IF asc THEN "DESC" ELSE "ASC"]

\* The same for a sort column, except that whatever is not ASC is descending.
SortCursorDirection(dir, pointsNext) ==
    LET asc == dir = "ASC" IN
    IF pointsNext THEN [op |-> IF asc THEN ">" ELSE "<", dir |-> IF asc THEN "ASC" ELSE "DESC"]
                  ELSE [op |-> IF asc THEN "<" ELSE ">", dir |-> IF asc THEN "DESC" ELSE "ASC"]

rules(pointsNext) == IF family = "id" THEN CursorDirectionRules(order, pointsNext)
                                      ELSE SortCursorDirection(order, pointsNext)

ValidateLimit(asked, default, max) ==
    IF asked <= 0 THEN default ELSE IF asked > max THEN max ELSE asked

\* The limit of a request; the cursor passes through undecoded.
ParseOpaqueCursorPagination(asked) == ValidateLimit(asked, DefaultLimit, MaxLimit)

\* The limit when there is a page behind this one, all the rows otherwise; a
\* page that was fetched backwards is turned round.
PaginateRecords(hasPagination, pointsNext, items) ==
    LET n == IF hasPagination THEN limit ELSE Len(items)
        cut == SubSeq(items, 1, n)
    IN  IF pointsNext THEN cut ELSE Reverse(cut)

\* MUTANT: a page reached backwards has a next page only if the query had more rows.
onlyIfMore(isFirstPage, hasPagination, pointsNext, first, last) ==
    [next |-> IF hasPagination THEN EncodeCursor(last, TRUE) ELSE NoCursor,
     prev |-> IF ~isFirstPage /\ (pointsNext \/ hasPagination)
              THEN EncodeCursor(first, FALSE) ELSE NoCursor]

CalculateCursor(isFirstPage, hasPagination, pointsNext, first, last) ==
    [next |-> IF ~pointsNext \/ hasPagination THEN EncodeCursor(last, TRUE) ELSE NoCursor,
     prev |-> IF ~isFirstPage /\ (pointsNext \/ hasPagination)
              THEN EncodeCursor(first, FALSE) ELSE NoCursor]

CalculateSortCursorPagination(isFirstPage, hasPagination, pointsNext, first, last) ==
    [next |-> IF ~pointsNext \/ hasPagination THEN EncodeSortCursor(last, TRUE) ELSE NoCursor,
     prev |-> IF ~isFirstPage /\ (pointsNext \/ hasPagination)
              THEN EncodeSortCursor(first, FALSE) ELSE NoCursor]

-----------------------------------------------------------------------------
(* The service's query, external.                                          *)

less(a, b) == IF family = "id" THEN a < b
              ELSE Value[a] < Value[b] \/ (Value[a] = Value[b] /\ a < b)

beyond(c) == {r \in rows : \/ c = NoCursor
                           \/ rules(c.pointsNext).op = ">" /\ less(c.id, r)
                           \/ rules(c.pointsNext).op = "<" /\ less(r, c.id)}

comesFirst(pointsNext, a, b) == IF rules(pointsNext).dir = "ASC" THEN less(a, b) ELSE less(b, a)

\* ORDER BY the rules' direction, LIMIT one more than a page: the rows of the
\* cursor's side that come first, in that order; there is one such sequence.
fetch(c) ==
    LET side == beyond(c)
        n == IF Cardinality(side) > limit THEN limit + 1 ELSE Cardinality(side)
    IN  {items \in [1 .. n -> side] :
           /\ \A i, j \in 1 .. n : i < j => comesFirst(c.pointsNext, items[i], items[j])
           /\ \A r \in side \ Range(items) : \A i \in 1 .. n : comesFirst(c.pointsNext, items[i], r)}

\* A service counts a page as the first when no cursor came with the request,
\* and some also when a step back ran out of rows.
firstPage(c, hasPagination, generous) ==
    c = NoCursor \/ (generous /\ ~hasPagination /\ ~c.pointsNext)

serve(c, generous) ==
  \E items \in fetch(c) :
    LET hasPagination == Len(items) > limit
        got == PaginateRecords(hasPagination, c.pointsNext, items)
        isFirst == firstPage(c, hasPagination, generous)
        cursors == IF family = "id"
                   THEN CalculateCursor(isFirst, hasPagination, c.pointsNext, got[1], got[Len(got)])
                   ELSE CalculateSortCursorPagination(isFirst, hasPagination, c.pointsNext,
                                                      got[1], got[Len(got)])
    IN  /\ page' = got
        /\ nextCursor' = IF got = <<>> THEN NoCursor ELSE cursors.next
        /\ prevCursor' = IF got = <<>> THEN NoCursor ELSE cursors.prev
        /\ snap' = rows

decodes(c) == IF family = "id" THEN DecodeCursor(c) ELSE DecodeSortCursor(c)

-----------------------------------------------------------------------------
(* The client and the table.                                               *)

FirstPage ==
    /\ page = NoPage
    /\ serve(NoCursor, FALSE)
    /\ walking' = TRUE
    /\ walked' = Range(page')
    /\ stable' = rows
    /\ UNCHANGED <<rows, family, order, limit, edits, repeated, left, retraced>>

FollowNext ==
    /\ nextCursor # NoCursor /\ decodes(nextCursor)
    /\ serve(nextCursor, FALSE)
    /\ walked' = IF walking THEN walked \cup Range(page') ELSE walked
    /\ repeated' = (repeated \/ (walking /\ walked \cap Range(page') # {}))
    /\ left' = IF snap = rows THEN page ELSE NoPage
    /\ UNCHANGED <<rows, family, order, limit, edits, walking, stable, retraced>>

FollowPrev(generous) ==
    /\ prevCursor # NoCursor /\ decodes(prevCursor)
    /\ serve(prevCursor, generous)
    /\ retraced' = (retraced /\ (left # NoPage => page' = left))
    /\ left' = NoPage
    /\ walking' = FALSE
    /\ UNCHANGED <<rows, family, order, limit, edits, walked, stable, repeated>>

InsertRow(r) ==
    /\ edits < MaxEdits
    /\ r \notin rows
    /\ rows' = rows \cup {r}
    /\ edits' = edits + 1
    /\ left' = NoPage
    /\ UNCHANGED <<family, order, limit, page, nextCursor, prevCursor, snap, walking, walked, stable,
                   repeated, retraced>>

DeleteRow(r) ==
    /\ edits < MaxEdits
    /\ r \in rows
    /\ rows' = rows \ {r}
    /\ stable' = stable \ {r}
    /\ edits' = edits + 1
    /\ left' = NoPage
    /\ UNCHANGED <<family, order, limit, page, nextCursor, prevCursor, snap, walking, walked,
                   repeated, retraced>>

PagingInit ==
    /\ rows \in Tables
    /\ family \in {"id", "sort"}
    /\ order \in {"ASC", "DESC", "unset"}
    /\ limit \in {ParseOpaqueCursorPagination(l) : l \in RawLimits}
    /\ page = NoPage
    /\ nextCursor = NoCursor /\ prevCursor = NoCursor
    /\ edits = 0
    /\ snap = {}
    /\ walking = FALSE
    /\ walked = {} /\ stable = {}
    /\ repeated = FALSE
    /\ left = NoPage
    /\ retraced = TRUE

PagingNext ==
    \/ FirstPage
    \/ FollowNext
    \/ \E generous \in BOOLEAN : FollowPrev(generous)
    \/ \E r \in Ids : InsertRow(r) \/ DeleteRow(r)

PagingSpec == PagingInit /\ [][PagingNext]_pageVars

-----------------------------------------------------------------------------
precedes(a, b) == comesFirst(TRUE, a, b)

(* Paging through a table that changes (cursor.go, pagination_sort.go): a  *)
(* page comes in the order asked for and leaves no row out between its ends,*)
(* whichever way it was reached; no next cursor means nothing came after   *)
(* the page, no prev cursor that nothing came before it; a walk along next *)
(* cursors returns no row twice and, once it is over, has returned every   *)
(* row that was there throughout; and prev undoes next when no row moved.  *)
PagingSound ==
    /\ page # NoPage /\ page # <<>> =>
          LET first == page[1]
              last == page[Len(page)]
          IN  /\ \A i, j \in 1..Len(page) : i < j => precedes(page[i], page[j])
              /\ \A r \in snap : precedes(first, r) /\ precedes(r, last) => r \in Range(page)
              /\ nextCursor = NoCursor => \A r \in snap : ~precedes(last, r)
              /\ prevCursor = NoCursor => \A r \in snap : ~precedes(r, first)
              /\ Len(page) <= MaxLimit
    /\ walking /\ nextCursor = NoCursor => stable \subseteq walked
    /\ ~repeated
    /\ retraced
=============================================================================
