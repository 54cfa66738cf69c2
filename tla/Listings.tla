------------------------------ MODULE Listings ------------------------------
(***************************************************************************)
(* The paged listings of the core engine: the repositories of identity,    *)
(* booking, appeals and testing with the handlers that answer them.        *)
(*                                                                         *)
(* A client walks over a listing page by page until it has as many rows as *)
(* the total of the last answer says.  Each page is two statements, one    *)
(* for the rows and one for the total, and rows come, go and move between  *)
(* any two of them.  The listings differ in the statement that comes       *)
(* first, in how a row can leave its place and in the size of a page.      *)
(***************************************************************************)
EXTENDS Naturals, FiniteSets

CONSTANTS
  Rows,        \* identifiers of the rows of one table
  Fixed,       \* sizes of a page where the handler sets it ({20})
  Asked,       \* sizes of a page where the client does (1 .. 100)
  MaxRank,     \* bound: ranks of the ordering column
  MaxChanges,  \* bound: rows that come, go or move during a walk
  Faults       \* TRUE: a statement may fail, or break off while it is read

VARIABLES
  list,    \* the listing walked over and the size of its pages
  row,     \* rank of each row in its order, 0 if it does not list the row
  page,    \* the page the walk is at
  total,   \* the total of the answer being made
  pc,      \* where the walk is
  given,   \* how often the client was given each row
  stayed,  \* history: rows listed at one place all along, alone of their rank
  left,    \* history: how many rows left their place
  came,    \* history: how many rows came to a place
  dropped  \* history: an error of a statement was dropped

walk   == <<list, page, total, pc, given, dropped>>
change == <<row, stayed, left, came>>
vars   == <<walk, change>>

-----------------------------------------------------------------------------
(* The statements.  first: the one that is sent first; leaves: what takes  *)
(* a row from its place.  "filter" is a column the listing is filtered by, *)
(* set to another value, "delete" a deleted row, "move" a new value of the *)
(* ordering column (the name of an institute, the updated_at of a booking  *)
(* or test in the audit).                                                  *)
ListCandidates       == [first |-> "rows",  leaves |-> {"filter"}]
ListExperts          == [first |-> "rows",  leaves |-> {"filter", "delete"}]
ListInstitutes       == [first |-> "rows",  leaves |-> {"filter"}]
ListActiveInstitutes == [first |-> "total", leaves |-> {"filter", "move"}]
ListAuthorities      == [first |-> "rows",  leaves |-> {"filter"}]
ListAdmins           == [first |-> "rows",  leaves |-> {"filter", "delete"}]
ListSuperAdmins      == [first |-> "rows",  leaves |-> {"filter", "delete"}]
ListInvitations      == [first |-> "rows",  leaves |-> {"filter", "delete"}]
SuperAdminAuditEvents == [first |-> "total", leaves |-> {"delete", "move"}]
ListAppeals          == [first |-> "total", leaves |-> {"filter"}]
ListBookings         == [first |-> "rows",  leaves |-> {"filter", "delete"}]
ListSlots            == [first |-> "rows",  leaves |-> {}]
ListDevices          == [first |-> "total", leaves |-> {"delete"}]
ListTestPlans        == [first |-> "total", leaves |-> {"delete"}]
ListMyTests          == [first |-> "total", leaves |-> {"filter"}]
ListTests            == [first |-> "total", leaves |-> {"filter"}]

(* The handlers set the size of a page or take it from the request.        *)
Sized(statement, sizes) ==
  {[first |-> statement.first, leaves |-> statement.leaves, size |-> n] : n \in sizes}

listCandidates       == Sized(ListCandidates, Fixed)
listExperts          == Sized(ListExperts, Fixed)
listInstitutes       == Sized(ListInstitutes, Fixed)
listActiveInstitutes == Sized(ListActiveInstitutes, Asked)
listAuthorities      == Sized(ListAuthorities, Fixed)
listAdmins           == Sized(ListAdmins, Fixed)
listSuperAdmins      == Sized(ListSuperAdmins, Fixed)
listInvitations      == Sized(ListInvitations, Fixed)
superAdminAudits     == Sized(SuperAdminAuditEvents, Asked)
listAppeals          == Sized(ListAppeals, Asked)
listBookings         == Sized(ListBookings, Fixed)
listSlots            == Sized(ListSlots, Fixed)
listDevices          == Sized(ListDevices, Fixed)
listTestPlans        == Sized(ListTestPlans, Fixed)
getMyTests           == Sized(ListMyTests, Asked)
listTests            == Sized(ListTests, Asked)

Lists == UNION {listCandidates, listExperts, listInstitutes, listActiveInstitutes,
                listAuthorities, listAdmins, listSuperAdmins, listInvitations,
                superAdminAudits, listAppeals, listBookings, listSlots,
                listDevices, listTestPlans, getMyTests, listTests}

-----------------------------------------------------------------------------
Listed   == {x \in Rows : row[x] > 0}
Ahead(x) == {y \in Listed : row[y] > row[x]}
Class(x) == {y \in Listed : row[y] = row[x]}

Offset(p) == (p - 1) * list.size

(* Mutation: one row more than the page holds. *)
InsideOneMore(x, p) ==
  Cardinality((Offset(p) .. Offset(p) + list.size) \cap
              (Cardinality(Ahead(x)) .. Cardinality(Ahead(x)) + Cardinality(Class(x)) - 1))

(* ORDER BY, LIMIT and OFFSET.  The ordering column is not unique, and the *)
(* database may order the rows of one rank differently at each query: a    *)
(* page holds as many rows of each class as there are places of it inside. *)
Inside(x, p) ==
  Cardinality((Offset(p) .. Offset(p) + list.size - 1) \cap
              (Cardinality(Ahead(x)) .. Cardinality(Ahead(x)) + Cardinality(Class(x)) - 1))
Pages(p) == {S \in SUBSET Listed : \A x \in Listed : Cardinality(S \cap Class(x)) = Inside(x, p)}

Count == Cardinality(Listed)

Init ==
  /\ list \in Lists
  /\ row \in [Rows -> 0 .. MaxRank]
  /\ page = 1 /\ total = 0 /\ pc = "first"
  /\ given = [x \in Rows |-> 0]
  /\ stayed = {x \in Listed : Class(x) = {x}}
  /\ left = 0 /\ came = 0
  /\ dropped = FALSE

-----------------------------------------------------------------------------
(* The statement for the rows.  The listings that send it first do not ask *)
(* rows.Err: when reading breaks off they answer what they have.           *)
ReadRows(next) ==
  /\ \E S \in Pages(page) :
       \/ /\ given' = [x \in Rows |-> IF x \in S THEN given[x] + 1 ELSE given[x]]
          /\ UNCHANGED dropped
       \/ /\ Faults /\ list.first = "rows"
          /\ \E T \in SUBSET S \ {S} :
               given' = [x \in Rows |-> IF x \in T THEN given[x] + 1 ELSE given[x]]
          /\ dropped' = TRUE
  /\ pc' = next
  /\ UNCHANGED <<list, page, total, change>>

(* The statement for the total.  The listings that send it last drop its   *)
(* error and answer 0, the others answer the error.                        *)
ReadTotal(next) ==
  /\ \/ total' = Count /\ pc' = next /\ UNCHANGED dropped
     \/ Faults /\ list.first = "rows" /\ total' = 0 /\ pc' = next /\ dropped' = TRUE
     \/ Faults /\ list.first = "total" /\ pc' = "failed" /\ UNCHANGED <<total, dropped>>
  /\ UNCHANGED <<list, page, given, change>>

First == /\ pc = "first"
         /\ \/ list.first = "rows" /\ ReadRows("second")
            \/ list.first = "total" /\ ReadTotal("second")

Second == /\ pc = "second"
          /\ \/ list.first = "rows" /\ ReadTotal("answered")
             \/ list.first = "total" /\ ReadRows("answered")

(* The client asks for the next page as long as the total promises one. *)
NextPage ==
  /\ pc = "answered"
  /\ \/ page * list.size < total /\ page' = page + 1 /\ pc' = "first"
     \/ page * list.size >= total /\ pc' = "done" /\ UNCHANGED page
  /\ UNCHANGED <<list, total, given, dropped, change>>

-----------------------------------------------------------------------------
Walking == pc \in {"first", "second", "answered"} /\ left + came < MaxChanges

(* A row of rank n ties with the rows that have it. *)
Place(x, n) ==
  /\ row' = [row EXCEPT ![x] = n]
  /\ stayed' = stayed \ ({x} \cup {y \in Rows : row[y] = n})

(* A row is created, or comes to match the filter, anywhere in the order:  *)
(* created_at is read from the clock before the INSERT.                    *)
Come(x) ==
  /\ Walking
  /\ row[x] = 0
  /\ \E n \in 1 .. MaxRank : Place(x, n)
  /\ came' = came + 1
  /\ UNCHANGED <<walk, left>>

Leave(x) ==
  /\ Walking
  /\ list.leaves \cap {"filter", "delete"} # {}
  /\ row[x] > 0
  /\ Place(x, 0)
  /\ left' = left + 1
  /\ UNCHANGED <<walk, came>>

Move(x) ==
  /\ Walking
  /\ "move" \in list.leaves
  /\ row[x] > 0
  /\ \E n \in 1 .. MaxRank : n # row[x] /\ Place(x, n)
  /\ left' = left + 1 /\ came' = came + 1
  /\ UNCHANGED walk

Next == First \/ Second \/ NextPage \/ \E x \in Rows : Come(x) \/ Leave(x) \/ Move(x)

Spec == Init /\ [][Next]_vars

-----------------------------------------------------------------------------
(* Properties.                                                             *)

Missed   == {x \in stayed : given[x] = 0}
Repeated == {x \in stayed : given[x] > 1}

(* OFFSET counts rows that are not there any more: a client that walks to  *)
(* the end misses, of the rows that never changed place, at most as many   *)
(* as left their place meanwhile (repository.go:57, 410).  Where the total *)
(* is counted before the rows, each row that comes may push one more out   *)
(* of it (repository.go:221-224, 610-629, appeal/repository.go:73).  Ties  *)
(* and dropped errors break even that.                                     *)
WalkMisses ==
  pc = "done" /\ ~dropped
    => Cardinality(Missed) <= left + (IF list.first = "total" THEN came ELSE 0)

(* And it is given at most as many of them twice as came to a place in     *)
(* front of them.                                                          *)
WalkRepeats == Cardinality(Repeated) <= came

(* What a client can rely on that reads a listing to its end (page.go). *)
WalkIsBounded == WalkMisses /\ WalkRepeats
=============================================================================
