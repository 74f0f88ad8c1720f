------------------------------- MODULE Paging -------------------------------
(***************************************************************************)
(* A client walks through a list page by page while rows come and go.      *)
(*                                                                         *)
(* Tasks, logs and notifications are listed newest first: rows come and    *)
(* go, and the others keep their places.  Teams are listed by name, and a  *)
(* team that is renamed moves to another place.  (Rows that tie are taken  *)
(* to keep one order.)  Users are listed in no order at all: every         *)
(* statement may see them in another one.                                  *)
(* Each page is two statements, sent together and answered in any order:   *)
(* the rows, and the count the number of pages is taken from.  Ordered     *)
(* lists are answered with that number and refuse a page past it; users    *)
(* are answered with the count alone, whatever page was asked for, and the *)
(* client divides.                                                         *)
(***************************************************************************)
EXTENDS Naturals, Sequences, FiniteSets, FiniteSetsExt, Functions, SequencesExt

CONSTANTS
  Rows,      \* rows the list may come to hold
  Limit,     \* rows of a page
  MaxChanges, \* bound: rows that come, go or move during the walk
  NotRead    \* a statement that is not answered yet

ASSUME LimitAssumption == Limit \in Nat \ {0}   \* @Min(1)
ASSUME ChangesAssumption == MaxChanges \in Nat
ASSUME RowsAssumption == IsFiniteSet(Rows)
ASSUME NotReadAssumption == NotRead \notin Nat /\ NotRead \notin Seq(Rows)

VARIABLES
  ordered,   \* the query has an orderBy: all lists but that of users
  byName,    \* and the order is a name that can be changed: the list of teams
  list,      \* the rows that match, in the order of the list
  gone,      \* rows that left the list (history)
  phase,     \* of the client: ready, reading, ended or notFound
  page,      \* the page it asks for
  data,      \* the rows the first statement returned
  total,     \* the count the second one returned
  seen,      \* how often each row was shown to the client
  atStart,   \* rows of the list when the walk began (history)
  inserted,  \* rows came during the walk (history)
  torn,      \* rows came or went between the two statements of a page (history)
  rose,      \* rows a new name moved to an earlier place (history)
  sank       \* rows a new name moved to a later place (history)

order == <<ordered, byName>>
read  == <<data, total>>
moved == <<rose, sank>>
vars  == <<ordered, byName, list, gone, phase, page, data, total, seen, atStart,
           inserted, torn, rose, sank>>

\* Mistaken variants (here and below), which the code does not have: they show
\* that a property notices a slip in the operation that follows.
PerPage_Floor(n) == n \div Limit

\* Math.ceil(total / limit)
PerPage(n) == (n + Limit - 1) \div Limit

\* findMany's skip and take.
Slice(s, skip, take) == SubSeq(s, skip + 1, IF skip + take < Len(s) THEN skip + take ELSE Len(s))

PageOf_SkipsRows(s, p) == Slice(s, p - 1, Limit)

PageOf(s, p) == Slice(s, (p - 1) * Limit, Limit)

\* Without an order the page has its length, and any rows.
AnyPage(p) == {SetToSeq(S) : S \in kSubset(Len(PageOf(list, p)), ToSet(list))}

Exists_Strict(n, p) == p = 1 \/ (p >= 1 /\ p < PerPage(n))

\* The page is answered, and not refused as not found.
Exists(n, p) == p = 1 \/ (p >= 1 /\ p <= PerPage(n))

\* Any number of rows; which names they have makes no difference.
Init ==
  /\ ordered \in BOOLEAN /\ byName \in BOOLEAN /\ (byName => ordered)
  /\ \E n \in 0..Cardinality(Rows) : list = SubSeq(SetToSeq(Rows), 1, n)
  /\ gone = {}
  /\ phase = "ready"
  /\ page = 1
  /\ data = NotRead /\ total = NotRead
  /\ seen = [r \in Rows |-> 0]
  /\ atStart = ToSet(list)
  /\ inserted = FALSE /\ torn = FALSE
  /\ rose = {} /\ sank = {}

Ask ==
  /\ phase = "ready"
  /\ phase' = "reading"
  /\ data' = NotRead /\ total' = NotRead
  /\ UNCHANGED <<order, list, gone, page, seen, atStart, inserted, torn, moved>>

ReadRows ==
  /\ phase = "reading" /\ data = NotRead
  /\ \/ ordered  /\ data' = PageOf(list, page)
     \/ ~ordered /\ data' \in AnyPage(page)
  /\ UNCHANGED <<order, list, gone, phase, page, total, seen, atStart, inserted, torn, moved>>

Count ==
  /\ phase = "reading" /\ total = NotRead
  /\ total' = Len(list)
  /\ UNCHANGED <<order, list, gone, phase, page, data, seen, atStart, inserted, torn, moved>>

\* ResponseService.pagination for an ordered list, success for the users; and the
\* client that goes on while there are pages.
Answer ==
  /\ phase = "reading" /\ NotRead \notin {data, total}
  /\ \/ /\ ~ordered \/ Exists(total, page)
        /\ seen' = [r \in Rows |-> IF r \in ToSet(data) THEN seen[r] + 1 ELSE seen[r]]
        /\ \/ page < PerPage(total)  /\ phase' = "ready" /\ page' = page + 1
           \/ page >= PerPage(total) /\ phase' = "ended" /\ UNCHANGED page
     \/ /\ ordered /\ ~Exists(total, page)
        /\ phase' = "notFound"
        /\ UNCHANGED <<page, seen>>
  /\ UNCHANGED <<order, list, gone, data, total, atStart, inserted, torn, moved>>

\* One of the two statements is answered and the other is not.
HalfRead == phase = "reading" /\ (data = NotRead) # (total = NotRead)

Walking == phase \in {"ready", "reading"}

\* Rows that came, went and moved since the walk began.
Changes == Cardinality((ToSet(list) \cup gone) \ atStart) + Cardinality(gone)
             + Cardinality(rose) + Cardinality(sank)

Changing == Walking /\ Changes < MaxChanges

\* A row is created, or changed so that the filters take it.
Insert(r) ==
  /\ Changing
  /\ r \notin ToSet(list) \cup gone
  /\ \E i \in 1..(Len(list) + 1) :
       /\ ~ordered => i = 1
       /\ list' = InsertAt(list, i, r)
  /\ inserted' = TRUE
  /\ torn' = (torn \/ HalfRead)
  /\ UNCHANGED <<order, gone, phase, page, read, seen, atStart, moved>>

\* A row is deleted, or changed so that the filters no longer take it.
Delete(r) ==
  /\ Changing
  /\ \E i \in 1..Len(list) : list[i] = r /\ list' = RemoveAt(list, i)
  /\ gone' = gone \cup {r}
  /\ torn' = (torn \/ HalfRead)
  /\ UNCHANGED <<order, phase, page, read, seen, atStart, inserted, moved>>

\* TeamUpdateService.update writes another name: the team takes its new place, and
\* those it passes move by one.
Rename(r) ==
  /\ Changing /\ byName
  /\ \E i, j \in 1..Len(list) :
       /\ list[i] = r /\ i # j
       /\ list' = InsertAt(RemoveAt(list, i), j, r)
       /\ rose' = IF j < i THEN rose \cup {r} ELSE rose
       /\ sank' = IF i < j THEN sank \cup {r} ELSE sank
  /\ UNCHANGED <<order, gone, phase, page, read, seen, atStart, inserted, torn>>

Next ==
  \/ Ask \/ ReadRows \/ Count \/ Answer
  \/ \E r \in Rows : Insert(r) \/ Delete(r) \/ Rename(r)

Spec == Init /\ [][Next]_vars

----------------------------------------------------------------------------
(* Properties *)

TypeOK ==
  /\ ordered \in BOOLEAN /\ byName \in BOOLEAN /\ (byName => ordered)
  /\ list \in Seq(Rows) /\ IsInjective(list)
  /\ gone \subseteq Rows /\ atStart \subseteq Rows
  /\ phase \in {"ready", "reading", "ended", "notFound"}
  /\ page \in 1..(Cardinality(Rows) + 1)
  /\ data = NotRead \/ (data \in Seq(Rows) /\ Len(data) <= Limit)
  /\ total = NotRead \/ total \in 0..Cardinality(Rows)
  /\ seen \in [Rows -> Nat]
  /\ inserted \in BOOLEAN /\ torn \in BOOLEAN
  /\ rose \subseteq Rows /\ sank \subseteq Rows

\* A walk through an ordered list misses a row that was there from its beginning only
\* if rows left the list, a row came or went between the two statements of a page, a
\* new name moved a row to a later place, or moved the missed row itself to an earlier.
MissesNothing ==
  phase = "ended" /\ ordered /\ gone = {} /\ ~torn /\ sank = {} =>
    \A r \in atStart \ rose : seen[r] > 0

\* It shows a row twice only if rows came meanwhile, a new name moved a row to an
\* earlier place, or moved the repeated row itself to a later: rows that only go
\* repeat nothing.
RepeatsNothing ==
  ordered /\ ~inserted /\ rose = {} => \A r \in Rows \ sank : seen[r] <= 1

\* With or without an order, and whatever is renamed, a walk during which no row comes
\* or goes shows as many rows as the list has: what pages repeat is what they leave out.
ShowsAsMany ==
  phase = "ended" /\ gone = {} /\ ~inserted =>
    FoldFunctionOnSet(+, 0, seen, Rows) = Cardinality(atStart)

\* A client that follows the number of pages it is given finds every page, unless
\* rows left the list.
FindsPages == phase = "notFound" => gone # {}
=============================================================================
