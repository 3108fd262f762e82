----------------------------- MODULE SdkPages ------------------------------
(***************************************************************************)
(* A user of an SDK iterates over a paginated list                         *)
(* (src/sdks/python/src/honcho/pagination.py,                              *)
(* src/sdks/typescript/src/pagination.ts) while others write: each page is *)
(* a request of its own, that numbers the rows as they are at its moment.  *)
(* The lists are the messages of a session in the order of their ids, the  *)
(* peers of a workspace, oldest first, and conclusions, newest first.      *)
(***************************************************************************)
EXTENDS Integers, Sequences, SequencesExt, FiniteSetsExt

CONSTANTS
  Kinds,      \* the lists that are checked
  Writer,     \* other requests that write, one transaction each at a time
  PageSize,   \* the size of a page: 50 unless the caller chooses
  MaxRows,    \* bound: rows that are ever inserted
  NoTime      \* not inserted yet

\* What the instances that use this module assume.
PagesAssumption ==
  /\ Kinds \subseteq {"messages", "peers", "conclusions"}
  /\ PageSize \in Nat \ {0} /\ MaxRows \in Nat /\ NoTime \notin Nat

VARIABLES
  kind,      \* which list is iterated over
  rows,      \* the committed rows, by id
  born,      \* [Row -> created_at]: now(), the start of the transaction
  open,      \* [Writer -> the rows its transaction has inserted]
  removed,   \* history: rows that were deleted
  page,      \* the page the iterator holds, 0 for none
  pages,     \* ... and how many there are, says its answer
  seen,      \* the items that were yielded
  atStart    \* history: the rows there were when the first page was fetched

vars == <<kind, rows, born, open, removed, page, pages, seen, atStart>>
reader == <<page, pages, seen, atStart>>

Row == 1..MaxRows
PagesOf(total) == (total + PageSize - 1) \div PageSize

TypeOK ==
  /\ kind \in Kinds /\ rows \subseteq Row /\ born \in [Row -> Row \union {NoTime}]
  /\ open \in [Writer -> SUBSET Row] /\ removed \subseteq Row
  /\ page \in 0..PagesOf(MaxRows) /\ pages \in 0..PagesOf(MaxRows)
  /\ seen \in Seq(Row) /\ atStart \subseteq Row

Init ==
  /\ kind \in Kinds /\ rows = {} /\ born = [i \in Row |-> NoTime]
  /\ open = [w \in Writer |-> {}] /\ removed = {}
  /\ page = 0 /\ pages = 0 /\ seen = <<>> /\ atStart = {}
-----------------------------------------------------------------------------
(* The writers. *)

Inserted == {i \in Row : born[i] # NoTime}
NextId == Cardinality(Inserted) + 1

\* mutant: ids are taken before the lock of the session
Unordered(w) == open[w] = {}
\* create_messages takes the advisory lock of the session before it takes ids and until
\* its commit; the other tables have no such lock.
MayInsert(w) == open[w] = {} /\ (kind = "messages" => \A v \in Writer : open[v] = {})

\* A transaction inserts a batch: get_or_create_peers, create_documents, create_messages.
Insert(w, n) ==
  /\ MayInsert(w) /\ NextId + n - 1 \in Row
  /\ LET batch == NextId..(NextId + n - 1) IN
       /\ open' = [open EXCEPT ![w] = batch]
       /\ born' = [i \in Row |-> IF i \in batch THEN NextId ELSE born[i]]
  /\ UNCHANGED <<kind, rows, removed, reader>>

Commit(w) ==
  /\ open[w] # {}
  /\ rows' = rows \union open[w]
  /\ open' = [open EXCEPT ![w] = {}]
  /\ UNCHANGED <<kind, born, removed, reader>>

\* A conclusion is soft-deleted; messages and peers go with their workspace only.
Delete(i) ==
  /\ kind = "conclusions" /\ i \in rows
  /\ rows' = rows \ {i} /\ removed' = removed \union {i}
  /\ UNCHANGED <<kind, born, open, reader>>
-----------------------------------------------------------------------------
(* The reader. *)

\* ORDER BY id, by created_at, and by created_at DESC.
MayPrecede(i, j) ==
  CASE kind = "messages"    -> i < j
    [] kind = "peers"       -> born[i] <= born[j]
    [] kind = "conclusions" -> born[i] >= born[j]

\* A query may return rows with equal keys in any order, and in another one next time.
IsAnswer(s) == \A a, b \in DOMAIN s : a < b => MayPrecede(s[a], s[b])

\* mutant: pages are counted from 0
PageFromZero(s, n) == SubSeq(s, n * PageSize + 1, Min({(n + 1) * PageSize, Len(s)}))
\* LIMIT and OFFSET of page n.
Page(s, n) == SubSeq(s, (n - 1) * PageSize + 1, Min({n * PageSize, Len(s)}))

\* mutant: the last page is taken for one that has a successor
HasNextInclusive == page <= pages
HasNextPage == page < pages

\* The first page is fetched by the call, the others by get_next_page.
Fetch ==
  /\ page = 0 \/ HasNextPage
  /\ \E s \in SetToSeqs(rows) : IsAnswer(s) /\ seen' = seen \o Page(s, page + 1)
  /\ page' = page + 1 /\ pages' = PagesOf(Cardinality(rows))
  /\ atStart' = IF page = 0 THEN rows ELSE atStart
  /\ UNCHANGED <<kind, rows, born, open, removed>>

Next ==
  \/ \E w \in Writer : Commit(w) \/ \E n \in 1..2 : Insert(w, n)
  \/ \E i \in Row : Delete(i)
  \/ Fetch

Spec == Init /\ [][Next]_vars
-----------------------------------------------------------------------------
(* Properties. *)

IterationEnded == page > 0 /\ ~HasNextPage

\* What a query that skips rows by their number may lose: something was deleted and the
\* rows after it moved up, or the row shares its created_at, all there is to order them.
MayBeMissed(i) ==
  kind # "messages" /\ (removed # {} \/ \E j \in rows \ {i} : born[j] = born[i])

\* An iteration yields every item that was there from its start to its end
\* (pagination.py:59, "Iterate over all transformed items across all pages"), except
\* those that MayBeMissed.  Iterating over messages yields the conversation, however much
\* is added meanwhile: at every moment a beginning of it, and nothing twice.
IterationIsExhaustive ==
  /\ IterationEnded =>
       \A i \in atStart \ removed : i \in ToSet(seen) \/ MayBeMissed(i)
  /\ kind = "messages" =>
       /\ \A i \in rows : (\E j \in ToSet(seen) : i < j) => i \in ToSet(seen)
       /\ IsInjective(seen)
=============================================================================
