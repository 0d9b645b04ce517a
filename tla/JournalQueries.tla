--------------------------- MODULE JournalQueries ---------------------------
(***************************************************************************)
(* Reading the durable journal: filtered lists, causal chains, and a       *)
(* client that follows the journal page by page while events are appended  *)
(* (crates/zeta-dispatch/src/sqlite/journal.rs, zeta-tui/src/app.rs).      *)
(*                                                                         *)
(* An exact type and a type prefix are both a set of types; the run and    *)
(* the turn of an event are filtered like its session.                     *)
(***************************************************************************)
EXTENDS SqliteJournal

CONSTANT PageSize   \* the limit the client asks for

VARIABLES
  known,            \* the events the client has
  position          \* the cursor it continues from, or None

queryVars == <<vars, known, position>>

NoFilter ==
  [types |-> None, session |-> None, cause |-> None, after |-> None,
   limit |-> None, newestFirst |-> FALSE]

(* event_matches: every populated field.                                   *)
EventMatches(row, filter) ==
  /\ filter.types # None => row.event.type \in filter.types
  /\ filter.session # None => row.event.session = filter.session
  /\ filter.cause # None => row.event.cause = filter.cause
  /\ filter.after # None => row.cursor > filter.after

(* list_events: ordered, filtered, then cut to the limit.                  *)
ListEvents(filter) ==
  LET ordered == IF filter.newestFirst THEN Reverse(rows) ELSE rows
      matching == SelectSeq(ordered, LAMBDA row : EventMatches(row, filter))
  IN IF filter.limit = None \/ filter.limit >= Len(matching)
     THEN matching ELSE SubSeq(matching, 1, filter.limit)

(* causal_chain: from the event through its causes, until there is no      *)
(* parent, the parent is not retained, or it was seen.                     *)
RECURSIVE ChainTo(_, _)
ChainTo(id, seen) ==
  IF id \notin RowIds \/ id \in seen THEN <<>>
  ELSE LET event == rows[RowOfId(id)].event
       IN IF event.cause = None THEN <<event>>
          ELSE Append(ChainTo(event.cause, seen \union {id}), event)

CausalChain(id) == ChainTo(id, {})

-----------------------------------------------------------------------------
(* A client that follows the journal.                                      *)

(* append_events: known events are skipped, the rest is appended in order  *)
(* and the position becomes the highest cursor seen.                       *)
AppendEvents(page, cursor) ==
  LET fresh == SelectSeq(page, LAMBDA row : row.event.id \notin {known[n].id : n \in 1..Len(known)})
      cursors == {fresh[n].cursor : n \in 1..Len(fresh)}
                   \union ({position, cursor} \ {None})
  IN /\ known' = known \o [n \in 1..Len(fresh) |-> fresh[n].event]
     /\ position' = IF cursors = {} THEN None ELSE Max(cursors)

ReadPage_NewestFirst(limit) ==
  LET page == ListEvents([NoFilter EXCEPT !.after = position, !.limit = limit,
                                          !.newestFirst = TRUE])
      cursor == IF page = <<>> THEN position ELSE page[Len(page)].cursor
  IN /\ AppendEvents(page, cursor)
     /\ UNCHANGED vars

(* The client asks for the events after its position; the reply carries    *)
(* the cursor of the last one.  A reply may be older than the journal.     *)
ReadPage(limit) ==
  LET page == ListEvents([NoFilter EXCEPT !.after = position, !.limit = limit])
      cursor == IF page = <<>> THEN position ELSE page[Len(page)].cursor
  IN /\ AppendEvents(page, cursor)
     /\ UNCHANGED vars

QueryInit == Init /\ known = <<>> /\ position = None

QueryNext ==
  \/ Next /\ UNCHANGED <<known, position>>
  \/ ReadPage(PageSize)

QuerySpec == QueryInit /\ [][QueryNext]_queryVars

-----------------------------------------------------------------------------
(* Properties.                                                             *)

(* However appends and reads interleave, the client has a prefix of the    *)
(* journal: no event is missed, repeated or out of order.                  *)
FollowerHasPrefix ==
  /\ Len(known) <= Len(rows)
  /\ \A n \in 1..Len(known) : known[n] = rows[n].event

(* The causal chain of an event ends with the event, every element is the  *)
(* cause of the next one, no event is repeated even when causes form a     *)
(* cycle, and the chain stops only where the code says it may.             *)
ChainIsComplete ==
  \A n \in 1..Len(rows) :
    LET chain == CausalChain(rows[n].event.id)
        ids == {chain[k].id : k \in 1..Len(chain)}
    IN /\ chain[Len(chain)] = rows[n].event
       /\ \A k \in 1..(Len(chain) - 1) : chain[k + 1].cause = chain[k].id
       /\ Cardinality(ids) = Len(chain)
       /\ chain[1].cause = None \/ chain[1].cause \notin RowIds \/ chain[1].cause \in ids

(* The list of a cause, a session or a type, after any cursor and up to    *)
(* any limit, holds the first, or the last, of exactly the rows that have  *)
(* it, each once and in the order of the journal or against it.            *)
ListsAgree ==
  \A row \in Range(rows), after \in {None} \union {rows[n].cursor : n \in DOMAIN rows},
     limit \in {1, 2, None}, newestFirst \in BOOLEAN :
    LET page == [NoFilter EXCEPT !.after = after, !.limit = limit, !.newestFirst = newestFirst]
        before(m, n) == IF newestFirst THEN m > n ELSE m < n
        follows(n) == after # None => rows[n].cursor > after
        right(filter, has(_)) ==
          LET listed == ListEvents(filter)
              matching == {n \in DOMAIN rows : has(rows[n].event) /\ follows(n)}
              order == SetToSortSeq(matching, before)
          IN /\ Len(listed) = (IF limit = None THEN Cardinality(matching)
                              ELSE Min({limit, Cardinality(matching)}))
             /\ \A n \in DOMAIN listed : listed[n] = rows[order[n]]
    IN /\ right([page EXCEPT !.cause = row.event.id], LAMBDA e : e.cause = row.event.id)
       /\ row.event.session # None =>
            right([page EXCEPT !.session = row.event.session],
                  LAMBDA e : e.session = row.event.session)
       /\ right([page EXCEPT !.types = {row.event.type}],
                LAMBDA e : e.type = row.event.type)

(* What readers are given while others append is what the journal holds:   *)
(* a client that pages by cursor has a prefix of it, the causal chain of   *)
(* an event is complete and ends even when causes form a cycle, and lists  *)
(* hold the same events in both directions.                                *)
ReadersSeeTheJournal == FollowerHasPrefix /\ ChainIsComplete /\ ListsAgree

=============================================================================
