---------------------------- MODULE SqliteJournal ---------------------------
(***************************************************************************)
(* The durable journal (crates/zeta-dispatch/src/sqlite/journal.rs): the   *)
(* table journal_entries, and the three ways an event is appended.  Every  *)
(* call is one immediate transaction: a projection that refuses the event  *)
(* rolls the inserted row back, and a crash loses the whole transaction or *)
(* only the reply, after which the caller appends the event again.         *)
(*                                                                         *)
(* The type of an event is reduced to whether it is reserved to the        *)
(* runtime.                                                                *)
(***************************************************************************)
EXTENDS Chain, FiniteSets, SequencesExt

CONSTANTS
  Events,         \* the events callers append
  Reserved,       \* the types that start with "runtime."
  Unprojectable,  \* the events the projections refuse
  MaxRows         \* bound: rows in the table

(* The fields of an event.                                                 *)
ASSUME EventsAssumption ==
  \A e \in Events :
    e = [id |-> e.id, type |-> e.type, payload |-> e.payload, key |-> e.key,
         cause |-> e.cause, session |-> e.session]

VARIABLES
  rows,           \* journal_entries, in the order of their primary key
  appended,       \* what append_in_transaction last returned and committed
  reply           \* what the last caller was told

vars == <<rows, appended, reply>>

(* The outcome of an append, with the candidate it is the outcome of.      *)
Resolved(candidate, event) ==
  [candidate |-> candidate, event |-> event, inserted |-> FALSE]
Inserted(candidate) ==
  [candidate |-> candidate, event |-> candidate, inserted |-> TRUE]
Failed(candidate, error) == [candidate |-> candidate, error |-> error]

Init ==
  /\ rows = <<>>
  /\ appended = Failed(None, None) /\ reply = Failed(None, None)

RowIds == {rows[n].event.id : n \in 1..Len(rows)}
RowKeys == {rows[n].event.key : n \in 1..Len(rows)} \ {None}

(* entry_by_field, on the two unique columns.                              *)
RowOfId(id) == CHOOSE n \in 1..Len(rows) : rows[n].event.id = id
RowOfKey(key) == CHOOSE n \in 1..Len(rows) : rows[n].event.key = key

(* last_entry_anchor and the cursor after it.                              *)
NextCursor == IF rows = <<>> THEN 1 ELSE rows[Len(rows)].cursor + 1

(* append_in_transaction: the event an append returns, and whether it is   *)
(* new.  An id duplicate must carry the retained payload; a key duplicate  *)
(* is not compared.                                                        *)
AppendInTransaction_KeyFirst(event) ==
  IF event.key \in RowKeys THEN Resolved(event, rows[RowOfKey(event.key)].event)
  ELSE IF event.id \in RowIds THEN Resolved(event, rows[RowOfId(event.id)].event)
  ELSE IF event.payload \in Unencodable THEN Failed(event, "encoding") ELSE Inserted(event)

AppendInTransaction(event) ==
  IF event.id \in RowIds
  THEN IF event.payload \in Unencodable THEN Failed(event, "encoding")
       ELSE IF PayloadAddress(event.payload) # rows[RowOfId(event.id)].payloadAddress
       THEN Failed(event, "mismatch")
       ELSE Resolved(event, rows[RowOfId(event.id)].event)
  ELSE IF event.key # None /\ event.key \in RowKeys
  THEN Resolved(event, rows[RowOfKey(event.key)].event)
  ELSE IF event.payload \in Unencodable THEN Failed(event, "encoding")
  ELSE Inserted(event)

IsFailed(outcome) == "error" \in DOMAIN outcome
IsInserted(outcome) == ~IsFailed(outcome) /\ outcome.inserted

(* same_lifecycle_intention: everything but the id and the time.           *)
SameIntention(candidate, retained) ==
  [candidate EXCEPT !.id = None] = [retained EXCEPT !.id = None]

InsertRow(event) ==
  rows' = Append(rows, JournalEntry(event, NextCursor, HeadOf(rows)))

(* The transaction of append_trusted_event: insert, project, commit.       *)
AppendTrustedEvent(event) ==
  LET outcome == AppendInTransaction(event)
  IN \/ /\ ~HasIdentity(event)
        /\ appended' = Failed(event, "identity") /\ reply' = Failed(event, "identity")
        /\ UNCHANGED rows
     \/ /\ HasIdentity(event) /\ ~IsInserted(outcome)
        /\ appended' = outcome /\ reply' = outcome
        /\ UNCHANGED rows
     \/ /\ HasIdentity(event) /\ IsInserted(outcome) /\ event \notin Unprojectable
        /\ InsertRow(event)
        /\ appended' = outcome /\ reply' = outcome
     \/ /\ HasIdentity(event) /\ IsInserted(outcome) /\ event \in Unprojectable
        /\ reply' = Failed(event, "projection")
        /\ UNCHANGED <<rows, appended>>

(* ingest_event: the runtime's own types are refused.                      *)
IngestEvent(event) ==
  \/ /\ event.type \in Reserved
     /\ reply' = Failed(event, "reserved")
     /\ UNCHANGED <<rows, appended>>
  \/ /\ event.type \notin Reserved
     /\ AppendTrustedEvent(event)

(* append_runtime_event: a duplicate must have the retained intention.     *)
AppendRuntimeEvent(event) ==
  LET outcome == AppendInTransaction(event)
      collides == \/ outcome = Failed(event, "mismatch")
                  \/ ~IsFailed(outcome) /\ ~SameIntention(event, outcome.event)
  IN /\ event.type \in Reserved
     /\ \/ /\ HasIdentity(event) /\ ~IsInserted(outcome) /\ collides
           /\ appended' = outcome /\ reply' = Failed(event, "collision")
           /\ UNCHANGED rows
        \/ /\ ~(HasIdentity(event) /\ ~IsInserted(outcome) /\ collides)
           /\ AppendTrustedEvent(event)

Next ==
  /\ Len(rows) < MaxRows
  /\ \E event \in Events : IngestEvent(event) \/ AppendRuntimeEvent(event)

Spec == Init /\ [][Next]_vars

-----------------------------------------------------------------------------
(* Properties.                                                             *)

TypeOK ==
  /\ \A n \in 1..Len(rows) : rows[n].event \in Events /\ rows[n].cursor \in Nat \ {0}
  /\ IF IsFailed(reply)
     THEN reply.error \in {None, "identity", "encoding", "mismatch", "projection",
                           "reserved", "collision"}
     ELSE reply.event \in Events

(* What the durable table adds up to is the reference journal: its rows    *)
(* are the entries, its two unique columns the indexes, its last row the   *)
(* head and the next cursor.                                               *)
Memory == INSTANCE MemoryJournal WITH
  entries <- rows,
  byId <- [id \in RowIds |-> RowOfId(id)],
  byKey <- [key \in RowKeys |-> RowOfKey(key)],
  nextCursor <- NextCursor,
  head <- HeadOf(rows),
  outcome <- appended

(* Every append of the durable journal returns and retains what the        *)
(* reference journal would: the same duplicate, the same refusal, the same *)
(* entry with the same link and cursor.                                    *)
ImplementsMemoryJournal == Memory!Spec

(* The retained journal verifies after every append, also against the head *)
(* a reader took from it.                                                  *)
RetainedJournalVerifies == Verify(rows, Exact(HeadOf(rows)))

(* What an edit of one stored row, its loss, its repetition at the end or  *)
(* its exchange with the next row may leave behind; a row that is edited   *)
(* or repeated carries its own new addresses.                              *)
Resealed(row, event) == JournalEntry(event, row.cursor, row.previous)

Lost(n) == RemoveAt(rows, n)
PayloadEdited(n, e) ==
  [rows EXCEPT ![n] = Resealed(@, [@.event EXCEPT !.payload = e.payload])]
CauseEdited(n, e) ==
  [rows EXCEPT ![n] = Resealed(@, [@.event EXCEPT !.cause = e.id])]
Exchanged(n) ==
  [rows EXCEPT ![n] = [rows[n + 1] EXCEPT !.cursor = rows[n].cursor],
               ![n + 1] = [rows[n] EXCEPT !.cursor = rows[n + 1].cursor]]
Repeated(n) == Append(rows, JournalEntry(rows[n].event, NextCursor, HeadOf(rows)))

Damaged ==
  {Lost(n) : n \in 1..Len(rows)}
    \union {PayloadEdited(n, e) : n \in 1..Len(rows), e \in Events}
    \union {CauseEdited(n, e) : n \in 1..Len(rows), e \in Events}
    \union {Exchanged(n) : n \in 1..(Len(rows) - 1)}
    \union {Repeated(n) : n \in 1..Len(rows)}

(* No such damage passes the verification against the head that was known  *)
(* before, and only a loss or an edit at the very end passes without it.   *)
DamageIsDetected ==
  \A damaged \in Damaged \ {rows} :
    /\ ~Verify(damaged, Exact(HeadOf(rows)))
    /\ Verify(damaged, Unanchored) =>
         /\ Len(damaged) >= Len(rows) - 1
         /\ SubSeq(damaged, 1, Len(rows) - 1) = SubSeq(rows, 1, Len(rows) - 1)

=============================================================================
