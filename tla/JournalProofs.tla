---------------------------- MODULE JournalProofs ---------------------------
(***************************************************************************)
(* The durable journal always verifies, and it implements the reference    *)
(* journal.                                                                *)
(*                                                                         *)
(* What verify accepts is not inductive by itself: the cursors have to be  *)
(* the positions, so that the next one is fresh, and the rows have to form *)
(* a sequence, so that an append leaves the earlier ones alone.            *)
(***************************************************************************)
EXTENDS SqliteJournal, WellFoundedInduction, TLAPS

(* Both provers are given time on every leaf that names none.              *)
USE SMTT(20), ZenonT(20)

Entries(s) == {s[n] : n \in DOMAIN s}

JournalInv ==
  /\ rows \in Seq(Entries(rows))
  /\ \A n \in 1..Len(rows) : rows[n].cursor = n
  /\ \A n \in 1..Len(rows) : VerifiesEntry(rows, n)
  /\ \A n \in 1..Len(rows) :
       /\ rows[n].event \in Events
       /\ rows[n] = JournalEntry(rows[n].event, rows[n].cursor, rows[n].previous)

(* What an append that is new may rely on: neither its id nor its key is   *)
(* retained, and its payload has canonical bytes.                          *)
Fresh(event) ==
  /\ HasIdentity(event)
  /\ event.id \notin RowIds
  /\ event.key = None \/ event.key \notin RowKeys
  /\ event.payload \notin Unencodable

-----------------------------------------------------------------------------
(* An append keeps the rows there were and adds the new one behind them.   *)
LEMMA AppendKeepsRows ==
  ASSUME NEW s, s \in Seq(Entries(s)), NEW e
  PROVE  /\ Append(s, e) \in Seq(Entries(Append(s, e)))
         /\ Len(s) \in Nat
         /\ Len(Append(s, e)) = Len(s) + 1
         /\ \A n \in 1..Len(s) : Append(s, e)[n] = s[n]
         /\ Append(s, e)[Len(s) + 1] = e
<1> DEFINE T == Entries(s) \union {e}
<1>1. s \in Seq(T) /\ e \in T
  BY DEF Entries
<1>2. /\ Append(s, e) \in Seq(T)
      /\ Len(s) \in Nat
      /\ Len(Append(s, e)) = Len(s) + 1
      /\ \A n \in 1..Len(s) : Append(s, e)[n] = s[n]
      /\ Append(s, e)[Len(s) + 1] = e
  BY <1>1
<1>3. DOMAIN Append(s, e) = 1..Len(Append(s, e))
  BY <1>2
<1>4. \A n \in 1..Len(Append(s, e)) : Append(s, e)[n] \in Entries(Append(s, e))
  BY <1>3 DEF Entries
<1>5. Append(s, e) \in Seq(Entries(Append(s, e)))
  BY <1>2, <1>3, <1>4
<1> QED
  BY <1>2, <1>5

(* append_in_transaction reports a new event only when it is fresh.        *)
LEMMA NewIsFresh ==
  ASSUME NEW event, HasIdentity(event), IsInserted(AppendInTransaction(event))
  PROVE  Fresh(event) /\ AppendInTransaction(event) = Inserted(event)
BY DEF IsInserted, IsFailed, AppendInTransaction, Resolved, Inserted, Failed, Fresh

(* A step leaves the table alone or inserts one fresh event.               *)
LEMMA StepOfRows ==
  ASSUME [Next]_vars
  PROVE  \/ rows' = rows
         \/ \E event \in Events : Fresh(event) /\ InsertRow(event)
<1>1. CASE UNCHANGED vars
  BY <1>1 DEF vars
<1>2. CASE Next
  <2>1. PICK event \in Events : IngestEvent(event) \/ AppendRuntimeEvent(event)
    BY <1>2 DEF Next
  <2>2. CASE rows' = rows
    BY <2>2
  <2>3. CASE rows' # rows
    <3>1. HasIdentity(event) /\ IsInserted(AppendInTransaction(event)) /\ InsertRow(event)
      BY <2>1, <2>3 DEF IngestEvent, AppendRuntimeEvent, AppendTrustedEvent
    <3> QED
      BY <3>1, NewIsFresh
  <2> QED
    BY <2>2, <2>3
<1> QED
  BY <1>1, <1>2

-----------------------------------------------------------------------------
(* Inserting a fresh event keeps the invariant.                            *)
LEMMA InsertKeepsInv ==
  ASSUME JournalInv, NEW event \in Events, Fresh(event), InsertRow(event)
  PROVE  JournalInv'
<1> DEFINE k == Len(rows)
           entry == JournalEntry(event, NextCursor, HeadOf(rows))
<1>1. rows' = Append(rows, entry)
  BY DEF InsertRow
<1>2. /\ rows' \in Seq(Entries(rows'))
      /\ k \in Nat /\ Len(rows') = k + 1
      /\ \A n \in 1..k : rows'[n] = rows[n]
      /\ rows'[k + 1] = entry
  BY <1>1, AppendKeepsRows DEF JournalInv
<1>3. rows = <<>> <=> k = 0
  BY DEF JournalInv
<1>4. NextCursor = k + 1
  BY <1>2, <1>3 DEF NextCursor, JournalInv
<1>5. \A n \in 1..Len(rows') : rows'[n].cursor = n
  BY <1>2, <1>4 DEF JournalInv, JournalEntry
<1>6. \A n \in 1..k : VerifiesEntry(rows', n)
  <2> SUFFICES ASSUME NEW n \in 1..k
               PROVE  VerifiesEntry(rows', n)
    OBVIOUS
  <2>1. VerifiesEntry(rows, n)
    BY DEF JournalInv
  <2>2. /\ rows'[n] = rows[n]
        /\ n > 1 => rows'[n - 1] = rows[n - 1]
        /\ \A m \in 1..(n - 1) : rows'[m] = rows[m]
    BY <1>2
  <2>3. PreviousAddress(rows', n) = PreviousAddress(rows, n)
    BY <1>2, <2>2 DEF PreviousAddress
  <2> QED
    BY <1>2, <2>1, <2>2, <2>3 DEF VerifiesEntry
<1>7. VerifiesEntry(rows', k + 1)
  <2>1. HeadOf(rows) = PreviousAddress(rows', k + 1)
    BY <1>2, <1>3 DEF HeadOf, PreviousAddress
  <2>2. \A m \in 1..k : /\ rows'[m].event.id # event.id
                        /\ event.key # None => rows'[m].event.key # event.key
    BY <1>2 DEF Fresh, RowIds, RowKeys
  <2>3. /\ entry.event = event /\ entry.cursor = k + 1
        /\ entry.payloadAddress = PayloadAddress(event.payload)
        /\ entry.previous = HeadOf(rows)
        /\ entry.address = EntryAddress(event, PayloadAddress(event.payload), HeadOf(rows))
    BY <1>4 DEF JournalEntry
  <2>4. k + 1 > 1 => k + 1 > rows'[k].cursor
    BY <1>2 DEF JournalInv
  <2>5. (k + 1) - 1 = k
    BY <1>2
  <2> HIDE DEF entry
  <2> QED
    BY <1>2, <2>1, <2>2, <2>3, <2>4, <2>5 DEF VerifiesEntry, Fresh
<1>8. \A n \in 1..Len(rows') : VerifiesEntry(rows', n)
  BY <1>2, <1>6, <1>7
<1>9. \A n \in 1..Len(rows') :
        /\ rows'[n].event \in Events
        /\ rows'[n] = JournalEntry(rows'[n].event, rows'[n].cursor, rows'[n].previous)
  <2>1. entry = JournalEntry(entry.event, entry.cursor, entry.previous) /\ entry.event = event
    BY DEF JournalEntry
  <2> HIDE DEF entry
  <2> QED
    BY <1>2, <2>1 DEF JournalInv
<1> QED
  BY <1>2, <1>5, <1>8, <1>9 DEF JournalInv

(* The empty journal satisfies the invariant.                              *)
LEMMA InitInv == Init => JournalInv
BY DEF Init, JournalInv, Entries

(* Every step preserves the invariant.                                     *)
LEMMA NextInv == JournalInv /\ [Next]_vars => JournalInv'
<1> SUFFICES ASSUME JournalInv, [Next]_vars
             PROVE  JournalInv'
  OBVIOUS
<1>1. CASE rows' = rows
  BY <1>1 DEF JournalInv
<1>2. ASSUME NEW event \in Events, Fresh(event), InsertRow(event)
      PROVE  JournalInv'
  BY <1>2, InsertKeepsInv
<1> QED
  BY <1>1, <1>2, StepOfRows

(* The invariant holds in every state.                                     *)
LEMMA InvHolds == Spec => []JournalInv
BY InitInv, NextInv, PTL DEF Spec

(* Whatever is appended, refused or resolved, in any order, the retained   *)
(* journal verifies against the head a reader took from it.                *)
THEOREM JournalVerifies == Spec => []RetainedJournalVerifies
<1>1. JournalInv => RetainedJournalVerifies
  BY DEF JournalInv, RetainedJournalVerifies, Verify, Exact
<1> QED
  BY <1>1, InvHolds, PTL

-----------------------------------------------------------------------------
(* Damage.  An address is the value that is hashed, so two entries with    *)
(* one address carry the same fields behind the same link.                 *)
SameEvent(e, f) ==
  /\ e.id = f.id /\ e.type = f.type /\ e.payload = f.payload
  /\ e.key = f.key /\ e.cause = f.cause /\ e.session = f.session

(* An address is never the mark of a missing one.                          *)
LEMMA AddressIsSome ==
  ASSUME NEW e, NEW a, NEW p
  PROVE  EntryAddress(e, a, p) # NoAddress
BY DEF EntryAddress, NoAddress

(* What verify has established of an entry it accepts.                     *)
LEMMA VerifiedEntry ==
  ASSUME NEW s, NEW n, VerifiesEntry(s, n)
  PROVE  /\ s[n].address = EntryAddress(s[n].event, PayloadAddress(s[n].event.payload),
                                        s[n].previous)
         /\ s[n].address # NoAddress
         /\ s[n].previous = PreviousAddress(s, n)
BY AddressIsSome DEF VerifiesEntry

(* No two rows have one address.                                           *)
LEMMA AddressesDiffer ==
  ASSUME JournalInv, NEW m \in 1..Len(rows), NEW n \in 1..Len(rows), m # n
  PROVE  rows[m].address # rows[n].address
<1>0. Len(rows) \in Nat
  BY DEF JournalInv
<1>1. VerifiesEntry(rows, m) /\ VerifiesEntry(rows, n)
  BY DEF JournalInv
<1>2. rows[m].event.id # rows[n].event.id
  <2>1. CASE m < n
    BY <1>0, <1>1, <2>1 DEF VerifiesEntry
  <2>2. CASE n < m
    BY <1>0, <1>1, <2>2 DEF VerifiesEntry
  <2> QED
    BY <1>0, <2>1, <2>2
<1>3. SUFFICES ASSUME rows[m].address = rows[n].address PROVE FALSE
  OBVIOUS
<1>4. EntryAddress(rows[m].event, PayloadAddress(rows[m].event.payload), rows[m].previous) =
        EntryAddress(rows[n].event, PayloadAddress(rows[n].event.payload), rows[n].previous)
  BY <1>1, <1>3, VerifiedEntry
<1>5. SameEvent(rows[m].event, rows[n].event)
  BY <1>4 DEF EntryAddress, PayloadAddress, SameEvent
<1> QED
  BY <1>2, <1>5 DEF SameEvent

(* What is left when one element is removed.                               *)
LEMMA RemovedAt ==
  ASSUME NEW X, NEW s \in Seq(X), NEW n \in 1..Len(s)
  PROVE  /\ Len(RemoveAt(s, n)) = Len(s) - 1
         /\ \A i \in 1..(n - 1) : RemoveAt(s, n)[i] = s[i]
         /\ \A i \in n..(Len(s) - 1) : RemoveAt(s, n)[i] = s[i + 1]
<1> DEFINE k == Len(s)
           a == SubSeq(s, 1, n - 1)
           b == SubSeq(s, n + 1, k)
<1>1. k \in Nat /\ n \in 1..k
  OBVIOUS
<1>2. a \in Seq(X) /\ Len(a) = n - 1 /\ \A i \in 1..(n - 1) : a[i] = s[i]
  OBVIOUS
<1>3. b \in Seq(X) /\ Len(b) = k - n /\ \A i \in 1..(k - n) : b[i] = s[i + n]
  OBVIOUS
<1> DEFINE c == RemoveAt(s, n)
<1>4. c = a \o b
  BY DEF RemoveAt
<1> SUFFICES /\ Len(c) = k - 1
             /\ \A i \in 1..(n - 1) : c[i] = s[i]
             /\ \A i \in n..(k - 1) : c[i] = s[i + 1]
  OBVIOUS
<1> HIDE DEF a, b, c, k
<1>5. /\ Len(c) = Len(a) + Len(b)
      /\ \A i \in 1..Len(a) : c[i] = a[i]
      /\ \A i \in 1..Len(b) : c[Len(a) + i] = b[i]
  <2>1. a \in Seq(X) /\ b \in Seq(X)
    BY <1>2, <1>3
  <2>2. /\ Len(a \o b) = Len(a) + Len(b)
        /\ \A i \in 1..Len(a) : (a \o b)[i] = a[i]
        /\ \A i \in 1..Len(b) : (a \o b)[Len(a) + i] = b[i]
    BY <2>1
  <2> QED
    BY <1>4, <2>2
<1>6. ASSUME NEW i \in n..(k - 1) PROVE c[i] = s[i + 1]
  <2>1. PICK j \in 1..(k - n) : i = (n - 1) + j /\ j + n = i + 1
    <3>1. i - (n - 1) \in 1..(k - n)
      BY <1>1
    <3> QED
      BY <1>1, <3>1
  <2>2. c[(n - 1) + j] = s[j + n]
    BY <1>2, <1>3, <1>5
  <2> QED
    BY <2>1, <2>2
<1> QED
  BY <1>1, <1>2, <1>3, <1>5, <1>6

(* A row that was lost.                                                    *)
LEMMA LossIsDetected ==
  ASSUME JournalInv, NEW n \in 1..Len(rows)
  PROVE  /\ ~Verify(RemoveAt(rows, n), Exact(HeadOf(rows)))
         /\ Verify(RemoveAt(rows, n), Unanchored) => n = Len(rows)
         /\ n = Len(rows) => RemoveAt(rows, n) = SubSeq(rows, 1, Len(rows) - 1)
<1> DEFINE d == RemoveAt(rows, n)
           k == Len(rows)
<1>1. k \in Nat \ {0} /\ rows \in Seq(Entries(rows)) /\ n \in 1..k
  BY DEF JournalInv
<1>2. /\ Len(d) = k - 1
      /\ \A i \in 1..(n - 1) : d[i] = rows[i]
      /\ \A i \in n..(k - 1) : d[i] = rows[i + 1]
  BY <1>1, RemovedAt
<1>3. n = k => d = SubSeq(rows, 1, k - 1)
  <2> SUFFICES ASSUME n = k PROVE d = SubSeq(rows, 1, k - 1)
    OBVIOUS
  <2>1. SubSeq(rows, k + 1, k) = <<>>
    BY <1>1
  <2>2. SubSeq(rows, 1, k - 1) \in Seq(Entries(rows))
    BY <1>1
  <2>3. SubSeq(rows, 1, k - 1) \o <<>> = SubSeq(rows, 1, k - 1)
    BY <2>2
  <2> QED
    BY <2>1, <2>3 DEF RemoveAt
<1> HIDE DEF d
<1>4. /\ n > 1 => rows[n - 1].address # rows[n].address
      /\ rows[n].address # NoAddress
  BY <1>1, AddressesDiffer, VerifiedEntry DEF JournalInv
<1>5. n < k => ~VerifiesEntry(d, n)
  <2> SUFFICES ASSUME n < k PROVE ~VerifiesEntry(d, n)
    OBVIOUS
  <2>1. d[n].previous = rows[n].address
    <3>1. rows[n + 1].previous = PreviousAddress(rows, n + 1)
      BY <1>1, VerifiedEntry DEF JournalInv
    <3> QED
      BY <1>1, <1>2, <3>1 DEF PreviousAddress
  <2>2. PreviousAddress(d, n) # rows[n].address
    BY <1>1, <1>2, <1>4 DEF PreviousAddress
  <2> QED
    BY <2>1, <2>2 DEF VerifiesEntry
<1>6. n = k => HeadOf(d) # HeadOf(rows)
  <2> SUFFICES ASSUME n = k PROVE HeadOf(d) # HeadOf(rows)
    OBVIOUS
  <2>1. HeadOf(rows) = rows[k].address
    BY <1>1 DEF HeadOf
  <2>2. \/ HeadOf(d) = NoAddress
        \/ HeadOf(d) = rows[k - 1].address /\ k > 1
    <3>1. CASE k = 1
      <4>1. d = <<>>
        BY <1>1, <1>3, <3>1
      <4> QED
        BY <4>1 DEF HeadOf
    <3>2. CASE k > 1
      BY <1>1, <1>2, <3>2 DEF HeadOf
    <3> QED
      BY <1>1, <3>1, <3>2
  <2> QED
    BY <1>4, <2>1, <2>2
<1> QED
  BY <1>1, <1>2, <1>3, <1>5, <1>6 DEF Verify, Exact, Unanchored, d

(* A row that was edited and given addresses of its own.                   *)
LEMMA EditIsDetected ==
  ASSUME JournalInv, NEW n \in 1..Len(rows), NEW event,
         event = [id |-> event.id, type |-> event.type, payload |-> event.payload,
                  key |-> event.key, cause |-> event.cause, session |-> event.session],
         NEW d, d = [rows EXCEPT ![n] = Resealed(rows[n], event)], d # rows
  PROVE  /\ ~Verify(d, Exact(HeadOf(rows)))
         /\ Len(d) = Len(rows)
         /\ Verify(d, Unanchored) => SubSeq(d, 1, Len(rows) - 1) = SubSeq(rows, 1, Len(rows) - 1)
<1> DEFINE k == Len(rows)
           row == rows[n]
           edited == Resealed(row, event)
<1>1. k \in Nat \ {0} /\ rows \in Seq(Entries(rows)) /\ n \in 1..k /\ DOMAIN rows = 1..k
  BY DEF JournalInv
<1>2. /\ Len(d) = k /\ d[n] = edited
      /\ \A i \in 1..k : i # n => d[i] = rows[i]
  BY <1>1
<1>3. row = JournalEntry(row.event, row.cursor, row.previous) /\ row.event \in Events
  BY DEF JournalInv
<1>4. edited.address # row.address
  <2> SUFFICES ASSUME edited.address = row.address PROVE FALSE
    OBVIOUS
  <2>1. EntryAddress(event, PayloadAddress(event.payload), row.previous) =
          EntryAddress(row.event, PayloadAddress(row.event.payload), row.previous)
    BY <1>3 DEF Resealed, JournalEntry
  <2>2. SameEvent(event, row.event)
    BY <2>1 DEF EntryAddress, PayloadAddress, SameEvent
  <2>3. event = row.event
    BY <1>3, <2>2, EventsAssumption DEF SameEvent
  <2>4. edited = row
    BY <1>3, <2>3 DEF Resealed
  <2>5. d = rows
    BY <1>1, <2>4
  <2> QED
    BY <2>5
<1> HIDE DEF edited
<1>5. n < k => ~VerifiesEntry(d, n + 1)
  <2> SUFFICES ASSUME n < k PROVE ~VerifiesEntry(d, n + 1)
    OBVIOUS
  <2>1. d[n + 1].previous = row.address
    <3>1. rows[n + 1].previous = PreviousAddress(rows, n + 1)
      BY <1>1, VerifiedEntry DEF JournalInv
    <3> QED
      BY <1>1, <1>2, <3>1 DEF PreviousAddress
  <2>2. PreviousAddress(d, n + 1) # row.address
    BY <1>1, <1>2, <1>4 DEF PreviousAddress
  <2> QED
    BY <2>1, <2>2 DEF VerifiesEntry
<1>6. n = k => HeadOf(d) # HeadOf(rows)
  <2>1. d # <<>> /\ rows # <<>>
    BY <1>1, <1>2
  <2> QED
    BY <1>1, <1>2, <1>4, <2>1 DEF HeadOf
<1>7. n = k => SubSeq(d, 1, k - 1) = SubSeq(rows, 1, k - 1)
  <2> SUFFICES ASSUME n = k PROVE SubSeq(d, 1, k - 1) = SubSeq(rows, 1, k - 1)
    OBVIOUS
  <2>1. \A i \in 1..(k - 1) : d[i] = rows[i]
    BY <1>1, <1>2
  <2> QED
    BY <1>1, <2>1
<1>8. ASSUME NEW expectation, Verify(d, expectation) PROVE n = k
  <2>1. \A i \in 1..Len(d) : VerifiesEntry(d, i)
    BY <1>8, Zenon DEF Verify
  <2>2. n < k => n + 1 \in 1..Len(d)
    BY <1>1, <1>2
  <2>3. ~(n < k)
    BY <1>5, <2>1, <2>2, Zenon
  <2> QED
    BY <1>1, <2>3
<1>9. HeadOf(d) # HeadOf(rows) => ~Verify(d, Exact(HeadOf(rows)))
  BY DEF Verify, Exact
<1>10. /\ ~Verify(d, Exact(HeadOf(rows)))
       /\ Verify(d, Unanchored) => SubSeq(d, 1, k - 1) = SubSeq(rows, 1, k - 1)
  BY <1>6, <1>7, <1>8, <1>9, Zenon
<1> QED
  BY <1>2, <1>10

(* Two neighbours that changed places and kept the cursors in order.       *)
LEMMA ExchangeIsDetected ==
  ASSUME JournalInv, NEW n \in 1..(Len(rows) - 1), NEW d, d = Exchanged(n)
  PROVE  \A expectation : ~Verify(d, expectation)
<1> DEFINE k == Len(rows)
<1>1. /\ k \in Nat /\ n \in 1..(k - 1) /\ n + 1 \in 1..k /\ n # n + 1
      /\ rows \in Seq(Entries(rows)) /\ DOMAIN rows = 1..k
  BY DEF JournalInv
<1>2. /\ Len(d) = k /\ d[n] = [rows[n + 1] EXCEPT !.cursor = rows[n].cursor]
      /\ n > 1 => d[n - 1] = rows[n - 1]
  BY <1>1 DEF Exchanged
<1>3. d[n].previous = rows[n].address
  <2>1. rows[n + 1] = JournalEntry(rows[n + 1].event, rows[n + 1].cursor, rows[n + 1].previous)
    BY <1>1 DEF JournalInv
  <2>2. d[n].previous = rows[n + 1].previous
    BY <1>2, <2>1 DEF JournalEntry
  <2>3. rows[n + 1].previous = PreviousAddress(rows, n + 1)
    BY <1>1, VerifiedEntry DEF JournalInv
  <2> QED
    BY <1>1, <2>2, <2>3 DEF PreviousAddress
<1>4. /\ n > 1 => rows[n - 1].address # rows[n].address
      /\ rows[n].address # NoAddress
  BY <1>1, AddressesDiffer, VerifiedEntry DEF JournalInv
<1>5. PreviousAddress(d, n) # rows[n].address
  BY <1>1, <1>2, <1>4 DEF PreviousAddress
<1>6. ~VerifiesEntry(d, n)
  BY <1>3, <1>5 DEF VerifiesEntry
<1> QED
  BY <1>1, <1>2, <1>6 DEF Verify

(* A row that was written again behind the last one: its link is right,    *)
(* and its id is found twice.                                              *)
LEMMA RepetitionIsDetected ==
  ASSUME JournalInv, NEW n \in 1..Len(rows), NEW d, d = Repeated(n)
  PROVE  \A expectation : ~Verify(d, expectation)
<1> DEFINE k == Len(rows)
           row == JournalEntry(rows[n].event, NextCursor, HeadOf(rows))
<1>1. k \in Nat /\ n \in 1..k /\ rows \in Seq(Entries(rows))
  BY DEF JournalInv
<1>2. row.event = rows[n].event
  BY DEF JournalEntry
<1>3. d = Append(rows, row)
  BY DEF Repeated
<1> HIDE DEF row
<1>4. Len(d) = k + 1 /\ d[k + 1] = row /\ d[n] = rows[n]
  BY <1>1, <1>3
<1>5. ~VerifiesEntry(d, k + 1)
  <2>1. n \in 1..(k + 1 - 1) /\ d[n].event.id = d[k + 1].event.id
    BY <1>1, <1>2, <1>4
  <2> QED
    BY <2>1 DEF VerifiesEntry
<1>6. k + 1 \in 1..Len(d)
  BY <1>1, <1>4
<1> QED
  BY <1>5, <1>6, Zenon DEF Verify

(* A front of a sequence is its own front.                                 *)
LEMMA FrontOfRows ==
  ASSUME NEW X, NEW s \in Seq(X), NEW m \in Nat, m <= Len(s)
  PROVE  /\ Len(SubSeq(s, 1, m)) = m
         /\ SubSeq(SubSeq(s, 1, m), 1, m) = SubSeq(s, 1, m)
<1> DEFINE f == SubSeq(s, 1, m)
<1>1. f \in Seq(X) /\ Len(f) = m
  OBVIOUS
<1> HIDE DEF f
<1>2. SubSeq(f, 1, m) = f
  BY <1>1
<1> QED
  BY <1>1, <1>2 DEF f

(* No loss, edit, exchange or repetition of rows passes the verification   *)
(* against the head that was known before, even when the addresses of the  *)
(* damaged row are made anew; without the head, only the last row may go   *)
(* or change.                                                              *)
THEOREM JournalDetectsDamage == Spec => []DamageIsDetected
<1>1. JournalInv => DamageIsDetected
  <2> SUFFICES ASSUME JournalInv, NEW d \in Damaged, d # rows
               PROVE  /\ ~Verify(d, Exact(HeadOf(rows)))
                      /\ Verify(d, Unanchored) =>
                           /\ Len(d) >= Len(rows) - 1
                           /\ SubSeq(d, 1, Len(rows) - 1) = SubSeq(rows, 1, Len(rows) - 1)
    BY DEF DamageIsDetected
  <2>0. Len(rows) \in Nat /\ rows \in Seq(Entries(rows))
    BY DEF JournalInv
  <2>1. ASSUME NEW n \in 1..Len(rows), d = Lost(n)
        PROVE  /\ ~Verify(d, Exact(HeadOf(rows)))
               /\ Verify(d, Unanchored) =>
                    /\ Len(d) >= Len(rows) - 1
                    /\ SubSeq(d, 1, Len(rows) - 1) = SubSeq(rows, 1, Len(rows) - 1)
    <3> DEFINE s == SubSeq(rows, 1, Len(rows) - 1)
    <3>1. /\ ~Verify(d, Exact(HeadOf(rows)))
          /\ Verify(d, Unanchored) => d = s
      BY <2>1, LossIsDetected, Zenon DEF Lost
    <3>0. Len(rows) - 1 \in Nat /\ Len(rows) - 1 <= Len(rows)
      BY <2>0
    <3>2. Len(s) = Len(rows) - 1 /\ SubSeq(s, 1, Len(rows) - 1) = s
      BY <2>0, <3>0, FrontOfRows
    <3> HIDE DEF s
    <3>3. SubSeq(rows, 1, Len(rows) - 1) = s /\ Len(rows) - 1 >= Len(rows) - 1
      BY <3>0 DEF s
    <3> QED
      BY <3>1, <3>2, <3>3, Zenon
  <2>2. ASSUME NEW n \in 1..Len(rows), NEW e \in Events,
               d \in {PayloadEdited(n, e), CauseEdited(n, e)}
        PROVE  /\ ~Verify(d, Exact(HeadOf(rows)))
               /\ Verify(d, Unanchored) =>
                    /\ Len(d) >= Len(rows) - 1
                    /\ SubSeq(d, 1, Len(rows) - 1) = SubSeq(rows, 1, Len(rows) - 1)
    <3> DEFINE was == rows[n].event
    <3>1. was = [id |-> was.id, type |-> was.type, payload |-> was.payload,
                 key |-> was.key, cause |-> was.cause, session |-> was.session]
      BY EventsAssumption DEF JournalInv
    <3>2. PICK event :
            /\ event \in {[was EXCEPT !.payload = e.payload], [was EXCEPT !.cause = e.id]}
            /\ d = [rows EXCEPT ![n] = Resealed(rows[n], event)]
      BY <2>2 DEF PayloadEdited, CauseEdited
    <3>3. event = [id |-> event.id, type |-> event.type, payload |-> event.payload,
                   key |-> event.key, cause |-> event.cause, session |-> event.session]
      BY <3>1, <3>2
    <3>4. /\ ~Verify(d, Exact(HeadOf(rows))) /\ Len(d) = Len(rows)
          /\ Verify(d, Unanchored) =>
               SubSeq(d, 1, Len(rows) - 1) = SubSeq(rows, 1, Len(rows) - 1)
      BY <3>2, <3>3, EditIsDetected, Zenon
    <3>5. Len(d) >= Len(rows) - 1
      BY <2>0, <3>4
    <3> QED
      BY <3>4, <3>5, Zenon
  <2>3. ASSUME NEW n \in 1..(Len(rows) - 1), d = Exchanged(n)
        PROVE  ~Verify(d, Exact(HeadOf(rows))) /\ ~Verify(d, Unanchored)
    BY <2>3, ExchangeIsDetected, Zenon
  <2>4. \/ \E n \in 1..Len(rows) : d = Lost(n)
        \/ \E n \in 1..Len(rows), e \in Events : d \in {PayloadEdited(n, e), CauseEdited(n, e)}
        \/ \E n \in 1..(Len(rows) - 1) : d = Exchanged(n)
        \/ \E n \in 1..Len(rows) : d = Repeated(n)
    BY DEF Damaged
  <2>5. ASSUME NEW n \in 1..Len(rows), d = Repeated(n)
        PROVE  ~Verify(d, Exact(HeadOf(rows))) /\ ~Verify(d, Unanchored)
    BY <2>5, RepetitionIsDetected, Zenon
  <2> QED
    BY <2>1, <2>2, <2>3, <2>4, <2>5, Zenon
<1> QED
  BY <1>1, InvHolds, PTL

-----------------------------------------------------------------------------
(* A head stands for one history.  Induction goes through the least number *)
(* that is an exception.                                                   *)
LEMMA LeastOf ==
  ASSUME NEW T, T \subseteq Nat, T # {}
  PROVE  \E x \in T : \A y \in T : ~(y < x)
<1> DEFINE R == OpToRel(<, Nat)
<1>1. IsWellFoundedOn(R, Nat)
  BY NatLessThanWellFounded
<1>2. \A x, y \in Nat : x < y => <<x, y>> \in R
  BY DEF OpToRel
<1> HIDE DEF R
<1>3. PICK x \in T : \A y \in T : ~(<<y, x>> \in R)
  BY <1>1, WFMin
<1> QED
  BY <1>2, <1>3, Zenon

(* Entries that verify.                                                    *)
Chained(s) ==
  /\ Len(s) \in Nat /\ (s = <<>> <=> Len(s) = 0)
  /\ \A n \in 1..Len(s) : VerifiesEntry(s, n)

(* Counted from the head, what one journal holds the other holds.          *)
LEMMA SameFromTheHead ==
  ASSUME NEW s, NEW t, Chained(s), Chained(t), HeadOf(s) = HeadOf(t)
  PROVE  \A i \in Nat : i < Len(s) =>
           i < Len(t) /\ s[Len(s) - i].address = t[Len(t) - i].address
<1> DEFINE k == Len(s)
           l == Len(t)
           Same(i) == i < l /\ s[k - i].address = t[l - i].address
           D == {i \in Nat : i < k /\ ~Same(i)}
<1>0. /\ k \in Nat /\ l \in Nat /\ (s = <<>> <=> k = 0) /\ (t = <<>> <=> l = 0)
      /\ \A n \in 1..k : VerifiesEntry(s, n)
      /\ \A n \in 1..l : VerifiesEntry(t, n)
  BY DEF Chained
<1>1. SUFFICES ASSUME D # {} PROVE FALSE
  OBVIOUS
<1>2. PICK x \in D : \A y \in D : ~(y < x)
  BY <1>1, LeastOf
<1>3. x \in Nat /\ x < k /\ ~Same(x)
  BY <1>2
<1>4. CASE x = 0
  <2>1. HeadOf(s) = s[k].address /\ s[k].address # NoAddress
    BY <1>0, <1>3, <1>4, VerifiedEntry DEF HeadOf
  <2>2. t # <<>> /\ HeadOf(t) = t[l].address
    BY <1>0, <2>1 DEF HeadOf
  <2>3. k - 0 = k /\ l - 0 = l /\ 0 < l
    BY <1>0, <2>2
  <2> QED
    BY <1>3, <1>4, <2>1, <2>2, <2>3
<1>5. CASE x # 0
  <2> DEFINE a == k - (x - 1)
             b == l - (x - 1)
  <2>1. x - 1 \in Nat /\ x - 1 < k /\ x - 1 < x
    BY <1>0, <1>3, <1>5
  <2>2. Same(x - 1)
    BY <1>2, <2>1
  <2>3. /\ a \in 1..k /\ b \in 1..l /\ a > 1 /\ a - 1 = k - x /\ b - 1 = l - x
        /\ k - x \in 1..k
        /\ b # 1 => x < l
    BY <1>0, <1>3, <1>5, <2>1, <2>2
  <2>4. s[a].address = t[b].address
    BY <2>2
  <2> HIDE DEF a, b
  <2>5. /\ s[a].address = EntryAddress(s[a].event, PayloadAddress(s[a].event.payload),
                                       s[a].previous)
        /\ t[b].address = EntryAddress(t[b].event, PayloadAddress(t[b].event.payload),
                                       t[b].previous)
        /\ s[a].previous = PreviousAddress(s, a) /\ t[b].previous = PreviousAddress(t, b)
        /\ s[k - x].address # NoAddress
    BY <1>0, <2>3, VerifiedEntry, Zenon
  <2>6. s[a].previous = t[b].previous
    <3>1. EntryAddress(s[a].event, PayloadAddress(s[a].event.payload), s[a].previous) =
            EntryAddress(t[b].event, PayloadAddress(t[b].event.payload), t[b].previous)
      BY <2>4, <2>5
    <3> QED
      BY <3>1 DEF EntryAddress
  <2>7. s[a].previous = s[k - x].address
    BY <2>3, <2>5 DEF PreviousAddress
  <2>8. b # 1 /\ t[b].previous = t[l - x].address
    BY <2>3, <2>5, <2>6, <2>7 DEF PreviousAddress
  <2> QED
    BY <1>3, <2>3, <2>6, <2>7, <2>8
<1> QED
  BY <1>4, <1>5

(* Whatever verifies against the head of the journal is the journal.       *)
HeadFixesJournal ==
  \A S : \A s \in Seq(S) : Verify(s, Exact(HeadOf(rows))) =>
    /\ Len(s) = Len(rows)
    /\ \A n \in 1..Len(rows) : SameEvent(s[n].event, rows[n].event)

(* A trusted head is enough: any sequence of entries that verify accepts   *)
(* against it has as many entries as the journal, with the same events in  *)
(* the same order.  Cursors may differ, since no address covers them.      *)
THEOREM HeadStandsForJournal == Spec => []HeadFixesJournal
<1>1. JournalInv => HeadFixesJournal
  <2> SUFFICES ASSUME JournalInv, NEW S, NEW s \in Seq(S),
                      Verify(s, Exact(HeadOf(rows)))
               PROVE  /\ Len(s) = Len(rows)
                      /\ \A n \in 1..Len(rows) : SameEvent(s[n].event, rows[n].event)
    BY DEF HeadFixesJournal
  <2> DEFINE k == Len(rows)
             l == Len(s)
  <2>1. /\ k \in Nat /\ l \in Nat
        /\ (rows = <<>> <=> k = 0) /\ (s = <<>> <=> l = 0)
    BY DEF JournalInv
  <2>2. /\ \A n \in 1..k : VerifiesEntry(rows, n)
        /\ \A n \in 1..l : VerifiesEntry(s, n)
    BY Zenon DEF JournalInv, Verify
  <2>3. HeadOf(s) = HeadOf(rows) /\ HeadOf(rows) = HeadOf(s)
    BY DEF Verify, Exact
  <2>4. Chained(rows) /\ Chained(s)
    BY <2>1, <2>2 DEF Chained
  <2>5. \A i \in Nat : i < k => i < l /\ rows[k - i].address = s[l - i].address
    BY <2>3, <2>4, SameFromTheHead
  <2>6. \A i \in Nat : i < l => i < k /\ s[l - i].address = rows[k - i].address
    BY <2>3, <2>4, SameFromTheHead
  <2>7. l = k
    <3>1. ~(l < k)
      BY <2>1, <2>5
    <3>2. ~(k < l)
      BY <2>1, <2>6
    <3> QED
      BY <2>1, <3>1, <3>2
  <2>8. ASSUME NEW n \in 1..k PROVE SameEvent(s[n].event, rows[n].event)
    <3>1. k - n \in Nat /\ k - n < k /\ k - (k - n) = n
      BY <2>1
    <3>2. s[n].address = rows[n].address
      BY <2>5, <2>7, <3>1
    <3>3. EntryAddress(s[n].event, PayloadAddress(s[n].event.payload), s[n].previous) =
            EntryAddress(rows[n].event, PayloadAddress(rows[n].event.payload), rows[n].previous)
      BY <2>2, <2>7, <3>2, VerifiedEntry
    <3> QED
      BY <3>3 DEF EntryAddress, PayloadAddress, SameEvent
  <2> QED
    BY <2>7, <2>8
<1> QED
  BY <1>1, InvHolds, PTL

-----------------------------------------------------------------------------
(* The reference journal.  Ids and keys are unique in what verifies, so a  *)
(* lookup finds the only row there is.                                     *)
LEMMA LookupIsUnique ==
  ASSUME NEW s, Len(s) \in Nat, \A n \in 1..Len(s) : VerifiesEntry(s, n),
         NEW j \in 1..Len(s)
  PROVE  /\ (CHOOSE n \in 1..Len(s) : s[n].event.id = s[j].event.id) = j
         /\ s[j].event.key # None =>
              (CHOOSE n \in 1..Len(s) : s[n].event.key = s[j].event.key) = j
<1>1. \A n \in 1..Len(s) : \A m \in 1..(n - 1) :
        /\ s[m].event.id # s[n].event.id
        /\ s[n].event.key # None => s[m].event.key # s[n].event.key
  BY DEF VerifiesEntry
<1>2. \A n \in 1..Len(s) : s[n].event.id = s[j].event.id => n = j
  BY <1>1
<1>3. \A n \in 1..Len(s) :
        s[j].event.key # None /\ s[n].event.key = s[j].event.key => n = j
  BY <1>1
<1> QED
  BY <1>2, <1>3

(* The indexes of the reference journal, read off the table.               *)
ById == [id \in RowIds |-> RowOfId(id)]
ByKey == [key \in RowKeys |-> RowOfKey(key)]

(* The empty journal is the empty reference journal.                       *)
LEMMA InitRefines == Init => Memory!Init
<1> SUFFICES ASSUME Init
             PROVE  Memory!Init
  OBVIOUS
<1>1. rows = <<>> /\ Len(rows) = 0
  BY DEF Init
<1>2. RowIds = {} /\ RowKeys = {}
  BY <1>1 DEF RowIds, RowKeys
<1>3. NextCursor = 1 /\ HeadOf(rows) = Memory!NoAddress
  BY <1>1 DEF NextCursor, HeadOf, NoAddress, Memory!NoAddress
<1>4. [id \in RowIds |-> RowOfId(id)] = [id \in {} |-> 0]
  BY <1>2
<1>5. [key \in RowKeys |-> RowOfKey(key)] = [key \in {} |-> 0]
  BY <1>2
<1> QED
  BY <1>1, <1>3, <1>4, <1>5 DEF Init, Memory!Init, Failed, Memory!Failed

(* What an insertion does to the indexes, the next cursor and the head.    *)
LEMMA InsertIndexes ==
  ASSUME JournalInv, NEW event \in Events, Fresh(event), InsertRow(event)
  PROVE  /\ ById' = Memory!Extended(ById, event.id, Len(rows) + 1)
         /\ ByKey' = IF event.key = None THEN ByKey
                     ELSE Memory!Extended(ByKey, event.key, Len(rows) + 1)
         /\ NextCursor' = NextCursor + 1
         /\ HeadOf(rows)' = JournalEntry(event, NextCursor, HeadOf(rows)).address
<1> DEFINE k == Len(rows)
           entry == JournalEntry(event, NextCursor, HeadOf(rows))
<1>1. JournalInv'
  BY InsertKeepsInv
<1>2. /\ rows' = Append(rows, entry)
      /\ k \in Nat /\ Len(rows') = k + 1
      /\ \A n \in 1..k : rows'[n] = rows[n]
      /\ rows'[k + 1] = entry
  BY AppendKeepsRows DEF JournalInv, InsertRow
<1>3. entry.event = event
  BY DEF JournalEntry
<1>4. rows' # <<>> /\ (rows = <<>> <=> k = 0)
  BY <1>2 DEF JournalInv
<1>5. NextCursor' = NextCursor + 1
  <2>1. NextCursor' = k + 2
    BY <1>1, <1>2, <1>4 DEF NextCursor, JournalInv
  <2>2. NextCursor = k + 1
    BY <1>2, <1>4 DEF NextCursor, JournalInv
  <2> QED
    BY <1>2, <2>1, <2>2
<1>6. HeadOf(rows)' = entry.address
  BY <1>2, <1>4 DEF HeadOf
<1> HIDE DEF entry
<1>7. ById' = Memory!Extended(ById, event.id, k + 1)
  <2>1. RowIds' = RowIds \union {event.id}
    BY <1>2, <1>3 DEF RowIds
  <2>2. RowOfId(event.id)' = k + 1
    BY <1>1, <1>2, <1>3, LookupIsUnique DEF RowOfId, JournalInv
  <2>3. ASSUME NEW id \in RowIds
        PROVE  RowOfId(id)' = RowOfId(id)
    <3>1. PICK j \in 1..k : rows[j].event.id = id
      BY DEF RowIds
    <3>2. RowOfId(id) = j
      BY <1>2, <3>1, LookupIsUnique DEF RowOfId, JournalInv
    <3>3. j \in 1..Len(rows') /\ rows'[j].event.id = id
      BY <1>2, <3>1
    <3>4. RowOfId(id)' = j
      BY <1>1, <1>2, <3>3, LookupIsUnique DEF RowOfId, JournalInv
    <3> QED
      BY <3>2, <3>4
  <2>4. event.id \notin RowIds
    BY DEF Fresh
  <2> QED
    BY <2>1, <2>2, <2>3, <2>4 DEF ById, Memory!Extended
<1>8. ByKey' = IF event.key = None THEN ByKey
               ELSE Memory!Extended(ByKey, event.key, k + 1)
  <2>1. RowKeys' = RowKeys \union ({event.key} \ {None})
    BY <1>2, <1>3 DEF RowKeys
  <2>2. event.key # None => RowOfKey(event.key)' = k + 1
    BY <1>1, <1>2, <1>3, LookupIsUnique DEF RowOfKey, JournalInv
  <2>3. ASSUME NEW key \in RowKeys
        PROVE  RowOfKey(key)' = RowOfKey(key)
    <3>1. PICK j \in 1..k : rows[j].event.key = key
      BY DEF RowKeys
    <3>2. key # None
      BY DEF RowKeys
    <3>3. RowOfKey(key) = j
      BY <1>2, <3>1, <3>2, LookupIsUnique DEF RowOfKey, JournalInv
    <3>4. j \in 1..Len(rows') /\ rows'[j].event.key = key
      BY <1>2, <3>1
    <3>5. RowOfKey(key)' = j
      BY <1>1, <1>2, <3>2, <3>4, LookupIsUnique DEF RowOfKey, JournalInv
    <3> QED
      BY <3>3, <3>5
  <2>4. event.key = None \/ event.key \notin RowKeys
    BY DEF Fresh
  <2>5. CASE event.key = None
    BY <2>1, <2>3, <2>5 DEF ByKey
  <2>6. CASE event.key # None
    BY <2>1, <2>2, <2>3, <2>4, <2>6 DEF ByKey, Memory!Extended
  <2> QED
    BY <2>5, <2>6
<1> QED
  BY <1>5, <1>6, <1>7, <1>8 DEF entry

(* The reference journal addresses and checks events as the table does.    *)
LEMMA SameChain ==
  ASSUME NEW event, NEW cursor, NEW previous
  PROVE  /\ Memory!HasIdentity(event) = HasIdentity(event)
         /\ Memory!PayloadAddress(event.payload) = PayloadAddress(event.payload)
         /\ Memory!JournalEntry(event, cursor, previous) =
              JournalEntry(event, cursor, previous)
BY DEF HasIdentity, PayloadAddress, JournalEntry, EntryAddress, Memory!HasIdentity,
       Memory!PayloadAddress, Memory!JournalEntry, Memory!EntryAddress

(* A fresh event that is inserted is inserted in the reference journal.    *)
LEMMA InsertRefines ==
  ASSUME JournalInv, NEW event \in Events, Fresh(event), InsertRow(event),
         appended' = Inserted(event)
  PROVE  Memory!AppendEvent(event)
<1>1. event.id \notin RowIds /\ (event.key = None \/ event.key \notin RowKeys)
  BY DEF Fresh
<1>2. DOMAIN ById = RowIds /\ DOMAIN ByKey = RowKeys
  BY DEF ById, ByKey
<1>3. /\ rows' = Append(rows, Memory!JournalEntry(event, NextCursor, HeadOf(rows)))
      /\ HeadOf(rows)' = Memory!JournalEntry(event, NextCursor, HeadOf(rows)).address
  BY InsertIndexes, SameChain DEF InsertRow
<1>4. /\ ById' = Memory!Extended(ById, event.id, Len(rows) + 1)
      /\ ByKey' = IF event.key = None THEN ByKey
                  ELSE Memory!Extended(ByKey, event.key, Len(rows) + 1)
      /\ NextCursor' = NextCursor + 1
  BY InsertIndexes
<1>5. appended' = Memory!Inserted(event) /\ event.payload \notin Unencodable
  BY DEF Inserted, Memory!Inserted, Fresh
<1>6. Memory!Insert(event)
  BY <1>1, <1>2, <1>3, <1>4, <1>5, Zenon DEF Memory!Insert, ById, ByKey
<1> QED
  BY <1>6, SameChain DEF Memory!AppendEvent, Fresh

(* While the table stands still so do the indexes.                         *)
LEMMA StillIndexes ==
  ASSUME rows' = rows
  PROVE  /\ ById' = ById /\ ByKey' = ByKey
         /\ NextCursor' = NextCursor /\ HeadOf(rows)' = HeadOf(rows)
BY DEF ById, ByKey, RowIds, RowKeys, RowOfId, RowOfKey, NextCursor, HeadOf

(* A duplicate and a refusal are those of the reference journal.           *)
LEMMA AnswerRefines ==
  ASSUME NEW event, HasIdentity(event), ~IsInserted(AppendInTransaction(event)),
         rows' = rows, appended' = AppendInTransaction(event)
  PROVE  Memory!AppendEvent(event)
<1>1. DOMAIN ById = RowIds /\ DOMAIN ByKey = RowKeys
  BY DEF ById, ByKey
<1>2. CASE event.id \in RowIds
  <2>1. ById[event.id] = RowOfId(event.id)
    BY <1>2 DEF ById
  <2>2. appended' =
          IF event.payload \in Unencodable THEN Memory!Failed(event, "encoding")
          ELSE IF Memory!PayloadAddress(event.payload) # rows[ById[event.id]].payloadAddress
          THEN Memory!Failed(event, "mismatch")
          ELSE Memory!Resolved(event, rows[ById[event.id]].event)
    BY <1>2, <2>1, SameChain
    DEF AppendInTransaction, Resolved, Failed, Memory!Resolved, Memory!Failed
  <2>3. UNCHANGED <<rows, ById, ByKey, NextCursor, HeadOf(rows)>>
    BY StillIndexes
  <2>4. Memory!ResolveId(event)
    BY <1>1, <1>2, <2>2, <2>3, Zenon DEF Memory!ResolveId, ById, ByKey
  <2> QED
    BY <2>4, SameChain DEF Memory!AppendEvent
<1>3. CASE event.id \notin RowIds /\ event.key # None /\ event.key \in RowKeys
  <2>1. ByKey[event.key] = RowOfKey(event.key)
    BY <1>3 DEF ByKey
  <2>2. Memory!ResolveKey(event)
    BY <1>1, <1>3, <2>1, StillIndexes
    DEF Memory!ResolveKey, AppendInTransaction, ById, ByKey, Resolved, Memory!Resolved
  <2> QED
    BY <2>2, SameChain DEF Memory!AppendEvent
<1>4. CASE event.id \notin RowIds /\ (event.key = None \/ event.key \notin RowKeys)
  <2>1. event.payload \in Unencodable /\ appended' = Failed(event, "encoding")
    BY <1>4 DEF AppendInTransaction, IsInserted, IsFailed, Inserted, Failed
  <2>2. Memory!RefuseNew(event)
    BY <1>1, <1>4, <2>1, StillIndexes
    DEF Memory!RefuseNew, Memory!Refuse, ById, ByKey, Failed, Memory!Failed
  <2> QED
    BY <2>2, SameChain DEF Memory!AppendEvent
<1> QED
  BY <1>2, <1>3, <1>4

(* An event without identity is refused by both.                           *)
LEMMA RefusalRefines ==
  ASSUME NEW event, ~HasIdentity(event), rows' = rows,
         appended' = Failed(event, "identity")
  PROVE  Memory!AppendEvent(event)
BY StillIndexes, SameChain
DEF Memory!AppendEvent, Memory!Refuse, ById, ByKey, Failed, Memory!Failed

(* Every step of the durable journal is one of the reference journal, or   *)
(* leaves it alone.                                                        *)
LEMMA StepRefines == JournalInv /\ [Next]_vars => [Memory!Next]_(Memory!memoryVars)
<1> SUFFICES ASSUME JournalInv, [Next]_vars
             PROVE  Memory!Next \/ UNCHANGED Memory!memoryVars
  OBVIOUS
<1>1. CASE rows' = rows /\ appended' = appended
  BY <1>1, StillIndexes DEF Memory!memoryVars, ById, ByKey
<1>2. CASE Next /\ ~(rows' = rows /\ appended' = appended)
  <2>1. PICK event \in Events : IngestEvent(event) \/ AppendRuntimeEvent(event)
    BY <1>2 DEF Next
  <2>2. \/ /\ ~HasIdentity(event) /\ rows' = rows /\ appended' = Failed(event, "identity")
        \/ /\ HasIdentity(event) /\ ~IsInserted(AppendInTransaction(event))
           /\ rows' = rows /\ appended' = AppendInTransaction(event)
        \/ /\ HasIdentity(event) /\ IsInserted(AppendInTransaction(event))
           /\ InsertRow(event) /\ appended' = AppendInTransaction(event)
    BY <1>2, <2>1 DEF IngestEvent, AppendRuntimeEvent, AppendTrustedEvent
  <2>3. Memory!AppendEvent(event)
    BY <2>2, RefusalRefines, AnswerRefines, NewIsFresh, InsertRefines
  <2> QED
    BY <2>3 DEF Memory!Next
<1> QED
  BY <1>1, <1>2 DEF vars

(* The durable journal implements the reference journal, for every set of  *)
(* events and every bound.                                                 *)
THEOREM JournalImplementsMemory == Spec => ImplementsMemoryJournal
<1>1. Spec => Memory!Init /\ [][Memory!Next]_(Memory!memoryVars)
  BY InitRefines, StepRefines, InvHolds, PTL DEF Spec
<1> QED
  BY <1>1 DEF ImplementsMemoryJournal, Memory!Spec
=============================================================================
