------------------------------- MODULE Chain -------------------------------
(***************************************************************************)
(* The identity of journal entries (crates/zeta-journal/src/chain.rs): how *)
(* an entry is addressed and linked to the one before it, and what         *)
(* `verify' accepts.                                                       *)
(*                                                                         *)
(* An address is modelled as the value that is hashed, so that two         *)
(* addresses are equal exactly when their inputs are.  A payload is        *)
(* represented by its canonical bytes; some values have none.  The source  *)
(* of an event is left out: it is checked and chained like its type.       *)
(***************************************************************************)
EXTENDS Naturals, Sequences

CONSTANTS
  None,          \* an absent key, cause or session
  Blank,         \* the empty string
  Unencodable    \* the payloads without canonical bytes

(* The address before the first entry, which is none, is no tuple that is  *)
(* hashed.                                                                 *)
NoAddress == <<>>

(* HeadExpectation.                                                        *)
Unanchored == [exact |-> FALSE]
Exact(head) == [exact |-> TRUE, head |-> head]

(* The address of the payload, in the place of its hash.                   *)
PayloadAddress(payload) == <<"payload", payload>>

(* canonical_chain_bytes: every field of the event, its payload address    *)
(* and the previous address, but not the cursor.                           *)
EntryAddress(event, payloadAddress, previous) ==
  <<event.id, event.type, payloadAddress, event.key, event.cause, event.session,
    previous>>

(* validate_identity_fields.                                               *)
HasIdentity(event) == event.id # Blank /\ event.type # Blank

(* The mistake: the address covers the payload, not its address.           *)
JournalEntry_RawPayload(event, cursor, previous) ==
  [event          |-> event,
   cursor         |-> cursor,
   payloadAddress |-> PayloadAddress(event.payload),
   previous       |-> previous,
   address        |-> EntryAddress(event, event.payload, previous)]

(* JournalEntry::new.                                                      *)
JournalEntry(event, cursor, previous) ==
  [event          |-> event,
   cursor         |-> cursor,
   payloadAddress |-> PayloadAddress(event.payload),
   previous       |-> previous,
   address        |-> EntryAddress(event, PayloadAddress(event.payload), previous)]

HeadOf(entries) == IF entries = <<>> THEN NoAddress ELSE entries[Len(entries)].address

PreviousAddress(entries, n) == IF n = 1 THEN NoAddress ELSE entries[n - 1].address

(* The mistake: each entry is checked by itself.                           *)
VerifiesEntry_Unlinked(entries, n) ==
  LET entry == entries[n]
      event == entry.event
  IN /\ entry.cursor > 0
     /\ n > 1 => entry.cursor > entries[n - 1].cursor
     /\ event.payload \notin Unencodable
     /\ entry.payloadAddress = PayloadAddress(event.payload)
     /\ entry.address = EntryAddress(event, entry.payloadAddress, entry.previous)

(* One round of the loop of `verify'.  The rounds before it have shown     *)
(* that the address of the entry before is the address it should have.     *)
VerifiesEntry(entries, n) ==
  LET entry == entries[n]
      event == entry.event
  IN /\ entry.cursor > 0
     /\ n > 1 => entry.cursor > entries[n - 1].cursor
     /\ \A m \in 1..(n - 1) :
          /\ entries[m].event.id # event.id
          /\ event.key # None => entries[m].event.key # event.key
     /\ event.payload \notin Unencodable
     /\ entry.payloadAddress = PayloadAddress(event.payload)
     /\ entry.previous = PreviousAddress(entries, n)
     /\ HasIdentity(event)
     /\ entry.address = EntryAddress(event, entry.payloadAddress, entry.previous)

Verify(entries, expectation) ==
  /\ \A n \in 1..Len(entries) : VerifiesEntry(entries, n)
  /\ expectation.exact => HeadOf(entries) = expectation.head

=============================================================================
