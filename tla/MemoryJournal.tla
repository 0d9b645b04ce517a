---------------------------- MODULE MemoryJournal ---------------------------
(***************************************************************************)
(* The reference behaviour of a journal                                    *)
(* (crates/zeta-journal/src/memory.rs): a list of entries, an index by id, *)
(* an index by idempotency key, the next cursor and the head.              *)
(* SqliteJournal implements it.                                            *)
(***************************************************************************)
EXTENDS Chain, FiniteSets

CONSTANT Events    \* the events callers append

VARIABLES entries, byId, byKey, nextCursor, head,
  outcome          \* what the last append returned

memoryVars == <<entries, byId, byKey, nextCursor, head, outcome>>

(* The outcome of an append, with the candidate it is the outcome of.      *)
Resolved(candidate, event) ==
  [candidate |-> candidate, event |-> event, inserted |-> FALSE]
Inserted(candidate) ==
  [candidate |-> candidate, event |-> candidate, inserted |-> TRUE]
Failed(candidate, error) == [candidate |-> candidate, error |-> error]

Init ==
  /\ entries = <<>> /\ byId = [id \in {} |-> 0] /\ byKey = [key \in {} |-> 0]
  /\ nextCursor = 1 /\ head = NoAddress
  /\ outcome = Failed(None, None)

Extended(index, name, n) == [m \in DOMAIN index \union {name} |->
  IF m = name THEN n ELSE index[m]]

(* The id is looked up first: it names one payload for ever.               *)
ResolveId(event) ==
  /\ event.id \in DOMAIN byId
  /\ outcome' =
       IF event.payload \in Unencodable THEN Failed(event, "encoding")
       ELSE IF PayloadAddress(event.payload) # entries[byId[event.id]].payloadAddress
       THEN Failed(event, "mismatch")
       ELSE Resolved(event, entries[byId[event.id]].event)
  /\ UNCHANGED <<entries, byId, byKey, nextCursor, head>>

(* A retained key absorbs the retry, whatever its payload.                 *)
ResolveKey(event) ==
  /\ event.id \notin DOMAIN byId
  /\ event.key # None /\ event.key \in DOMAIN byKey
  /\ outcome' = Resolved(event, entries[byKey[event.key]].event)
  /\ UNCHANGED <<entries, byId, byKey, nextCursor, head>>

Insert(event) ==
  /\ event.id \notin DOMAIN byId
  /\ event.key = None \/ event.key \notin DOMAIN byKey
  /\ event.payload \notin Unencodable
  /\ LET n == Len(entries) + 1
         entry == JournalEntry(event, nextCursor, head)
     IN /\ entries' = Append(entries, entry)
        /\ byId' = Extended(byId, event.id, n)
        /\ byKey' = IF event.key = None THEN byKey ELSE Extended(byKey, event.key, n)
        /\ nextCursor' = nextCursor + 1
        /\ head' = entry.address
        /\ outcome' = Inserted(event)

Refuse(event, error) ==
  /\ outcome' = Failed(event, error)
  /\ UNCHANGED <<entries, byId, byKey, nextCursor, head>>

RefuseNew(event) ==
  /\ event.id \notin DOMAIN byId
  /\ event.key = None \/ event.key \notin DOMAIN byKey
  /\ event.payload \in Unencodable
  /\ Refuse(event, "encoding")

AppendEvent(event) ==
  \/ ~HasIdentity(event) /\ Refuse(event, "identity")
  \/ /\ HasIdentity(event)
     /\ ResolveId(event) \/ ResolveKey(event) \/ Insert(event) \/ RefuseNew(event)

Next == \E event \in Events : AppendEvent(event)

Spec == Init /\ [][Next]_memoryVars

=============================================================================
