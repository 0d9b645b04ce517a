----------------------------- MODULE MCJournal -----------------------------
(***************************************************************************)
(* A small instance of the journal and its readers for TLC: events that    *)
(* share ids, keys and payloads in every way duplicate resolution tells    *)
(* apart, causes that form a cycle, and events that the identity check,    *)
(* the encoding or the projections refuse.                                 *)
(***************************************************************************)
EXTENDS JournalQueries

CONSTANTS k1, s1, p1, p2, pBad

Stored(id, type, payload, key, cause) ==
  [id |-> id, type |-> type, payload |-> payload, key |-> key, cause |-> cause,
   session |-> s1]
MCEvents ==
  {Stored("e1", "app", p1, k1, "e2"), Stored("e1", "app", p2, None, None),
   Stored("e2", "app", p1, None, "e1"), Stored("e3", "app", p2, k1, "e2"),
   Stored("e4", "runtime", p1, None, "e2"), Stored("e4", "runtime", p1, k1, "e2"),
   Stored("e5", "app", pBad, None, "e0"), Stored("e6", "app", p2, None, "e4"),
   Stored("e7", "app", p2, None, None), Stored("", "app", p1, None, None)}
MCUnprojectable == {e \in MCEvents : e.id = "e7"}

=============================================================================
