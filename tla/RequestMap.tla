----------------------------- MODULE RequestMap -----------------------------
(***************************************************************************)
(* The in-flight request table every transport keeps (request_map.go).     *)
(*                                                                         *)
(* The table is a total function from correlation keys to calls, NoCall    *)
(* where the Go map has no entry.  Each operator below is the body of one  *)
(* method under the map's mutex, so one use of it inside an action is one  *)
(* atomic step of the program.  A method that removes entries is split in  *)
(* the two halves of its result: what it returns and the map it leaves.    *)
(***************************************************************************)
CONSTANTS Calls,      \* requests a client may send, each sent once
          Sessions,   \* MCP session ids (never the empty one)
          Ids,        \* JSON-RPC ids in their IDString form (never empty)
          NoSession,  \* the empty session id: the server advertises none
          NoCall      \* no entry

ASSUME NoneAssumption == NoSession \notin Sessions /\ NoCall \notin Calls

\* Bug: keyed on the id alone.
CorrelationKeyById(sid, id) == <<NoSession, id>>

\* The id alone when there is no session, else the session and the id; the
\* NUL between them in the code makes the pair unambiguous.
CorrelationKey(sid, id) == <<sid, id>>

Keys == (Sessions \cup {NoSession}) \X Ids

EmptyMap == [k \in Keys |-> NoCall]

Store(m, sid, id, c) == [m EXCEPT ![CorrelationKey(sid, id)] = c]

\* What a removal of the keys ks returns ...
Entries(m, ks) == {m[k] : k \in ks} \ {NoCall}

\* ... and the table it leaves.
Without(m, ks) == [k \in Keys |-> IF k \in ks THEN NoCall ELSE m[k]]

\* The key Take looks at, as a set; empty for an id the table cannot hold.
TakeKeys(sid, id) == {CorrelationKey(sid, id)} \cap Keys

\* The keys TakeSession matches by prefix; none for the empty session.
SessionKeys(sid) == {k \in Keys : k[1] = sid /\ sid # NoSession}

\* Bug: the cutoff is not applied.
StaleKeysAll(m, old) == {k \in Keys : m[k] # NoCall}

\* Bug: only the keys of sessions are looked at.
StaleKeysOfSessions(m, old) == {k \in Keys : m[k] \in old /\ k[1] # NoSession}

\* The keys EvictStale removes, old being the calls past the cutoff.
StaleKeys(m, old) == {k \in Keys : m[k] \in old}
=============================================================================
