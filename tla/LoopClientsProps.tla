--------------------------- MODULE LoopClientsProps ---------------------------
(***************************************************************************)
(* What the shared connections promise to the calls that use them.         *)
(***************************************************************************)
EXTENDS LoopClients

CallPlaces   == {"absent", "idle", "make", "found", "got", "sent", "done"}
Outcomes     == {"none", "blank", "answer", "down", "closed", "foreign", "cancelled"}
CloserPlaces == {"absent", "idle", "start", "pin", "closing", "done", "cancelled",
                 "halfway"}

TypeOK ==
  /\ loop \in [Loops -> {"new", "open", "teardown", "closed"}]
  /\ table \in [Loops -> Clients \cup {None}]
  /\ pinned \in {None, Pin}
  /\ single \in SyncCalls \cup {None}
  /\ bound \in [Clients -> Loops \cup {None}]
  /\ shut \subseteq Clients
  /\ call \in [Calls -> [place : CallPlaces, on : Loops \cup {None}, client : Clients \cup {None},
                         outcome : Outcomes, calm : BOOLEAN, stale : BOOLEAN]]
  /\ closer \in [Closers -> [place : CloserPlaces, on : Loops \cup {None},
                             from : Loops \cup {None}, todo : SUBSET Clients]]

(* "each event loop gets its own pool, so there is never a stale           *)
(* connection for a different loop to inherit" (client.py 799): no request *)
(* is on a client that another loop has opened a connection with, and none *)
(* fails for that reason.                                                  *)
OwnLoop ==
  \A c \in Calls :
    /\ call[c].outcome # "foreign"
    /\ call[c].place = "sent" => bound[call[c].client] = call[c].on

(* A bridge fails open, so a request that was not sent, or was executed    *)
(* and billed but not heard, reads as "no memories" (client.py 795).  That *)
(* a client is closed does this only to calls beside which somebody closes *)
(* the connections, and to two kinds of calls that begin when all is over: *)
(* synchronous ones of a bridge that was closed, for which the closed      *)
(* client stays (client.py 3713), and asynchronous ones of a caller whose  *)
(* pinned client an aclose was closing when its loop ended (3736): it      *)
(* stays in place as well.  A close that nothing interrupts leaves the     *)
(* asynchronous calls after it a client of their own.                      *)
ServedUnlessClosed ==
  \A c \in Calls : call[c].place = "done" /\ call[c].outcome = "closed" =>
    \/ ~call[c].calm
    \/ call[c].stale /\ c \in SyncCalls
    \/ call[c].stale /\ \E k \in Closers : closer[k].place = "halfway"

(* "Close every async client that was ever opened" (client.py 3716): an    *)
(* asynchronous client that may have a connection is closed, or can still  *)
(* be found: in the table, with a close that is about to close it (or was  *)
(* cancelled while it was), or its loop is gone, beyond anybody's reach.   *)
NoneForgotten ==
  \A x \in AsyncCalls :
    bound[x] # None /\ loop[bound[x]] = "open" =>
      \/ x \in shut
      \/ table[bound[x]] = x
      \/ \E k \in Closers : x \in closer[k].todo

(* "Entries are swept for closed loops on every call rather than left to   *)
(* accumulate" (client.py 831): a lookup leaves only clients of open loops *)
(* in the table, so it never holds more of them than there were loops open *)
(* at the last lookup.                                                     *)
NothingAccumulates ==
  [][\A l \in Loops :
       /\ loop[l] = "closed" /\ table[l] # None /\ table' # table => table'[l] = None
       /\ loop[l] = "closed" /\ table[l] = None => table'[l] = None]_vars

=============================================================================
