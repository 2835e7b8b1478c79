----------------------------- MODULE LoopClients -----------------------------
(***************************************************************************)
(* The connections of one AnonaClient (anona/client.py) that the calls of  *)
(* a MemoryBridge (anona/integrations/_core.py) share: a synchronous       *)
(* client, made by whichever thread needs it first, and one asynchronous   *)
(* client per event loop, in a table under a lock.                         *)
(*                                                                         *)
(* Every event loop runs in a thread of its own, and so does every         *)
(* synchronous call.  The tasks of one loop alternate where they await.    *)
(* Loops close, mostly right after one call (asyncio.run), and the bridge  *)
(* may be closed from any thread, while others are in the middle of calls. *)
(*                                                                         *)
(* An httpx client is identified with the call that made it.               *)
(***************************************************************************)
EXTENDS FiniteSets

CONSTANTS
  AsyncCalls,  \* calls of context and remember
  SyncCalls,   \* calls of context_sync and remember_sync
  Casts,       \* who takes part: a set of sets of calls and closers
  Loops,       \* event loops
  PinLoop,     \* the loop that a caller who pins a client keeps to
  Closers,     \* calls of aclose and MemoryBridge.close
  Pin,         \* a client that the caller has pinned
  None

Calls   == AsyncCalls \cup SyncCalls
Clients == Calls \cup {Pin}

ASSUME ClientsAssumption ==
  /\ AsyncCalls \cap SyncCalls = {}
  /\ Closers \cap Calls = {}
  /\ PinLoop \in Loops
  /\ Pin \notin Calls
  /\ None \notin Loops \cup Clients

VARIABLES
  loop,    \* each loop: "new", "open", "teardown" (made by _sync) or "closed"
  table,   \* _async_clients: the client of each loop
  pinned,  \* _async_client: the manual override
  single,  \* _client: the synchronous client
  bound,   \* the loop on which a client opened its connection
  shut,    \* the clients on which close or aclose was called
  call,    \* what each call is doing
  closer   \* what each close is doing

vars == <<loop, table, pinned, single, bound, shut, call, closer>>

Init ==
  /\ loop = [l \in Loops |-> "new"]
  /\ table = [l \in Loops |-> None]
  /\ pinned \in {None, Pin}
  /\ single = None
  /\ bound = [x \in Clients |-> None]
  /\ shut = {}
  /\ \E cast \in Casts :
       /\ call = [c \in Calls |->
                    [place |-> IF c \in cast THEN "idle" ELSE "absent",
                     on |-> None, client |-> None, outcome |-> "none",
                     calm |-> TRUE, stale |-> FALSE]]
       /\ closer = [k \in Closers |->
                      [place |-> IF k \in cast THEN "idle" ELSE "absent",
                       on |-> None, from |-> None, todo |-> {}]]

-----------------------------------------------------------------------------
(* Loops.                                                                  *)

Closing(k) == closer[k].place \in {"start", "pin", "closing"}
Active(c)  == call[c].place \in {"make", "found", "got", "sent"}

(* A loop whose thread waits in _sync for the teardown runs nothing.       *)
Runs(l) == loop[l] = "open" /\ \A k \in Closers : Closing(k) => closer[k].from # l

Open(l) ==
  /\ loop[l] = "new"
  /\ loop' = [loop EXCEPT ![l] = "open"]
  /\ UNCHANGED <<table, pinned, single, bound, shut, call, closer>>

Over(was, outcome) ==
  [was EXCEPT !.place = "done", !.on = None, !.client = None, !.outcome = outcome]

(* asyncio.run cancels what is left and closes the loop.  A cancellation   *)
(* is no Exception: neither the bridge nor aclose swallows it, and an      *)
(* aclose that waits for the pinned client leaves it in place, closed.     *)
CloseLoop(l) ==
  /\ Runs(l)
  /\ loop' = [loop EXCEPT ![l] = "closed"]
  /\ call' = [c \in Calls |->
                IF Active(c) /\ call[c].on = l
                  THEN Over(call[c], "cancelled")
                  ELSE call[c]]
  /\ closer' = [k \in Closers |->
                  IF Closing(k) /\ closer[k].on = l
                    THEN [closer[k] EXCEPT !.place = IF @ = "pin" THEN "halfway" ELSE "cancelled",
                                           !.on = None]
                    ELSE closer[k]]
  /\ UNCHANGED <<table, pinned, single, bound, shut>>

-----------------------------------------------------------------------------
(* Calls.                                                                  *)

(* calm: nobody is closing what the call uses, while it begins or after    *)
(* that; stale: when it begins, the client that it would use is closed.    *)
Goes(c, place, client, l) ==
  call' = [call EXCEPT ![c].place = place, ![c].client = client, ![c].on = l,
                       ![c].calm = c \in SyncCalls \/ \A k \in Closers : ~Closing(k),
                       ![c].stale = (IF c \in AsyncCalls THEN pinned ELSE single) \in shut]

Ends(c, outcome) == call' = [call EXCEPT ![c] = Over(@, outcome)]

Connections == <<loop, table, pinned, single, bound, shut, closer>>

(* A blank text: "" or nothing, and no request.                            *)
Blank(c) ==
  /\ call[c].place = "idle"
  /\ Ends(c, "blank")
  /\ UNCHANGED Connections

\* Mutant: one client for every loop.
ClientOfAny(l) ==
  IF \E other \in Loops : table[other] # None
    THEN table[CHOOSE other \in Loops : table[other] # None]
    ELSE None

ClientOf(l) == table[l]

\* Mutant: entries of closed loops stay.
SweptNothing(l, client) == [table EXCEPT ![l] = client]

(* The table without closed loops, with the client of this one.            *)
Swept(l, client) ==
  [other \in Loops |->
     CASE other = l               -> client
       [] loop[other] = "closed"  -> None
       [] OTHER                   -> table[other]]

(* _get_async_client                                                       *)
GetPinned(c, l) ==
  /\ call[c].place = "idle" /\ Runs(l) /\ pinned # None
  /\ l = PinLoop
  /\ Goes(c, "got", pinned, l)
  /\ UNCHANGED Connections

GetAsync(c, l) ==
  /\ call[c].place = "idle" /\ Runs(l) /\ pinned = None
  /\ LET client == IF ClientOf(l) # None THEN ClientOf(l) ELSE c IN
       /\ table' = Swept(l, client)
       /\ Goes(c, "got", client, l)
  /\ UNCHANGED <<loop, pinned, single, bound, shut, closer>>

(* _get_client: two threads may both find none.                            *)
LookSync(c) ==
  /\ call[c].place = "idle"
  /\ Goes(c, IF single = None THEN "make" ELSE "found", None, None)
  /\ UNCHANGED Connections

MakeSync(c) ==
  /\ call[c].place = "make"
  /\ single' = c
  /\ call' = [call EXCEPT ![c].place = "found"]
  /\ UNCHANGED <<loop, table, pinned, bound, shut, closer>>

ReturnSync(c) ==
  /\ call[c].place = "found"
  /\ call' = [call EXCEPT ![c].place = "got", ![c].client = single]
  /\ UNCHANGED Connections

Able(c) == IF c \in SyncCalls THEN TRUE ELSE Runs(call[c].on)

(* A closed client sends nothing; a connection of another loop breaks,     *)
(* before or after the server has executed the request.                    *)
SendOnClosed(c) ==
  /\ call[c].place = "got" /\ Able(c)
  /\ call[c].client \in shut
  /\ Ends(c, "closed")
  /\ UNCHANGED Connections

Send(c) ==
  /\ call[c].place = "got" /\ Able(c)
  /\ call[c].client \notin shut
  /\ IF bound[call[c].client] \in {None, call[c].on}
       THEN /\ bound' = [bound EXCEPT ![call[c].client] = call[c].on]
            /\ call' = [call EXCEPT ![c].place = "sent"]
       ELSE Ends(c, "foreign") /\ UNCHANGED bound
  /\ UNCHANGED <<loop, table, pinned, single, shut, closer>>

Hear(c) ==
  /\ call[c].place = "sent" /\ Able(c)
  /\ Ends(c, "answer")
  /\ UNCHANGED Connections

(* The network fails, or the client is closed under the request.           *)
Break(c) ==
  /\ call[c].place = "sent" /\ Able(c)
  /\ Ends(c, IF call[c].client \in shut THEN "closed" ELSE "down")
  /\ UNCHANGED Connections

-----------------------------------------------------------------------------
(* Closing.                                                                *)

(* From here on, a failure of these calls is the closer's doing.           *)
Disturbs(calls) ==
  call' = [c \in Calls |-> [call[c] EXCEPT !.calm = @ /\ ~(c \in calls /\ Active(c))]]

Proceeds(k) == IF loop[closer[k].on] = "teardown" THEN TRUE ELSE Runs(closer[k].on)

(* aclose, awaited on a loop.                                              *)
Aclose(k, l) ==
  /\ closer[k].place = "idle" /\ Runs(l)
  /\ closer' = [closer EXCEPT ![k].place = "start", ![k].on = l]
  /\ Disturbs(AsyncCalls)
  /\ UNCHANGED <<loop, table, pinned, single, bound, shut>>

(* MemoryBridge.close: the synchronous client, then aclose on a loop made  *)
(* for it, while the thread that asked (and its loop, if it runs one)      *)
(* waits.                                                                  *)
BridgeClose(k, l, from) ==
  /\ closer[k].place = "idle" /\ loop[l] = "new"
  /\ IF from = None THEN TRUE ELSE Runs(from)
  /\ shut' = shut \cup ({single} \ {None})
  /\ loop' = [loop EXCEPT ![l] = "teardown"]
  /\ closer' = [closer EXCEPT ![k].place = "start", ![k].on = l, ![k].from = from]
  /\ Disturbs(Calls)
  /\ UNCHANGED <<table, pinned, single, bound>>

ClosePinned(k) ==
  /\ closer[k].place = "start" /\ Proceeds(k) /\ pinned # None
  /\ shut' = shut \cup {pinned}
  /\ closer' = [closer EXCEPT ![k].place = "pin"]
  /\ UNCHANGED <<loop, table, pinned, single, bound, call>>

Unpin(k) ==
  /\ closer[k].place = "pin" /\ Proceeds(k)
  /\ pinned' = None
  /\ closer' = [closer EXCEPT ![k].place = "start"]
  /\ UNCHANGED <<loop, table, single, bound, shut, call>>

\* Mutant: the keys of the table for its values.
TakeKeys(k) ==
  /\ closer[k].place = "start" /\ Proceeds(k) /\ pinned = None
  /\ closer' = [closer EXCEPT ![k].place = "closing", ![k].todo = {l \in Loops : table[l] # None}]
  /\ table' = [l \in Loops |-> None]
  /\ UNCHANGED <<loop, pinned, single, bound, shut, call>>

\* Mutant: the clients are closed but left in the table.
TakeCopy(k) ==
  /\ closer[k].place = "start" /\ Proceeds(k) /\ pinned = None
  /\ closer' = [closer EXCEPT ![k].place = "closing",
                              ![k].todo = {table[l] : l \in Loops} \ {None}]
  /\ UNCHANGED <<loop, table, pinned, single, bound, shut, call>>

(* The copy and the clear, in one section.                                 *)
Take(k) ==
  /\ closer[k].place = "start" /\ Proceeds(k) /\ pinned = None
  /\ closer' = [closer EXCEPT ![k].place = "closing",
                              ![k].todo = {table[l] : l \in Loops} \ {None}]
  /\ table' = [l \in Loops |-> None]
  /\ UNCHANGED <<loop, pinned, single, bound, shut, call>>

\* Mutant: the first failure ends the loop over the clients.
CloseUntilFailure(k) ==
  /\ closer[k].place = "closing" /\ Proceeds(k)
  /\ \E x \in closer[k].todo :
       /\ shut' = shut \cup {x}
       /\ closer' = [closer EXCEPT ![k].todo = IF bound[x] \in {None, closer[k].on}
                                                 THEN @ \ {x} ELSE {}]
  /\ UNCHANGED <<loop, table, pinned, single, bound, call>>

(* A client is closed as soon as its aclose begins, whether or not the     *)
(* connection of another loop lets it end well.                            *)
CloseOne(k) ==
  /\ closer[k].place = "closing" /\ Proceeds(k)
  /\ \E x \in closer[k].todo :
       /\ shut' = shut \cup {x}
       /\ closer' = [closer EXCEPT ![k].todo = @ \ {x}]
  /\ UNCHANGED <<loop, table, pinned, single, bound, call>>

(* The loop that _sync made goes with it (asyncio.run).                    *)
Closed(k) ==
  /\ closer[k].place = "closing" /\ closer[k].todo = {} /\ Proceeds(k)
  /\ closer' = [closer EXCEPT ![k].place = "done", ![k].on = None, ![k].from = None]
  /\ loop' = [loop EXCEPT ![closer[k].on] = IF @ = "teardown" THEN "closed" ELSE @]
  /\ UNCHANGED <<table, pinned, single, bound, shut, call>>

-----------------------------------------------------------------------------
CallStep(c) ==
  SendOnClosed(c) \/ Send(c) \/ Hear(c) \/ Break(c)

CloserStep(k) ==
  \/ ClosePinned(k) \/ Unpin(k) \/ Take(k) \/ CloseOne(k) \/ Closed(k)
  \/ \E l \in Loops : Aclose(k, l) \/ \E from \in Loops \cup {None} : BridgeClose(k, l, from)

Next ==
  \/ \E l \in Loops : Open(l) \/ CloseLoop(l)
  \/ \E c \in AsyncCalls, l \in Loops : GetPinned(c, l) \/ GetAsync(c, l)
  \/ \E c \in SyncCalls : LookSync(c) \/ MakeSync(c) \/ ReturnSync(c)
  \/ \E c \in Calls : Blank(c) \/ CallStep(c)
  \/ \E k \in Closers : CloserStep(k)

Spec == Init /\ [][Next]_vars

=============================================================================
