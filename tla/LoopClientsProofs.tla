--------------------------- MODULE LoopClientsProofs ---------------------------
(***************************************************************************)
(* For any calls, closers and loops: a connection stays on the loop that   *)
(* opened it, a call that nobody disturbs is served, and no asynchronous   *)
(* client is forgotten.                                                    *)
(***************************************************************************)
EXTENDS LoopClientsProps, TLAPS

Waiting(c) == call[c].place \in {"absent", "idle", "make"}
Holding(c) == call[c].place \in {"got", "sent"}

(* What a call holds, where.                                               *)
CallInv ==
  /\ \A c \in AsyncCalls : Active(c) =>
       /\ Holding(c)
       /\ call[c].on \in Loops /\ loop[call[c].on] = "open"
       /\ call[c].client \in AsyncCalls \cup {Pin}
  /\ \A c \in SyncCalls :
       /\ call[c].on = None
       /\ Holding(c) => call[c].client \in SyncCalls
       /\ call[c].place = "found" => single # None

(* A client that its call has not made yet is nowhere.                     *)
FreshInv ==
  \A c \in Calls : Waiting(c) =>
    /\ c \notin shut /\ bound[c] = None /\ single # c
    /\ \A l \in Loops : table[l] # c
    /\ \A d \in Calls : Holding(d) => call[d].client # c
    /\ \A k \in Closers : c \notin closer[k].todo

(* The loops that x serves.                                                *)
Serves(x, l) ==
  \/ bound[x] = l
  \/ table[l] = x
  \/ \E c \in AsyncCalls : Holding(c) /\ call[c].client = x /\ call[c].on = l

LoopInv ==
  /\ \A x \in AsyncCalls, l, m \in Loops : Serves(x, l) /\ Serves(x, m) => l = m
  /\ \A l \in Loops : Serves(Pin, l) => l = PinLoop
  /\ \A x \in SyncCalls : bound[x] = None

UnusedInv ==
  \A l \in Loops : loop[l] = "new" => table[l] = None /\ \A x \in Clients : bound[x] # l

TableInv ==
  \A l \in Loops : table[l] # None =>
    /\ table[l] \in AsyncCalls /\ table[l] \notin shut
    /\ \A k \in Closers : table[l] \notin closer[k].todo

CloserInv ==
  \A k \in Closers :
    /\ closer[k].todo \subseteq AsyncCalls
    /\ closer[k].place \in {"absent", "idle", "start", "pin"} => closer[k].todo = {}
    /\ Closing(k) => closer[k].on \in Loops

CalmInv ==
  /\ \A c \in AsyncCalls : Active(c) /\ call[c].calm /\ ~call[c].stale =>
       call[c].client \notin shut /\ \A k \in Closers : ~Closing(k)
  /\ \A c \in SyncCalls : Active(c) /\ call[c].calm /\ ~call[c].stale =>
       single \notin shut /\ (Holding(c) => call[c].client \notin shut)

(* But for those that begin with a closed client, no call that nobody      *)
(* disturbs is refused.                                                    *)
ServedInv ==
  \A c \in Calls :
    call[c].place = "done" /\ call[c].calm /\ ~call[c].stale => call[c].outcome # "closed"

Found(x, l) == x \in shut \/ table[l] = x \/ \E k \in Closers : x \in closer[k].todo

KeptInv ==
  /\ NoneForgotten
  /\ \A c \in AsyncCalls :
       Holding(c) /\ call[c].client # Pin => Found(call[c].client, call[c].on)

ClientsInv ==
  /\ TypeOK /\ CallInv /\ FreshInv /\ LoopInv /\ UnusedInv /\ TableInv /\ CloserInv /\ CalmInv
  /\ KeptInv /\ OwnLoop /\ ServedInv

-----------------------------------------------------------------------------
LEMMA ClientsInit == Init => ClientsInv
<1> SUFFICES ASSUME Init PROVE ClientsInv
  OBVIOUS
<1>1. PICK cast \in Casts :
        /\ call = [c \in Calls |->
                    [place |-> IF c \in cast THEN "idle" ELSE "absent",
                     on |-> None, client |-> None, outcome |-> "none",
                     calm |-> TRUE, stale |-> FALSE]]
        /\ closer = [k \in Closers |->
                      [place |-> IF k \in cast THEN "idle" ELSE "absent",
                       on |-> None, from |-> None, todo |-> {}]]
  BY DEF Init
<1>2. \A c \in Calls : /\ call[c].place \in {"idle", "absent"} /\ call[c].on = None
                       /\ call[c].client = None /\ call[c].outcome = "none"
  BY <1>1
<1>3. \A k \in Closers : closer[k].place \in {"idle", "absent"} /\ closer[k].todo = {}
  BY <1>1
<1>4. TypeOK
  <2>1. call \in [Calls -> [place : CallPlaces, on : Loops \cup {None}, client : Clients \cup {None},
                            outcome : Outcomes, calm : BOOLEAN, stale : BOOLEAN]]
    BY <1>1 DEF CallPlaces, Outcomes
  <2>2. closer \in [Closers -> [place : CloserPlaces, on : Loops \cup {None},
                                from : Loops \cup {None}, todo : SUBSET Clients]]
    BY <1>1 DEF CloserPlaces
  <2> QED BY <2>1, <2>2 DEF TypeOK, Init
<1> USE ClientsAssumption DEF Init, Calls, Clients
<1>5. CallInv
  BY <1>2 DEF CallInv, Active, Holding
<1>6. FreshInv
  BY <1>2, <1>3 DEF FreshInv, Holding
<1>7. LoopInv
  BY <1>2 DEF LoopInv, Serves, Holding
<1>8. UnusedInv /\ TableInv /\ CloserInv
  BY <1>3 DEF UnusedInv, TableInv, CloserInv, Closing
<1>9. CalmInv
  BY <1>2 DEF CalmInv, Active
<1>10. KeptInv
  BY <1>2 DEF KeptInv, NoneForgotten, Holding
<1>11. OwnLoop /\ ServedInv
  BY <1>2 DEF OwnLoop, ServedInv
<1> QED BY <1>4, <1>5, <1>6, <1>7, <1>8, <1>9, <1>10, <1>11 DEF ClientsInv

-----------------------------------------------------------------------------
(* Calls.                                                                  *)

CallType ==
  [place : CallPlaces, on : Loops \cup {None}, client : Clients \cup {None},
   outcome : Outcomes, calm : BOOLEAN, stale : BOOLEAN]

(* One call goes on to s.                                                  *)
LEMMA Stepped ==
  ASSUME TypeOK, NEW c \in Calls, NEW s \in CallType, call' = [call EXCEPT ![c] = s]
  PROVE  /\ call' \in [Calls -> CallType]
         /\ \A d \in Calls : call'[d] = IF d = c THEN s ELSE call[d]
  BY DEF TypeOK, CallType

LEMMA EndsKeeps ==
  ASSUME ClientsInv, NEW c \in Calls, NEW outcome \in Outcomes \ {"foreign", "none"},
         Ends(c, outcome), outcome = "closed" => ~call[c].calm \/ call[c].stale, UNCHANGED Connections
  PROVE  ClientsInv'
<1> USE DEF ClientsInv
<1> DEFINE s == Over(call[c], outcome)
<1>1. call[c] \in CallType /\ call' = [call EXCEPT ![c] = s]
  BY DEF TypeOK, CallType, Ends
<1>2. /\ s \in CallType /\ s.place = "done" /\ s.on = None
      /\ s.outcome = outcome /\ s.calm = call[c].calm /\ s.stale = call[c].stale
  BY <1>1 DEF Over, CallType, CallPlaces
<1> HIDE DEF s
<1>3. /\ call' \in [Calls -> CallType]
      /\ \A d \in Calls : call'[d] = IF d = c THEN s ELSE call[d]
  BY <1>1, <1>2, Stepped
<1>4. \A d \in Calls : /\ Active(d)' => d # c /\ Active(d)
                       /\ Holding(d)' => d # c /\ Holding(d)
                       /\ Waiting(d)' => d # c /\ Waiting(d)
  BY <1>2, <1>3 DEF Active, Holding, Waiting
<1> USE DEF Connections
<1>5. TypeOK'
  BY <1>3 DEF TypeOK, CallType
<1>6. CallInv'
  <2>1. \A d \in AsyncCalls : Active(d)' => /\ Holding(d)' /\ call'[d].on \in Loops
                                            /\ loop'[call'[d].on] = "open"
                                            /\ call'[d].client \in AsyncCalls \cup {Pin}
    BY <1>3, <1>4 DEF CallInv, Calls, Holding
  <2>2. \A d \in SyncCalls : /\ call'[d].on = None
                             /\ Holding(d)' => call'[d].client \in SyncCalls
                             /\ call'[d].place = "found" => single' # None
    BY <1>2, <1>3, <1>4 DEF CallInv, Calls
  <2> QED BY <2>1, <2>2 DEF CallInv
<1>7. FreshInv'
  BY <1>3, <1>4 DEF FreshInv
<1>8. LoopInv'
  <2>1. \A x \in Clients, l \in Loops : Serves(x, l)' => Serves(x, l)
    BY <1>3, <1>4 DEF Serves, Calls
  <2> QED BY <2>1 DEF LoopInv, Clients, Calls
<1>9. UnusedInv' /\ TableInv' /\ CloserInv'
  BY DEF UnusedInv, TableInv, CloserInv, Closing
<1>10. CalmInv'
  BY <1>3, <1>4 DEF CalmInv, Calls, Closing
<1>11. KeptInv'
  BY <1>3, <1>4 DEF KeptInv, NoneForgotten, Found, Calls
<1>12. OwnLoop'
  BY <1>2, <1>3 DEF OwnLoop
<1>13. ServedInv'
  BY <1>2, <1>3 DEF ServedInv, Outcomes
<1> QED BY <1>5, <1>6, <1>7, <1>8, <1>9, <1>10, <1>11, <1>12, <1>13

(* The client a call has got is not another loop's.                        *)
LEMMA SentOnItsLoop ==
  ASSUME ClientsInv, NEW c \in Calls, call[c].place = "got"
  PROVE  bound[call[c].client] \in {None, call[c].on}
<1> USE DEF ClientsInv
<1>1. Holding(c) /\ Active(c)
  BY DEF Holding, Active
<1>2. CASE c \in SyncCalls
  BY <1>1, <1>2 DEF CallInv, LoopInv
<1>3. CASE c \in AsyncCalls
  <2> DEFINE x == call[c].client
  <2>1. x \in AsyncCalls \cup {Pin} /\ call[c].on \in Loops /\ Serves(x, call[c].on)
    BY <1>1, <1>3 DEF CallInv, Serves
  <2>2. bound[x] \in Loops \cup {None}
    BY <2>1 DEF TypeOK, Clients, Calls
  <2>3. bound[x] # None => Serves(x, bound[x])
    BY DEF Serves
  <2> QED BY <2>1, <2>2, <2>3 DEF LoopInv
<1> QED BY <1>2, <1>3 DEF Calls

(* The last of a call: a call that nobody disturbs has an open client.     *)
LEMMA EndingKeeps ==
  ASSUME ClientsInv, NEW c \in Calls,
         Blank(c) \/ SendOnClosed(c) \/ Hear(c) \/ Break(c)
  PROVE  ClientsInv'
<1> USE DEF ClientsInv
<1>1. call[c].place \in {"got", "sent"} /\ call[c].calm /\ ~call[c].stale => call[c].client \notin shut
  BY DEF CalmInv, Active, Holding, Calls
<1>2. CASE Blank(c)
  BY <1>2, EndsKeeps DEF Blank, Outcomes
<1>3. CASE SendOnClosed(c)
  BY <1>1, <1>3, EndsKeeps DEF SendOnClosed, Outcomes
<1>4. CASE Hear(c)
  BY <1>4, EndsKeeps DEF Hear, Outcomes
<1>5. CASE Break(c)
  BY <1>1, <1>5, EndsKeeps DEF Break, Outcomes
<1> QED BY <1>2, <1>3, <1>4, <1>5

LEMMA SendKeeps ==
  ASSUME ClientsInv, NEW c \in Calls, Send(c)
  PROVE  ClientsInv'
<1> USE DEF ClientsInv, Send
<1>0. /\ bound' = [bound EXCEPT ![call[c].client] = call[c].on]
      /\ call' = [call EXCEPT ![c].place = "sent"]
  BY SentOnItsLoop
<1> DEFINE s == [call[c] EXCEPT !.place = "sent"]
           x == call[c].client
<1>1. call[c] \in CallType /\ call' = [call EXCEPT ![c] = s]
  BY <1>0 DEF TypeOK, CallType
<1>2. /\ s \in CallType /\ s.place = "sent" /\ s.on = call[c].on /\ s.client = x
      /\ s.outcome = call[c].outcome /\ s.calm = call[c].calm /\ s.stale = call[c].stale
  BY <1>1 DEF CallType, CallPlaces
<1> HIDE DEF s
<1>3. /\ call' \in [Calls -> CallType]
      /\ \A d \in Calls : call'[d] = IF d = c THEN s ELSE call[d]
  BY <1>1, <1>2, Stepped
<1>4. \A d \in Calls : /\ Active(d)' <=> Active(d)
                       /\ Holding(d)' <=> Holding(d)
                       /\ Waiting(d)' <=> Waiting(d)
                       /\ call'[d].on = call[d].on /\ call'[d].client = call[d].client
                       /\ call'[d].calm = call[d].calm /\ call'[d].stale = call[d].stale
                       /\ call'[d].outcome = call[d].outcome
                       /\ call'[d].place # "sent" => call'[d].place = call[d].place
  BY <1>2, <1>3 DEF Active, Holding, Waiting
<1>5. Holding(c) /\ Active(c)
  BY DEF Holding, Active
<1>6. x \in Clients /\ call[c].on \in Loops \cup {None}
  BY <1>1, <1>5, ClientsAssumption DEF CallInv, Calls, Clients, CallType
<1>7. /\ bound' \in [Clients -> Loops \cup {None}]
      /\ \A y \in Clients : bound'[y] = IF y = x THEN call[c].on ELSE bound[y]
  BY <1>0, <1>6 DEF TypeOK
<1>8. c \in AsyncCalls => Serves(x, call[c].on)
  BY <1>5 DEF Serves
<1>9. c \in SyncCalls => call[c].on = None /\ x \in SyncCalls
  BY <1>5 DEF CallInv
<1> HIDE DEF x, Send
<1> USE ClientsAssumption
<1>u. UNCHANGED <<loop, table, pinned, single, shut, closer>>
  BY DEF Send
<1>10. TypeOK'
  BY <1>u, <1>3, <1>7 DEF TypeOK, CallType
<1>11. CallInv'
  BY <1>u, <1>4 DEF CallInv, Calls
<1>12. FreshInv'
  BY <1>u, <1>4, <1>5, <1>7 DEF FreshInv, Calls, Clients, x
<1>13. LoopInv'
  <2>1. \A y \in Clients, l \in Loops : Serves(y, l)' => Serves(y, l)
    BY <1>u, <1>4, <1>7, <1>8, <1>9 DEF Serves, Calls
  <2>2. \A y \in SyncCalls : bound'[y] = None
    BY <1>5, <1>7, <1>9 DEF LoopInv, CallInv, Clients, Calls, x
  <2> QED BY <2>1, <2>2 DEF LoopInv, Clients, Calls
<1>14. UnusedInv' /\ TableInv' /\ CloserInv'
  <2>1. call[c].on = None \/ loop[call[c].on] # "new"
    BY <1>5, <1>9 DEF CallInv, Calls
  <2>2. UnusedInv'
    BY <1>u, <1>7, <2>1 DEF UnusedInv
  <2> QED BY <1>u, <2>2 DEF TableInv, CloserInv, Closing
<1>15. CalmInv'
  BY <1>u, <1>4 DEF CalmInv, Calls, Closing
<1>16. KeptInv'
  BY <1>u, <1>4, <1>5, <1>7, <1>9 DEF KeptInv, NoneForgotten, Found, Calls, Clients, x
<1>17. OwnLoop'
  <2> SUFFICES ASSUME NEW d \in Calls, call'[d].place = "sent"
               PROVE  bound'[call[d].client] = call[d].on
    BY <1>4 DEF OwnLoop
  <2>1. CASE call[d].client # x
    <3>1. d # c /\ call[d].place = "sent" /\ Active(d) /\ Holding(d)
      BY <1>3, <2>1 DEF x, Active, Holding
    <3>2. call[d].client \in Clients
      BY <3>1 DEF CallInv, Calls, Clients
    <3> QED BY <1>7, <2>1, <3>1, <3>2 DEF OwnLoop
  <2>2. CASE call[d].client = x
    <3>1. Active(d) /\ Holding(d)
      BY <1>4 DEF Active, Holding
    <3>2. c \in SyncCalls => d \in SyncCalls /\ call[d].on = None
      BY <1>9, <2>2, <3>1 DEF CallInv, Calls, Clients
    <3>3. c \in AsyncCalls => /\ d \in AsyncCalls /\ call[d].on \in Loops /\ call[c].on \in Loops
                              /\ x \in AsyncCalls \cup {Pin}
      BY <1>5, <2>2, <3>1 DEF CallInv, Calls, Clients, x
    <3>4. c \in AsyncCalls => call[d].on = call[c].on
      <4>1. c \in AsyncCalls => Serves(x, call[d].on)
        BY <2>2, <3>1, <3>3 DEF Serves
      <4> QED BY <1>8, <3>3, <4>1 DEF LoopInv
    <3> QED BY <1>6, <1>7, <1>9, <2>2, <3>2, <3>4 DEF Calls
  <2> QED BY <2>1, <2>2
<1>18. ServedInv'
  BY <1>4 DEF ServedInv
<1> QED BY <1>10, <1>11, <1>12, <1>13, <1>14, <1>15, <1>16, <1>17, <1>18

LEMMA GoesTo ==
  ASSUME TypeOK, NEW c \in Calls, NEW place \in CallPlaces, NEW client \in Clients \cup {None},
         NEW l \in Loops \cup {None}, Goes(c, place, client, l)
  PROVE  /\ call' \in [Calls -> CallType]
         /\ \A d \in Calls \ {c} : call'[d] = call[d]
         /\ call'[c].place = place /\ call'[c].client = client /\ call'[c].on = l
         /\ call'[c].outcome = call[c].outcome
         /\ c \in AsyncCalls => /\ call'[c].calm = (\A k \in Closers : ~Closing(k))
                                /\ call'[c].stale = (pinned \in shut)
         /\ c \in SyncCalls => call'[c].calm /\ call'[c].stale = (single \in shut)
<1> DEFINE calm == c \in SyncCalls \/ \A k \in Closers : ~Closing(k)
           stale == (IF c \in AsyncCalls THEN pinned ELSE single) \in shut
           s == [call[c] EXCEPT !.place = place, !.client = client, !.on = l, !.calm = calm,
                                !.stale = stale]
<1>1. call[c] \in CallType /\ call' = [call EXCEPT ![c] = s]
  BY DEF TypeOK, CallType, Goes
<1>2. calm \in BOOLEAN /\ stale \in BOOLEAN
  OBVIOUS
<1>3. /\ c \in AsyncCalls => calm = (\A k \in Closers : ~Closing(k)) /\ stale = (pinned \in shut)
      /\ c \in SyncCalls => calm /\ stale = (single \in shut)
  BY ClientsAssumption
<1> HIDE DEF calm, stale
<1>4. /\ s \in CallType /\ s.place = place /\ s.client = client /\ s.on = l /\ s.calm = calm
      /\ s.stale = stale /\ s.outcome = call[c].outcome
  BY <1>1, <1>2 DEF CallType
<1> HIDE DEF s
<1>5. /\ call' \in [Calls -> CallType]
      /\ \A d \in Calls : call'[d] = IF d = c THEN s ELSE call[d]
  BY <1>1, <1>4, Stepped
<1> QED BY <1>3, <1>4, <1>5

(* A client of the table or of its own, or the pinned one.                 *)
LEMMA GetKeeps ==
  ASSUME ClientsInv, NEW c \in AsyncCalls, NEW l \in Loops, GetPinned(c, l) \/ GetAsync(c, l)
  PROVE  ClientsInv'
<1> USE ClientsAssumption DEF ClientsInv
<1>c. c \in Calls /\ loop[l] = "open" /\ call[c].place = "idle" /\ Waiting(c)
  BY DEF Calls, GetPinned, GetAsync, Runs, Waiting
<1>u. UNCHANGED <<loop, pinned, single, bound, shut, closer>>
  BY DEF GetPinned, GetAsync, Connections
<1>p. PICK x \in AsyncCalls \cup {Pin} :
        /\ Goes(c, "got", x, l)
        /\ x = Pin => l = PinLoop /\ pinned = Pin /\ table' = table
        /\ x # Pin => /\ pinned = None /\ x \in AsyncCalls /\ (x = c \/ x = table[l])
                      /\ x = IF table[l] # None THEN table[l] ELSE c
                      /\ table' = Swept(l, x)
  <2>1. CASE GetPinned(c, l)
    BY <2>1 DEF GetPinned, Connections, TypeOK
  <2>2. CASE GetAsync(c, l)
    BY <2>2, <1>c DEF GetAsync, ClientOf, TableInv, Calls
  <2> QED BY <2>1, <2>2
<1>1. /\ call' \in [Calls -> CallType]
      /\ \A d \in Calls \ {c} : call'[d] = call[d]
      /\ call'[c].place = "got" /\ call'[c].client = x /\ call'[c].on = l
      /\ call'[c].outcome = call[c].outcome
      /\ call'[c].calm = (\A k \in Closers : ~Closing(k)) /\ call'[c].stale = (pinned \in shut)
  BY <1>c, <1>p, GoesTo DEF CallPlaces, Clients, Calls
<1>2. \A d \in Calls \ {c} : /\ Active(d)' <=> Active(d)
                             /\ Holding(d)' <=> Holding(d)
                             /\ Waiting(d)' <=> Waiting(d)
  BY <1>1 DEF Active, Holding, Waiting
<1>3. Active(c)' /\ Holding(c)' /\ ~Waiting(c)'
  BY <1>1 DEF Active, Holding, Waiting
<1>4. \A m \in Loops : \/ table'[m] = table[m]
                       \/ m = l /\ table[m] = None /\ table'[m] = x /\ x = c
                       \/ loop[m] = "closed" /\ table'[m] = None
  <2>1. CASE x = Pin
    BY <1>p, <2>1
  <2>2. CASE x # Pin
    BY <1>p, <2>2 DEF Swept
  <2> QED BY <2>1, <2>2
<1>5. table' \in [Loops -> Clients \cup {None}]
  <2>1. CASE x = Pin
    BY <1>p, <2>1 DEF TypeOK
  <2>2. CASE x # Pin
    BY <1>p, <2>2 DEF Swept, TypeOK, Clients, Calls
  <2> QED BY <2>1, <2>2
<1>6. /\ c \notin shut /\ bound[c] = None /\ single # c
      /\ \A m \in Loops : table[m] # c
      /\ \A d \in Calls : Holding(d) => call[d].client # c
      /\ \A k \in Closers : c \notin closer[k].todo
  BY <1>c DEF FreshInv
<1>7. TypeOK'
  BY <1>1, <1>5, <1>u DEF TypeOK, CallType
<1>8. CallInv'
  BY <1>1, <1>2, <1>3, <1>c, <1>u DEF CallInv, Calls
<1>9. FreshInv'
  <2> SUFFICES ASSUME NEW d \in Calls, Waiting(d)'
               PROVE  /\ \A m \in Loops : table'[m] # d
                      /\ \A e \in Calls : Holding(e)' => call'[e].client # d
    BY <1>2, <1>3, <1>u DEF FreshInv
  <2>1. d # c /\ Waiting(d)
    BY <1>2, <1>3
  <2>2. x # d
    BY <1>p, <2>1 DEF FreshInv, Clients
  <2>3. \A m \in Loops : table[m] # d /\ None # d
    BY <2>1 DEF FreshInv, Clients
  <2>4. \A e \in Calls : Holding(e) => call[e].client # d
    BY <2>1 DEF FreshInv
  <2> QED BY <1>1, <1>2, <1>4, <2>1, <2>2, <2>3, <2>4
<1>10. LoopInv'
  <2>1. \A y \in Clients, m \in Loops : Serves(y, m)' => Serves(y, m) \/ (y = x /\ m = l)
    BY <1>1, <1>2, <1>4, <1>u DEF Serves, Calls, Clients
  <2>2. x = Pin => l = PinLoop
    BY <1>p
  <2>3. x = c => \A m \in Loops : ~Serves(x, m)
    BY <1>6 DEF Serves, Calls
  <2>4. x # c /\ x # Pin => Serves(x, l)
    BY <1>p DEF Serves
  <2> QED BY <1>u, <2>1, <2>2, <2>3, <2>4 DEF LoopInv, Clients, Calls
<1>11. UnusedInv' /\ TableInv'
  BY <1>4, <1>6, <1>c, <1>u DEF UnusedInv, TableInv
<1>12. CloserInv'
  BY <1>u DEF CloserInv, Closing
<1>13. CalmInv'
  <2>1. ~call'[c].stale => x \notin shut
    BY <1>1, <1>6, <1>p DEF TableInv, Calls
  <2> QED BY <1>1, <1>2, <1>u, <2>1 DEF CalmInv, Closing, Calls
<1>14. KeptInv'
  <2>1. \A y \in AsyncCalls, m \in Loops : loop[m] = "open" /\ Found(y, m) => Found(y, m)'
    BY <1>4, <1>u DEF Found, Clients, Calls
  <2>2. \A y \in AsyncCalls : bound[y] \in Loops \cup {None}
    BY DEF TypeOK, Clients, Calls
  <2>3. NoneForgotten'
    BY <1>u, <2>1, <2>2 DEF KeptInv, NoneForgotten, Found
  <2>4. x # Pin => Found(x, l)'
    <3> SUFFICES ASSUME x # Pin PROVE table'[l] = x
      BY DEF Found
    <3> QED BY <1>c, <1>p DEF Swept
  <2>5. \A d \in AsyncCalls \ {c} : Holding(d) => call[d].on \in Loops /\ loop[call[d].on] = "open"
                                                  /\ call[d].client \in AsyncCalls \cup {Pin}
    BY DEF CallInv, Active, Holding
  <2>6. \A d \in AsyncCalls \ {c} :
          Holding(d)' /\ call'[d].client # Pin => Found(call[d].client, call[d].on)'
    BY <1>1, <1>2, <2>1, <2>5 DEF KeptInv, Calls
  <2> QED BY <1>1, <2>3, <2>4, <2>6 DEF KeptInv, Found, Calls
<1>15. OwnLoop' /\ ServedInv'
  BY <1>1, <1>u DEF OwnLoop, ServedInv
<1> QED BY <1>7, <1>8, <1>9, <1>10, <1>11, <1>12, <1>13, <1>14, <1>15

(* A synchronous call, up to its request: single is what it found, or c.   *)
LEMMA SyncKeeps ==
  ASSUME ClientsInv, NEW c \in SyncCalls, NEW place \in {"make", "found", "got"},
         UNCHANGED <<loop, table, pinned, bound, shut, closer>>,
         call' \in [Calls -> CallType],
         \A d \in Calls \ {c} : call'[d] = call[d],
         call'[c].place = place, call'[c].on = None, call'[c].outcome = call[c].outcome,
         place = "make" => Waiting(c),
         place = "found" => single' # None,
         place = "got" => call'[c].client = single' /\ single' # None,
         single' = single \/ (single' = c /\ Waiting(c) /\ place # "make"),
         call'[c].calm /\ ~call'[c].stale => single' \notin shut
  PROVE  ClientsInv'
<1> USE ClientsAssumption DEF ClientsInv
<1>c. c \in Calls /\ c \notin AsyncCalls
  BY DEF Calls
<1>1. \A d \in Calls \ {c} : /\ Active(d)' <=> Active(d)
                             /\ Holding(d)' <=> Holding(d)
                             /\ Waiting(d)' <=> Waiting(d)
  BY DEF Active, Holding, Waiting
<1>2. (Holding(c)' <=> place = "got") /\ (Waiting(c)' <=> place = "make")
  BY DEF Holding, Waiting
<1>3. single' \in SyncCalls \cup {None}
  BY DEF TypeOK
<1>4. \A d \in AsyncCalls : d \in Calls \ {c}
  BY <1>c DEF Calls
<1>5. TypeOK'
  BY <1>3 DEF TypeOK, CallType
<1>6. CallInv'
  BY <1>1, <1>2, <1>3, <1>4 DEF CallInv, Calls
<1>7. FreshInv'
  <2> SUFFICES ASSUME NEW d \in Calls, Waiting(d)'
               PROVE  /\ single' # d
                      /\ \A e \in Calls : Holding(e)' => call'[e].client # d
    BY <1>1, <1>2 DEF FreshInv
  <2>1. Waiting(d) /\ (d = c => place = "make")
    BY <1>1, <1>2
  <2>2. single' # d
    BY <2>1 DEF FreshInv
  <2> QED BY <1>1, <1>2, <2>1, <2>2 DEF FreshInv
<1>8. LoopInv'
  <2>1. \A x \in Clients, l \in Loops : Serves(x, l)' <=> Serves(x, l)
    BY <1>1, <1>4 DEF Serves
  <2> QED BY <2>1 DEF LoopInv, Clients, Calls
<1>9. UnusedInv' /\ TableInv' /\ CloserInv'
  BY DEF UnusedInv, TableInv, CloserInv, Closing
<1>10. CalmInv'
  <2>1. single \notin shut => single' \notin shut
    BY <1>c DEF FreshInv
  <2> QED BY <1>1, <1>2, <1>4, <2>1 DEF CalmInv, Closing, Calls
<1>11. KeptInv'
  BY <1>1, <1>4 DEF KeptInv, NoneForgotten, Found
<1>12. OwnLoop'
  BY <1>c DEF OwnLoop
<1>13. ServedInv'
  BY DEF ServedInv
<1> QED BY <1>5, <1>6, <1>7, <1>8, <1>9, <1>10, <1>11, <1>12, <1>13

LEMMA LookSyncKeeps ==
  ASSUME ClientsInv, NEW c \in SyncCalls, LookSync(c)
  PROVE  ClientsInv'
<1> USE ClientsAssumption DEF ClientsInv, LookSync, Connections
<1> DEFINE place == IF single = None THEN "make" ELSE "found"
<1>1. c \in Calls /\ c \notin AsyncCalls /\ place \in CallPlaces /\ Waiting(c)
  BY DEF Calls, CallPlaces, Waiting
<1>2. Goes(c, place, None, None)
  OBVIOUS
<1>3. place \in {"make", "found"} /\ (place = "found" => single # None)
  OBVIOUS
<1> HIDE DEF place
<1>4. /\ call' \in [Calls -> CallType]
      /\ \A d \in Calls \ {c} : call'[d] = call[d]
      /\ call'[c].place = place /\ call'[c].on = None
      /\ call'[c].outcome = call[c].outcome
      /\ call'[c].calm /\ call'[c].stale = (single \in shut)
  BY <1>1, <1>2, GoesTo
<1> QED BY <1>1, <1>3, <1>4, SyncKeeps

LEMMA MakeSyncKeeps ==
  ASSUME ClientsInv, NEW c \in SyncCalls, MakeSync(c)
  PROVE  ClientsInv'
<1> USE ClientsAssumption DEF ClientsInv, MakeSync
<1> DEFINE s == [call[c] EXCEPT !.place = "found"]
<1>1. c \in Calls /\ c # None /\ Waiting(c)
  BY DEF Calls, Clients, Waiting
<1>2. call[c] \in CallType /\ call' = [call EXCEPT ![c] = s]
  BY <1>1 DEF TypeOK, CallType
<1>3. /\ s \in CallType /\ s.place = "found" /\ s.on = call[c].on
      /\ s.outcome = call[c].outcome /\ s.calm = call[c].calm /\ s.stale = call[c].stale
  BY <1>2 DEF CallType, CallPlaces
<1> HIDE DEF s
<1>4. /\ call' \in [Calls -> CallType]
      /\ \A d \in Calls : call'[d] = IF d = c THEN s ELSE call[d]
  BY <1>1, <1>2, <1>3, Stepped
<1>5. call[c].on = None /\ c \notin shut
  BY <1>1 DEF CallInv, FreshInv
<1> QED BY <1>1, <1>3, <1>4, <1>5, SyncKeeps

LEMMA ReturnSyncKeeps ==
  ASSUME ClientsInv, NEW c \in SyncCalls, ReturnSync(c)
  PROVE  ClientsInv'
<1> USE ClientsAssumption DEF ClientsInv, ReturnSync, Connections
<1> DEFINE s == [call[c] EXCEPT !.place = "got", !.client = single]
<1>1. c \in Calls /\ Active(c)
  BY DEF Calls, Active
<1>2. call[c] \in CallType /\ call' = [call EXCEPT ![c] = s]
  BY <1>1 DEF TypeOK, CallType
<1>3. /\ s \in CallType /\ s.place = "got" /\ s.on = call[c].on /\ s.client = single
      /\ s.outcome = call[c].outcome /\ s.calm = call[c].calm /\ s.stale = call[c].stale
  BY <1>2 DEF CallType, CallPlaces, TypeOK, Clients, Calls
<1> HIDE DEF s
<1>4. /\ call' \in [Calls -> CallType]
      /\ \A d \in Calls : call'[d] = IF d = c THEN s ELSE call[d]
  BY <1>1, <1>2, <1>3, Stepped
<1>5. call[c].on = None /\ single # None /\ (call[c].calm /\ ~call[c].stale => single \notin shut)
  BY <1>1 DEF CallInv, CalmInv
<1> QED BY <1>1, <1>3, <1>4, <1>5, SyncKeeps

-----------------------------------------------------------------------------
(* Loops.                                                                  *)

LEMMA OpenKeeps ==
  ASSUME ClientsInv, NEW l \in Loops, Open(l)
  PROVE  ClientsInv'
<1> USE ClientsAssumption DEF ClientsInv, Open
<1>1. /\ loop' \in [Loops -> {"new", "open", "teardown", "closed"}]
      /\ \A m \in Loops : loop'[m] = IF m = l THEN "open" ELSE loop[m]
  BY DEF TypeOK
<1>2. TypeOK'
  BY <1>1 DEF TypeOK
<1>3. CallInv'
  BY <1>1 DEF CallInv, Active, Holding
<1>4. FreshInv' /\ LoopInv' /\ TableInv' /\ CloserInv'
  BY DEF FreshInv, Waiting, Holding, LoopInv, Serves, TableInv, CloserInv, Closing
<1>5. CalmInv'
  BY DEF CalmInv, Active, Holding, Closing
<1>6. UnusedInv'
  BY <1>1 DEF UnusedInv
<1>7. KeptInv'
  <2>1. \A x \in AsyncCalls : bound[x] # l
    BY DEF UnusedInv, Clients, Calls
  <2> QED BY <1>1, <2>1 DEF KeptInv, NoneForgotten, Found, Holding
<1>8. OwnLoop' /\ ServedInv'
  BY DEF OwnLoop, ServedInv
<1> QED BY <1>2, <1>3, <1>4, <1>5, <1>6, <1>7, <1>8

CloserType ==
  [place : CloserPlaces, on : Loops \cup {None}, from : Loops \cup {None}, todo : SUBSET Clients]

LEMMA CloseLoopKeeps ==
  ASSUME ClientsInv, NEW l \in Loops, CloseLoop(l)
  PROVE  ClientsInv'
<1> USE ClientsAssumption DEF ClientsInv
<1>u. UNCHANGED <<table, pinned, single, bound, shut>>
  BY DEF CloseLoop
<1>1. loop[l] = "open" /\ loop' \in [Loops -> {"new", "open", "teardown", "closed"}]
      /\ \A m \in Loops : loop'[m] = IF m = l THEN "closed" ELSE loop[m]
  BY DEF TypeOK, CloseLoop, Runs
<1>2. \A c \in Calls : call[c] \in CallType
  BY DEF TypeOK, CallType
<1>3. \A c \in Calls : Over(call[c], "cancelled") \in CallType
  BY <1>2 DEF Over, CallType, CallPlaces, Outcomes
<1>4. call' = [c \in Calls |-> IF Active(c) /\ call[c].on = l
                                 THEN Over(call[c], "cancelled") ELSE call[c]]
  BY DEF CloseLoop
<1>5. call' \in [Calls -> CallType]
  BY <1>2, <1>3, <1>4
<1>6. \A c \in Calls :
        \/ call'[c] = call[c] /\ (Active(c) => call[c].on # l)
        \/ /\ Active(c) /\ call[c].on = l
           /\ call'[c].place = "done" /\ call'[c].on = None /\ call'[c].outcome = "cancelled"
  BY <1>2, <1>4 DEF Over, CallType
<1>7. \A k \in Closers :
        \/ closer'[k] = closer[k]
        \/ /\ Closing(k) /\ closer'[k] \in CloserType
           /\ closer'[k].place \in {"cancelled", "halfway"} /\ closer'[k].todo = closer[k].todo
  <2> SUFFICES ASSUME NEW k \in Closers
               PROVE  \/ closer'[k] = closer[k]
                      \/ /\ Closing(k) /\ closer'[k] \in CloserType
                         /\ closer'[k].place \in {"cancelled", "halfway"}
                         /\ closer'[k].todo = closer[k].todo
    OBVIOUS
  <2>1. closer[k] \in CloserType
    BY DEF TypeOK, CloserType
  <2>2. closer'[k] = IF Closing(k) /\ closer[k].on = l
                       THEN [closer[k] EXCEPT !.place = IF @ = "pin" THEN "halfway" ELSE "cancelled",
                                              !.on = None]
                       ELSE closer[k]
    BY DEF CloseLoop
  <2> QED BY <2>1, <2>2 DEF CloserType, CloserPlaces
<1>8. closer' \in [Closers -> CloserType]
  <2>1. \A k \in Closers : closer[k] \in CloserType
    BY DEF TypeOK, CloserType
  <2>2. \A k \in Closers : closer'[k] \in CloserType
    BY <1>7, <2>1
  <2> QED BY <2>2 DEF CloseLoop
<1>9. \A k \in Closers : closer'[k].todo = closer[k].todo /\ (Closing(k)' => Closing(k))
                         /\ (Closing(k)' => closer'[k] = closer[k])
  BY <1>7 DEF Closing
<1>10. \A c \in Calls : /\ Active(c)' => call'[c] = call[c] /\ Active(c) /\ call[c].on # l
                        /\ Holding(c)' => call'[c] = call[c] /\ Holding(c) /\ call[c].on # l
                        /\ Waiting(c)' => Waiting(c)
  BY <1>6 DEF Active, Holding, Waiting
<1>11. TypeOK'
  BY <1>1, <1>5, <1>8, <1>u DEF TypeOK, CallType, CloserType
<1>12. CallInv'
  <2>1. \A c \in SyncCalls : call'[c] = call[c]
    BY <1>6 DEF CallInv, Calls
  <2>2. \A c \in AsyncCalls : Active(c)' => /\ Holding(c)' /\ call'[c].on \in Loops
                                            /\ loop'[call'[c].on] = "open"
                                            /\ call'[c].client \in AsyncCalls \cup {Pin}
    BY <1>1, <1>10 DEF CallInv, Calls, Holding
  <2> QED BY <1>u, <2>1, <2>2 DEF CallInv, Holding
<1>13. FreshInv'
  BY <1>9, <1>10, <1>u DEF FreshInv
<1>14. LoopInv'
  <2>1. \A x \in Clients, m \in Loops : Serves(x, m)' => Serves(x, m)
    BY <1>10, <1>u DEF Serves, Calls
  <2> QED BY <1>u, <2>1 DEF LoopInv, Clients, Calls
<1>15. UnusedInv'
  BY <1>1, <1>u DEF UnusedInv
<1>16. TableInv'
  BY <1>9, <1>u DEF TableInv
<1>17. CloserInv'
  BY <1>7, <1>9 DEF CloserInv
<1>18. CalmInv'
  BY <1>9, <1>10, <1>u DEF CalmInv, Calls
<1>19. KeptInv'
  <2>1. \A x : \A m : Found(x, m)' <=> Found(x, m)
    BY <1>9, <1>u DEF Found
  <2>2. NoneForgotten'
    <3>1. \A x \in AsyncCalls : bound[x] \in Loops \cup {None}
      BY DEF TypeOK, Clients, Calls
    <3>2. \A x \in AsyncCalls : bound[x] # None /\ loop'[bound[x]] = "open" => loop[bound[x]] = "open"
      BY <1>1, <3>1
    <3> QED BY <1>9, <1>u, <3>2 DEF KeptInv, NoneForgotten
  <2> QED BY <1>10, <2>1, <2>2 DEF KeptInv, Calls
<1>20. OwnLoop' /\ ServedInv'
  BY <1>6, <1>10, <1>u DEF OwnLoop, ServedInv
<1> QED BY <1>11, <1>12, <1>13, <1>14, <1>15, <1>16, <1>17, <1>18, <1>19, <1>20

-----------------------------------------------------------------------------
(* Closing.                                                                *)

LEMMA CloserStepped ==
  ASSUME TypeOK, NEW k \in Closers, NEW s \in CloserType, closer' = [closer EXCEPT ![k] = s]
  PROVE  /\ closer' \in [Closers -> CloserType]
         /\ \A j \in Closers : closer'[j] = IF j = k THEN s ELSE closer[j]
  BY DEF TypeOK, CloserType

LEMMA Disturbed ==
  ASSUME TypeOK, NEW calls, Disturbs(calls)
  PROVE  /\ call' \in [Calls -> CallType]
         /\ \A c \in Calls :
              /\ call'[c].place = call[c].place /\ call'[c].on = call[c].on
              /\ call'[c].client = call[c].client /\ call'[c].outcome = call[c].outcome
              /\ call'[c].stale = call[c].stale
              /\ call'[c].calm => call[c].calm /\ ~(c \in calls /\ Active(c))
<1> SUFFICES ASSUME NEW c \in Calls
             PROVE  /\ call'[c] \in CallType
                    /\ call'[c].place = call[c].place /\ call'[c].on = call[c].on
                    /\ call'[c].client = call[c].client /\ call'[c].outcome = call[c].outcome
                    /\ call'[c].stale = call[c].stale
                    /\ call'[c].calm => call[c].calm /\ ~(c \in calls /\ Active(c))
  BY DEF Disturbs
<1> DEFINE calm == call[c].calm /\ ~(c \in calls /\ Active(c))
<1>1. call[c] \in CallType /\ calm \in BOOLEAN
  BY DEF TypeOK, CallType
<1>2. call'[c] = [call[c] EXCEPT !.calm = calm]
  BY DEF Disturbs
<1>3. calm => call[c].calm /\ ~(c \in calls /\ Active(c))
  OBVIOUS
<1> HIDE DEF calm
<1> QED BY <1>1, <1>2, <1>3 DEF CallType

(* A close begins: what is under way may fail for it.                      *)
LEMMA StartKeeps ==
  ASSUME ClientsInv, NEW k \in Closers, closer[k].place = "idle", NEW l \in Loops,
         NEW from \in Loops \cup {None},
         closer' = [closer EXCEPT ![k].place = "start", ![k].on = l, ![k].from = from],
         UNCHANGED <<table, pinned, single, bound>>,
         \/ Disturbs(AsyncCalls) /\ UNCHANGED <<shut, loop>>
         \/ /\ Disturbs(Calls) /\ shut' = shut \cup ({single} \ {None})
            /\ loop[l] = "new" /\ loop' = [loop EXCEPT ![l] = "teardown"]
  PROVE  ClientsInv'
<1> USE ClientsAssumption DEF ClientsInv
<1> DEFINE s == [closer[k] EXCEPT !.place = "start", !.on = l, !.from = from]
<1>1. closer[k] \in CloserType /\ closer' = [closer EXCEPT ![k] = s]
  BY DEF TypeOK, CloserType
<1>2. s \in CloserType /\ s.place = "start" /\ s.on = l /\ s.todo = closer[k].todo
  BY <1>1 DEF CloserType, CloserPlaces
<1> HIDE DEF s
<1>3. /\ closer' \in [Closers -> CloserType]
      /\ \A j \in Closers : closer'[j] = IF j = k THEN s ELSE closer[j]
  BY <1>1, <1>2, CloserStepped
<1>4. \A j \in Closers : closer'[j].todo = closer[j].todo
  BY <1>2, <1>3
<1>5. /\ call' \in [Calls -> CallType]
      /\ \A c \in Calls :
           /\ call'[c].place = call[c].place /\ call'[c].on = call[c].on
           /\ call'[c].client = call[c].client /\ call'[c].outcome = call[c].outcome
           /\ call'[c].stale = call[c].stale
           /\ call'[c].calm => call[c].calm
           /\ call'[c].calm => ~(c \in AsyncCalls /\ Active(c))
           /\ call'[c].calm /\ shut' # shut => ~Active(c)
  BY Disturbed DEF Calls
<1>6. \A c \in Calls : /\ Active(c)' <=> Active(c)
                       /\ Holding(c)' <=> Holding(c)
                       /\ Waiting(c)' <=> Waiting(c)
  BY <1>5 DEF Active, Holding, Waiting
<1>7. /\ loop' \in [Loops -> {"new", "open", "teardown", "closed"}]
      /\ \A m \in Loops : /\ loop'[m] = "open" <=> loop[m] = "open"
                          /\ loop'[m] = "new" => loop[m] = "new"
  BY DEF TypeOK
<1>8. single \in SyncCalls \cup {None} /\ (shut' = shut \/ shut' = shut \cup ({single} \ {None}))
  BY DEF TypeOK
<1>9. TypeOK'
  BY <1>3, <1>5, <1>7, <1>8 DEF TypeOK, CallType, CloserType, Clients, Calls
<1>10. CallInv'
  BY <1>5, <1>6, <1>7 DEF CallInv, Calls
<1>11. FreshInv'
  <2> SUFFICES ASSUME NEW c \in Calls, Waiting(c)
               PROVE  /\ c \notin shut' /\ \A d \in Calls : Holding(d)' => call'[d].client # c
                      /\ \A j \in Closers : c \notin closer'[j].todo
    BY <1>6 DEF FreshInv
  <2>1. c \notin shut'
    BY <1>8 DEF FreshInv
  <2>2. \A d \in Calls : Holding(d)' => call'[d].client # c
    BY <1>5, <1>6 DEF FreshInv
  <2>3. \A j \in Closers : c \notin closer'[j].todo
    BY <1>4 DEF FreshInv
  <2> QED BY <2>1, <2>2, <2>3
<1>12. LoopInv'
  <2>1. \A x \in Clients, m \in Loops : Serves(x, m)' <=> Serves(x, m)
    BY <1>5, <1>6 DEF Serves, Calls
  <2> QED BY <2>1 DEF LoopInv, Clients, Calls
<1>13. UnusedInv'
  BY <1>7 DEF UnusedInv
<1>14. TableInv'
  BY <1>4, <1>8 DEF TableInv
<1>15. CloserInv'
  BY <1>2, <1>3 DEF CloserInv, Closing
<1>16. CalmInv'
  BY <1>5, <1>6 DEF CalmInv, Calls
<1>17. KeptInv'
  <2>1. \A x \in AsyncCalls : \A m \in Loops : Found(x, m) => Found(x, m)'
    BY <1>4, <1>8 DEF Found
  <2>2. \A x \in AsyncCalls : bound[x] \in Loops \cup {None}
    BY DEF TypeOK, Clients, Calls
  <2>3. NoneForgotten'
    BY <1>7, <2>1, <2>2 DEF KeptInv, NoneForgotten, Found
  <2>4. \A c \in AsyncCalls : Holding(c) => call[c].on \in Loops /\ call[c].client \in AsyncCalls \cup {Pin}
    BY DEF CallInv, Active, Holding
  <2> QED BY <1>5, <1>6, <2>1, <2>3, <2>4 DEF KeptInv, Calls
<1>18. OwnLoop' /\ ServedInv'
  BY <1>5 DEF OwnLoop, ServedInv
<1> QED BY <1>9, <1>10, <1>11, <1>12, <1>13, <1>14, <1>15, <1>16, <1>17, <1>18

(* A close goes on: what it takes from the table, it will close.           *)
LEMMA CloserKeeps ==
  ASSUME ClientsInv, NEW k \in Closers, Closing(k), UNCHANGED <<call, single, bound>>,
         NEW s \in CloserType, closer' = [closer EXCEPT ![k] = s],
         pinned' \in {None, Pin},
         loop' \in [Loops -> {"new", "open", "teardown", "closed"}],
         \A m \in Loops : /\ loop'[m] = "open" <=> loop[m] = "open"
                          /\ loop'[m] = "new" => loop[m] = "new",
         table' \in [Loops -> Clients \cup {None}],
         \A m \in Loops : \/ table'[m] = table[m] /\ table[m] \notin s.todo
                          \/ table'[m] = None /\ (table[m] # None => table[m] \in s.todo),
         shut \subseteq shut', shut' \subseteq shut \cup {Pin} \cup closer[k].todo,
         \A x \in s.todo : x \in closer[k].todo \/ \E m \in Loops : x # None /\ table[m] = x,
         closer[k].todo \subseteq s.todo \cup shut',
         s.place \in {"start", "pin"} => s.todo = {},
         s.place \in {"start", "pin", "closing", "done"}, s.place # "done" => s.on = closer[k].on
  PROVE  ClientsInv'
<1> USE ClientsAssumption DEF ClientsInv
<1>1. /\ closer' \in [Closers -> CloserType]
      /\ \A j \in Closers : closer'[j] = IF j = k THEN s ELSE closer[j]
  BY CloserStepped
<1>2. \A c \in Calls : /\ Active(c)' <=> Active(c)
                       /\ Holding(c)' <=> Holding(c)
                       /\ Waiting(c)' <=> Waiting(c)
  BY DEF Active, Holding, Waiting
<1>3. closer[k].todo \subseteq AsyncCalls /\ s.todo \subseteq AsyncCalls
  BY DEF CloserInv, TableInv
<1>4. \A m \in Loops : table'[m] # None => table'[m] = table[m]
  OBVIOUS
<1>5. TypeOK'
  BY <1>1, <1>3 DEF TypeOK, CallType, CloserType, Clients, Calls
<1>6. CallInv'
  BY <1>2 DEF CallInv, Calls
<1>7. FreshInv'
  <2> SUFFICES ASSUME NEW c \in Calls, Waiting(c)
               PROVE  /\ c \notin shut' /\ \A m \in Loops : table'[m] # c
                      /\ \A j \in Closers : c \notin closer'[j].todo
    BY <1>2 DEF FreshInv
  <2>1. c \notin shut /\ c # Pin /\ c # None
    BY DEF FreshInv, Clients
  <2>2. \A m \in Loops : table[m] # c
    BY DEF FreshInv
  <2>3. \A j \in Closers : c \notin closer[j].todo
    BY DEF FreshInv
  <2> QED BY <1>1, <1>4, <2>1, <2>2, <2>3
<1>8. LoopInv'
  <2>1. \A x \in Clients, m \in Loops : Serves(x, m)' => Serves(x, m)
    BY <1>2, <1>4 DEF Serves, Calls, Clients
  <2> QED BY <2>1 DEF LoopInv, Clients, Calls
<1>9. UnusedInv'
  BY <1>4 DEF UnusedInv
<1>10. TableInv'
  <2> SUFFICES ASSUME NEW m \in Loops, table'[m] # None
               PROVE  /\ table[m] \in AsyncCalls /\ table[m] \notin shut'
                      /\ \A j \in Closers : table[m] \notin closer'[j].todo
    BY <1>4 DEF TableInv
  <2>1. table[m] \in AsyncCalls /\ table[m] \notin shut /\ table[m] # Pin /\ table[m] \notin s.todo
    BY <1>4 DEF TableInv, Calls
  <2>2. \A j \in Closers : table[m] \notin closer[j].todo
    BY <1>4 DEF TableInv
  <2> QED BY <1>1, <2>1, <2>2
<1>11. CloserInv'
  BY <1>1, <1>3 DEF CloserInv, Closing
<1>12. CalmInv'
  <2>1. \A c \in AsyncCalls : Active(c) => ~call[c].calm \/ call[c].stale
    BY DEF CalmInv
  <2>2. \A c \in SyncCalls : c \notin shut => c \notin shut'
    BY <1>3 DEF Calls
  <2>3. single \notin shut => single \notin shut'
    BY <1>3, <2>2 DEF TypeOK, Clients, Calls
  <2>4. \A c \in SyncCalls : Holding(c) => call[c].client \in SyncCalls
    BY DEF CallInv
  <2> QED BY <1>2, <2>1, <2>2, <2>3, <2>4 DEF CalmInv, Calls
<1>13. KeptInv'
  <2>1. \A x \in AsyncCalls : \A m \in Loops : Found(x, m) => Found(x, m)'
    <3> SUFFICES ASSUME NEW x \in AsyncCalls, NEW m \in Loops, Found(x, m) PROVE Found(x, m)'
      OBVIOUS
    <3>1. CASE x \in shut
      BY <3>1 DEF Found
    <3>2. CASE table[m] = x
      BY <1>1, <3>2 DEF Found, Calls, Clients
    <3>3. CASE \E j \in Closers : x \in closer[j].todo
      BY <1>1, <3>3 DEF Found
    <3> QED BY <3>1, <3>2, <3>3 DEF Found
  <2>2. \A x \in AsyncCalls : bound[x] \in Loops \cup {None}
    BY DEF TypeOK, Clients, Calls
  <2>3. NoneForgotten'
    BY <2>1, <2>2 DEF KeptInv, NoneForgotten, Found
  <2>4. \A c \in AsyncCalls : Holding(c) => call[c].on \in Loops /\ call[c].client \in AsyncCalls \cup {Pin}
    BY DEF CallInv, Active, Holding
  <2> QED BY <1>2, <2>1, <2>3, <2>4 DEF KeptInv, Calls
<1>14. OwnLoop' /\ ServedInv'
  BY DEF OwnLoop, ServedInv
<1> QED BY <1>5, <1>6, <1>7, <1>8, <1>9, <1>10, <1>11, <1>12, <1>13, <1>14

LEMMA CloserStepKeeps ==
  ASSUME ClientsInv, NEW k \in Closers,
         ClosePinned(k) \/ Unpin(k) \/ Take(k) \/ CloseOne(k) \/ Closed(k)
  PROVE  ClientsInv'
<1> USE ClientsAssumption DEF ClientsInv
<1>1. closer[k] \in CloserType
  BY DEF TypeOK, CloserType
<1>2. Closing(k) /\ UNCHANGED <<call, single, bound>>
  BY DEF ClosePinned, Unpin, Take, CloseOne, Closed, Closing
<1>3. /\ closer[k].place \in {"start", "pin"} => closer[k].todo = {}
      /\ closer[k].on \in Loops /\ closer[k].todo \subseteq AsyncCalls
  BY <1>2 DEF CloserInv
<1>4. /\ loop \in [Loops -> {"new", "open", "teardown", "closed"}]
      /\ table \in [Loops -> Clients \cup {None}] /\ pinned \in {None, Pin}
  BY DEF TypeOK
<1>5. CASE ClosePinned(k)
  <2> DEFINE s == [closer[k] EXCEPT !.place = "pin"]
  <2>1. closer' = [closer EXCEPT ![k] = s]
    BY <1>5 DEF ClosePinned
  <2>2. s \in CloserType /\ s.place = "pin" /\ s.todo = {} /\ s.on = closer[k].on
    BY <1>1, <1>3, <1>5 DEF ClosePinned, CloserType, CloserPlaces
  <2> HIDE DEF s
  <2>3. shut' = shut \cup {Pin} /\ UNCHANGED <<loop, table, pinned>> /\ closer[k].todo = {}
    BY <1>3, <1>4, <1>5 DEF ClosePinned
  <2> QED BY <1>2, <1>4, <2>1, <2>2, <2>3, CloserKeeps
<1>6. CASE Unpin(k)
  <2> DEFINE s == [closer[k] EXCEPT !.place = "start"]
  <2>1. closer' = [closer EXCEPT ![k] = s]
    BY <1>6 DEF Unpin
  <2>2. s \in CloserType /\ s.place = "start" /\ s.todo = {} /\ s.on = closer[k].on
    BY <1>1, <1>3, <1>6 DEF Unpin, CloserType, CloserPlaces
  <2> HIDE DEF s
  <2>3. pinned' = None /\ UNCHANGED <<loop, table, shut>> /\ closer[k].todo = {}
    BY <1>3, <1>6 DEF Unpin
  <2> QED BY <1>2, <1>4, <2>1, <2>2, <2>3, CloserKeeps
<1>7. CASE Take(k)
  <2> DEFINE taken == {table[l] : l \in Loops} \ {None}
             s == [closer[k] EXCEPT !.place = "closing", !.todo = taken]
  <2>1. closer' = [closer EXCEPT ![k] = s]
    BY <1>7 DEF Take
  <2>2. taken \in SUBSET Clients
    BY <1>4
  <2>3. \A x \in taken : \E m \in Loops : x # None /\ table[m] = x
    OBVIOUS
  <2>4. \A m \in Loops : table[m] # None => table[m] \in taken
    OBVIOUS
  <2> HIDE DEF taken
  <2>5. s \in CloserType /\ s.place = "closing" /\ s.todo = taken /\ s.on = closer[k].on
    BY <1>1, <2>2 DEF CloserType, CloserPlaces
  <2> HIDE DEF s
  <2>6. UNCHANGED <<loop, pinned, shut>> /\ closer[k].todo = {}
        /\ table' \in [Loops -> Clients \cup {None}] /\ \A m \in Loops : table'[m] = None
    BY <1>3, <1>7 DEF Take
  <2> QED BY <1>2, <1>4, <2>1, <2>3, <2>4, <2>5, <2>6, CloserKeeps
<1>8. CASE CloseOne(k)
  <2>1. PICK x \in closer[k].todo : /\ shut' = shut \cup {x}
                                    /\ closer' = [closer EXCEPT ![k].todo = @ \ {x}]
    BY <1>8 DEF CloseOne
  <2> DEFINE s == [closer[k] EXCEPT !.todo = @ \ {x}]
  <2>2. closer' = [closer EXCEPT ![k] = s]
    BY <2>1
  <2>3. s \in CloserType /\ s.place = "closing" /\ s.todo = closer[k].todo \ {x} /\ s.on = closer[k].on
    BY <1>1, <1>8 DEF CloseOne, CloserType, CloserPlaces
  <2> HIDE DEF s
  <2>4. UNCHANGED <<loop, table, pinned>>
    BY <1>8 DEF CloseOne
  <2>5. \A m \in Loops : table[m] \notin s.todo
    BY <1>3, <2>3 DEF TableInv, Calls, Clients
  <2> QED BY <1>2, <1>4, <2>1, <2>2, <2>3, <2>4, <2>5, CloserKeeps
<1>9. CASE Closed(k)
  <2> DEFINE s == [closer[k] EXCEPT !.place = "done", !.on = None, !.from = None]
  <2>1. closer' = [closer EXCEPT ![k] = s]
    BY <1>9 DEF Closed
  <2>2. s \in CloserType /\ s.place = "done" /\ s.todo = {}
    BY <1>1, <1>9 DEF Closed, CloserType, CloserPlaces
  <2> HIDE DEF s
  <2>3. UNCHANGED <<table, pinned, shut>> /\ closer[k].todo = {}
    BY <1>9 DEF Closed
  <2>4. /\ loop' \in [Loops -> {"new", "open", "teardown", "closed"}]
        /\ \A m \in Loops : /\ loop'[m] = "open" <=> loop[m] = "open"
                            /\ loop'[m] = "new" => loop[m] = "new"
    BY <1>3, <1>4, <1>9 DEF Closed
  <2> QED BY <1>2, <1>4, <2>1, <2>2, <2>3, <2>4, CloserKeeps
<1> QED BY <1>5, <1>6, <1>7, <1>8, <1>9

-----------------------------------------------------------------------------
LEMMA ClientsStep == ClientsInv /\ [Next]_vars => ClientsInv'
<1> SUFFICES ASSUME ClientsInv, [Next]_vars PROVE ClientsInv'
  OBVIOUS
<1>1. CASE \E l \in Loops : Open(l) \/ CloseLoop(l)
  BY <1>1, OpenKeeps, CloseLoopKeeps
<1>2. CASE \E c \in AsyncCalls, l \in Loops : GetPinned(c, l) \/ GetAsync(c, l)
  BY <1>2, GetKeeps
<1>3. CASE \E c \in SyncCalls : LookSync(c) \/ MakeSync(c) \/ ReturnSync(c)
  BY <1>3, LookSyncKeeps, MakeSyncKeeps, ReturnSyncKeeps
<1>4. CASE \E c \in Calls : Blank(c) \/ CallStep(c)
  BY <1>4, EndingKeeps, SendKeeps DEF CallStep
<1>5. CASE \E k \in Closers : CloserStep(k)
  <2>1. PICK k \in Closers : CloserStep(k)
    BY <1>5
  <2>2. CASE ClosePinned(k) \/ Unpin(k) \/ Take(k) \/ CloseOne(k) \/ Closed(k)
    BY <2>2, CloserStepKeeps
  <2>3. CASE \E l \in Loops : Aclose(k, l)
    <3>1. PICK l \in Loops : Aclose(k, l)
      BY <2>3
    <3> DEFINE s == [closer[k] EXCEPT !.place = "start", !.on = l]
    <3>2. PICK from \in Loops \cup {None} : closer[k].from = from
      BY DEF ClientsInv, TypeOK
    <3>3. closer[k] \in CloserType
      BY DEF ClientsInv, TypeOK, CloserType
    <3>4. s = [closer[k] EXCEPT !.place = "start", !.on = l, !.from = from]
      BY <3>2, <3>3 DEF CloserType
    <3>5. closer' = [closer EXCEPT ![k].place = "start", ![k].on = l, ![k].from = from]
      BY <3>1, <3>4 DEF Aclose
    <3> QED BY <3>1, <3>5, StartKeeps DEF Aclose
  <2>4. CASE \E l \in Loops, from \in Loops \cup {None} : BridgeClose(k, l, from)
    BY <2>4, StartKeeps DEF BridgeClose
  <2> QED BY <2>1, <2>2, <2>3, <2>4 DEF CloserStep
<1>6. CASE UNCHANGED vars
  <2> USE <1>6 DEF vars, ClientsInv
  <2>1. TypeOK' /\ CallInv' /\ FreshInv' /\ LoopInv' /\ UnusedInv'
    BY DEF TypeOK, CallInv, Active, Holding, FreshInv, Waiting, LoopInv, Serves, UnusedInv
  <2>2. TableInv' /\ CloserInv' /\ CalmInv' /\ KeptInv' /\ OwnLoop' /\ ServedInv'
    BY DEF TableInv, CloserInv, Closing, CalmInv, Active, Holding, KeptInv, NoneForgotten, Found,
           OwnLoop, ServedInv
  <2> QED BY <2>1, <2>2
<1> QED BY <1>1, <1>2, <1>3, <1>4, <1>5, <1>6 DEF Next

THEOREM ClientsInvariant == Spec => []ClientsInv
  BY ClientsInit, ClientsStep, PTL DEF Spec

(* The connections, the table and the calls are of their types.            *)
THEOREM ClientsTypeCorrect == Spec => []TypeOK
  BY ClientsInvariant, PTL DEF ClientsInv

(* client.py 799: no request is sent over a connection of another loop.    *)
THEOREM StaysOnItsLoop == Spec => []OwnLoop
  BY ClientsInvariant, PTL DEF ClientsInv

-----------------------------------------------------------------------------
(* Who may find a closed client that nobody is closing.                    *)

Halfway == \E k \in Closers : closer[k].place = "halfway"

(* A pinned client stays closed only while an aclose is about to unpin it, *)
(* or after one that ended halfway.                                        *)
StaleInv ==
  /\ Pin \in shut /\ pinned = Pin => Halfway \/ \E k \in Closers : closer[k].place = "pin"
  /\ \A c \in AsyncCalls : call[c].calm /\ call[c].stale => Halfway

LEMMA StaleCall ==
  ASSUME ClientsInv, StaleInv, UNCHANGED <<pinned, closer>>, Pin \in shut' => Pin \in shut,
         \A c \in AsyncCalls : call'[c].calm /\ call'[c].stale =>
           Halfway \/ (call[c].calm /\ call[c].stale)
  PROVE  StaleInv'
  BY DEF StaleInv, Halfway

LEMMA StaleStep == ClientsInv /\ StaleInv /\ [Next]_vars => StaleInv'
<1> SUFFICES ASSUME ClientsInv, StaleInv, [Next]_vars PROVE StaleInv'
  OBVIOUS
<1> USE ClientsAssumption
<1>0. /\ call \in [Calls -> CallType] /\ closer \in [Closers -> CloserType]
      /\ pinned \in {None, Pin} /\ shut \subseteq Clients /\ single \in SyncCalls \cup {None}
  BY DEF ClientsInv, TypeOK, CallType, CloserType
<1>1. ASSUME NEW c \in Calls, NEW outcome, Ends(c, outcome), UNCHANGED <<pinned, closer, shut>>
      PROVE  StaleInv'
  <2>1. \A d \in Calls : call'[d].calm = call[d].calm /\ call'[d].stale = call[d].stale
    BY <1>0, <1>1 DEF Ends, Over, CallType
  <2> QED BY <1>1, <2>1, StaleCall DEF Calls
<1>2. ASSUME NEW l \in Loops, Open(l)
      PROVE  StaleInv'
  BY <1>2, StaleCall DEF Open
<1>3. ASSUME NEW l \in Loops, CloseLoop(l)
      PROVE  StaleInv'
  <2>1. UNCHANGED <<pinned, shut>>
    BY <1>3 DEF CloseLoop
  <2>2. \A c \in Calls : call'[c].calm = call[c].calm /\ call'[c].stale = call[c].stale
    BY <1>0, <1>3 DEF CloseLoop, Over, CallType
  <2>3. ASSUME NEW k \in Closers, closer[k].place = "halfway"
        PROVE  closer'[k].place = "halfway"
    BY <1>0, <1>3, <2>3 DEF CloseLoop, Closing, CloserType
  <2>4. Halfway => Halfway'
    BY <2>3 DEF Halfway
  <2>5. ASSUME NEW k \in Closers, closer[k].place = "pin"
        PROVE  closer'[k].place \in {"pin", "halfway"}
    BY <1>0, <1>3, <2>5 DEF CloseLoop, Closing, CloserType
  <2>6. (\E k \in Closers : closer[k].place = "pin") =>
          Halfway' \/ \E k \in Closers : closer'[k].place = "pin"
    BY <2>5 DEF Halfway
  <2> QED BY <2>1, <2>2, <2>4, <2>6 DEF StaleInv, Calls
<1>4. ASSUME NEW c \in AsyncCalls, NEW l \in Loops, GetPinned(c, l) \/ GetAsync(c, l)
      PROVE  StaleInv'
  <2>1. /\ UNCHANGED <<pinned, closer, shut>> /\ c \in Calls
        /\ \E x \in Clients \cup {None} : Goes(c, "got", x, l)
    BY <1>0, <1>4 DEF GetPinned, GetAsync, Connections, Clients, Calls, ClientOf, ClientsInv, TypeOK
  <2>2. /\ \A d \in Calls \ {c} : call'[d] = call[d]
        /\ call'[c].calm = (\A k \in Closers : ~Closing(k))
        /\ call'[c].stale = (pinned \in shut)
    BY <2>1, GoesTo DEF ClientsInv, CallPlaces
  <2>3. None \notin shut
    BY <1>0
  <2>4. call'[c].calm /\ call'[c].stale => Halfway
    BY <1>0, <2>2, <2>3 DEF StaleInv, Closing
  <2>5. \A d \in AsyncCalls : call'[d].calm /\ call'[d].stale =>
          Halfway \/ (call[d].calm /\ call[d].stale)
    <3> SUFFICES ASSUME NEW d \in AsyncCalls, call'[d].calm /\ call'[d].stale
                 PROVE  Halfway \/ (call[d].calm /\ call[d].stale)
      OBVIOUS
    <3>1. CASE d = c
      <4>1. call'[c].calm /\ call'[c].stale
        BY <3>1
      <4> QED BY <2>4, <4>1
    <3>2. CASE d # c
      <4>1. call'[d] = call[d]
        BY <2>2, <3>2 DEF Calls
      <4> QED BY <4>1
    <3> QED BY <3>1, <3>2
  <2> QED BY <2>1, <2>5, StaleCall
<1>5. ASSUME NEW c \in SyncCalls, LookSync(c) \/ MakeSync(c) \/ ReturnSync(c)
      PROVE  StaleInv'
  <2>1. UNCHANGED <<pinned, closer, shut>> /\ \A d \in AsyncCalls : call'[d] = call[d]
    BY <1>0, <1>5 DEF LookSync, MakeSync, ReturnSync, Goes, Connections, Calls
  <2> QED BY <2>1, StaleCall
<1>6. ASSUME NEW c \in Calls, Blank(c) \/ SendOnClosed(c) \/ Hear(c) \/ Break(c)
      PROVE  StaleInv'
  BY <1>1, <1>6 DEF Blank, SendOnClosed, Hear, Break, Connections
<1>7. ASSUME NEW c \in Calls, Send(c)
      PROVE  StaleInv'
  <2>1. UNCHANGED <<pinned, closer, shut>>
    BY <1>7 DEF Send
  <2>2. \A d \in Calls : call'[d].calm = call[d].calm /\ call'[d].stale = call[d].stale
    <3>1. bound[call[c].client] \in {None, call[c].on}
      BY <1>7, SentOnItsLoop DEF Send
    <3>2. call' = [call EXCEPT ![c].place = "sent"]
      BY <1>7, <3>1 DEF Send
    <3> QED BY <1>0, <3>2 DEF CallType
  <2> QED BY <2>1, <2>2, StaleCall DEF Calls
<1>8. ASSUME NEW k \in Closers, NEW l \in Loops, NEW from \in Loops \cup {None},
             Aclose(k, l) \/ BridgeClose(k, l, from)
      PROVE  StaleInv'
  <2>1. UNCHANGED pinned /\ (Pin \in shut' => Pin \in shut)
    BY <1>0, <1>8 DEF Aclose, BridgeClose, Calls
  <2>2. \A c \in Calls : call'[c].stale = call[c].stale /\ (call'[c].calm => call[c].calm)
    BY <1>8, Disturbed DEF Aclose, BridgeClose, ClientsInv
  <2>3. closer[k].place = "idle" /\ \A j \in Closers \ {k} : closer'[j] = closer[j]
    BY <1>0, <1>8 DEF Aclose, BridgeClose
  <2> QED BY <2>1, <2>2, <2>3 DEF StaleInv, Halfway, Calls
<1>9. ASSUME NEW k \in Closers,
             ClosePinned(k) \/ Unpin(k) \/ Take(k) \/ CloseOne(k) \/ Closed(k)
      PROVE  StaleInv'
  <2>1. UNCHANGED call /\ closer[k].place # "halfway"
        /\ \A j \in Closers \ {k} : closer'[j] = closer[j]
    BY <1>0, <1>9 DEF ClosePinned, Unpin, Take, CloseOne, Closed
  <2>2. Halfway => Halfway'
    BY <2>1 DEF Halfway
  <2>3. CASE ClosePinned(k)
    <3>1. closer'[k].place = "pin"
      BY <1>0, <2>3 DEF ClosePinned, CloserType
    <3> QED BY <2>1, <2>2, <3>1 DEF StaleInv
  <2>4. CASE Unpin(k)
    <3>1. pinned' # Pin
      BY <2>4 DEF Unpin, Clients
    <3>2. UNCHANGED call
      BY <2>1
    <3> QED BY <2>2, <3>1, <3>2 DEF StaleInv
  <2>5. CASE Take(k) \/ CloseOne(k) \/ Closed(k)
    <3>1. /\ UNCHANGED pinned /\ closer[k].place # "pin"
          /\ Pin \in shut' => Pin \in shut
      <4>1. closer[k].todo \subseteq AsyncCalls
        BY DEF ClientsInv, CloserInv
      <4> QED BY <2>5, <4>1 DEF Take, CloseOne, Closed, Calls
    <3> QED BY <2>1, <2>2, <3>1 DEF StaleInv
  <2> QED BY <1>9, <2>3, <2>4, <2>5
<1>10. CASE UNCHANGED vars
  BY <1>10, StaleCall DEF vars
<1> QED BY <1>2, <1>3, <1>4, <1>5, <1>6, <1>7, <1>8, <1>9, <1>10 DEF Next, CallStep, CloserStep

(* client.py 795: a call is not lost to a closed client, unless somebody   *)
(* closes the clients beside it, a closed bridge is called synchronously,  *)
(* or an aclose was cancelled while it closed the pinned client.           *)
THEOREM Served == Spec => []ServedUnlessClosed
<1>1. Init => StaleInv
  <2> SUFFICES ASSUME Init PROVE StaleInv
    OBVIOUS
  <2>1. shut = {} /\ \A c \in Calls : ~call[c].stale
    BY DEF Init
  <2> QED BY <2>1 DEF StaleInv, Calls
<1>2. ClientsInv /\ StaleInv => ServedUnlessClosed
  BY DEF ClientsInv, ServedInv, StaleInv, Halfway, ServedUnlessClosed, Calls
<1> QED BY <1>1, <1>2, StaleStep, ClientsInvariant, PTL DEF Spec

(* client.py 3716: aclose can still find every asynchronous client that    *)
(* may have a connection.                                                  *)
THEOREM AllFound == Spec => []NoneForgotten
  BY ClientsInvariant, PTL DEF ClientsInv, KeptInv

(* client.py 831: closed loops leave the table at the next lookup and do   *)
(* not come back.                                                          *)
THEOREM ClosedLoopsLeave == Spec => NothingAccumulates
<1> DEFINE A == \A l \in Loops :
                  /\ loop[l] = "closed" /\ table[l] # None /\ table' # table => table'[l] = None
                  /\ loop[l] = "closed" /\ table[l] = None => table'[l] = None
<1>1. [Next]_vars => [A]_vars
  <2> SUFFICES ASSUME Next PROVE A
    BY DEF vars
  <2>1. CASE \E c \in AsyncCalls, l \in Loops : GetAsync(c, l)
    <3>1. PICK c \in AsyncCalls, l \in Loops : GetAsync(c, l)
      BY <2>1
    <3>2. \A m \in Loops : loop[m] = "closed" => table'[m] = None
      BY <3>1 DEF GetAsync, Runs, Swept
    <3> QED BY <3>2
  <2>2. CASE \E k \in Closers : Take(k)
    BY <2>2 DEF Take
  <2>3. CASE ~(\E c \in AsyncCalls, l \in Loops : GetAsync(c, l)) /\ ~(\E k \in Closers : Take(k))
    <3>1. table' = table
      BY <2>3 DEF Next, Open, CloseLoop, GetPinned, LookSync, MakeSync, ReturnSync, Blank, CallStep,
                  SendOnClosed, Send, Ends, Hear, Break, CloserStep, ClosePinned, Unpin,
                  CloseOne, Closed, Aclose, BridgeClose, Connections
    <3> QED BY <3>1
  <2> QED BY <2>1, <2>2, <2>3
<1> QED BY <1>1, PTL DEF Spec, NothingAccumulates

=============================================================================
