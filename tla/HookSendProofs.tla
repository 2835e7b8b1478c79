---------------------------- MODULE HookSendProofs ----------------------------
(***************************************************************************)
(* For any hooks, spaces, settings and changes: a payload is stored once   *)
(* at most, and in an own space while nothing has changed since they were  *)
(* listed.                                                                 *)
(***************************************************************************)
EXTENDS HookSendProps, TLAPS

Unsent == {"none", "read", "unlink", "target", "save", "fill", "select", "posted"}

Early == Unsent \ {"posted"}

(* But for the copy that a mistaken child does not know of, nothing is     *)
(* stored before it leaves its request behind, and then there is either a  *)
(* copy or a request that may become one.  It is mistaken once at most,    *)
(* since what it sends then names a space.                                 *)
CopyInv ==
  /\ \A j \in Hooks :
       /\ hook[j] \in {"idle", "writing", "spawning"} => At(j, "none")
       /\ work[j].place \in Unsent => Copies(j) = 0 /\ ~late[j]
       /\ Copies(j) = 0 \/ (Copies(j) = 1 /\ ~late[j])
       /\ work[j].misled => work[j].place \notin Early /\ ~work[j].request.route

(* A push is placed by Anona only if the settings say so, and only MCP     *)
(* makes a mistake of it.                                                  *)
RouteInv ==
  \A j \in Hooks :
    /\ j \in Pushes /\ work[j].request.route => setup.mode = "auto"
    /\ work[j].misled => j \in Pushes /\ setup.via = "mcp" /\ setup.mode = "auto"

(* An entry of a list that has not become wrong since it was made: it is   *)
(* addressed in a way that reaches the own space alone.                    *)
Own(s) == s.name \in view.own /\ (s.name \in view.shared => s.qualified)

ListInv ==
  /\ \A t \in Transports : cache[t].sound => \A s \in cache[t].list : Own(s)
  /\ \A j \in Hooks : work[j].sound => \A s \in work[j].list : Own(s)

(* Where the settings let a push be stored.                                *)
Places == {"own"} \cup IF setup.mode = "auto" THEN {"routed"} ELSE {}

(* The request of a push that was given no space, its list not having      *)
(* become wrong.                                                           *)
OwnRequest(j) ==
  j \in Pushes /\ setup.pinned = None /\ work[j].sound =>
    /\ work[j].request.space # None => Own(work[j].request.space)
    /\ At(j, "posted") \/ late[j] => work[j].request.space # None
    /\ \A i \in 1..Len(stored[j]) : stored[j][i] \in Places

SpaceInv ==
  \A j \in Hooks :
    /\ work[j].place \in Early => work[j].request.space = None
    /\ OwnRequest(j)

(* Only a recall's own process can be killed at its work.                  *)
WorkingInv == \A j \in Hooks : hook[j] = "working" => j \in Recalls

HookInv == TypeOK /\ CopyInv /\ RouteInv /\ ListInv /\ SpaceInv /\ WorkingInv

-----------------------------------------------------------------------------
(* The operators.                                                          *)

LEMMA ListingOwn ==
  ASSUME view \in Views
  PROVE  Listing \in SUBSET Selectors /\ \A s \in Listing : Own(s)
  BY DEF Listing, Entries, Selectors, Own, Views

LEMMA MatchesAmong ==
  ASSUME NEW list
  PROVE  Matches(list) \subseteq list
  BY DEF Matches

(* What target answers is a request; for a write without a pinned space it *)
(* names an entry of the list, also as the fallback.                       *)
LEMMA TargetTyped ==
  ASSUME NEW list \in SUBSET Selectors, NEW read \in BOOLEAN, setup \in Settings,
         NEW r \in Target(list, read)
  PROVE  /\ r \in Requests
         /\ ~read /\ setup.pinned = None => r.space \in list /\ r.space # None
         /\ ~read /\ r.route => setup.mode = "auto"
<1> USE HookSendAssumption
<1>1. CASE setup.pinned # None
  <2>1. r = [route |-> FALSE, space |-> Bare(setup.pinned)]
    BY <1>1 DEF Target
  <2>2. Bare(setup.pinned) \in Selectors
    BY <1>1 DEF Bare, Selectors, Settings
  <2> QED BY <1>1, <2>1, <2>2 DEF Requests
<1>2. CASE setup.pinned = None
  <2> DEFINE auto == setup.mode = "auto"
             routes == auto \/ (read /\ setup.mode # "off" /\ Cardinality(list) > 1)
             spaces == IF list # {} THEN Matches(list)
                       ELSE IF read THEN {IF routes THEN None ELSE Bare(Home)} ELSE {}
  <2>1. PICK s \in spaces : r = [route |-> routes, space |-> s]
    BY <1>2 DEF Target
  <2>2. Matches(list) \subseteq Selectors /\ Bare(Home) \in Selectors
    BY MatchesAmong DEF Bare, Selectors
  <2>3. s \in Selectors \cup {None}
    <3>1. CASE list # {}
      BY <2>2, <3>1
    <3>2. CASE list = {}
      BY <2>2, <3>2
    <3> QED BY <3>1, <3>2
  <2>4. ~read => s \in list /\ s # None
    BY MatchesAmong, None \notin Selectors
  <2>5. routes \in BOOLEAN /\ (~read /\ routes => setup.mode = "auto")
    OBVIOUS
  <2> HIDE DEF routes, spaces
  <2>6. r.space = s /\ r.route = routes /\ r \in [route : BOOLEAN, space : Selectors \cup {None}]
    BY <2>1, <2>3, <2>5
  <2> QED BY <1>2, <2>4, <2>5, <2>6 DEF Requests
<1> QED BY <1>1, <1>2

LEMMA ReachTyped ==
  ASSUME NEW r
  PROVE  Reach(r) \subseteq {"own", "shared", "new", "routed"}
  BY DEF Reach

LEMMA ReachOwn ==
  ASSUME NEW r \in Requests, r.space # None, Own(r.space)
  PROVE  Reach(r) \subseteq {"own"} \cup IF r.route THEN {"routed"} ELSE {}
  BY DEF Reach, Own, Requests, Selectors

-----------------------------------------------------------------------------
LEMMA HookInit == Init => HookInv
<1> SUFFICES ASSUME Init PROVE HookInv
  OBVIOUS
<1> USE HookSendAssumption DEF Init, Idle, NoList, At
<1>1. TypeOK
  <2>1. view \in Views /\ setup \in Settings /\ changes \in 0..MaxChanges
    OBVIOUS
  <2>2. stored \in [Hooks -> Seq({"own", "shared", "new", "routed"})]
    OBVIOUS
  <2>3. cache \in [Transports -> Caches]
    BY DEF Caches
  <2>4. work \in [Hooks -> Work]
    BY DEF Work, WorkPlaces, Requests
  <2> QED BY <2>1, <2>2, <2>3, <2>4 DEF TypeOK
<1>2. CopyInv
  BY DEF CopyInv, Copies, Early
<1>3. RouteInv /\ ListInv /\ SpaceInv /\ WorkingInv
  BY DEF RouteInv, ListInv, SpaceInv, OwnRequest, WorkingInv, Hooks
<1> QED BY <1>1, <1>2, <1>3 DEF HookInv

-----------------------------------------------------------------------------
(* One worker changes, the others do not.                                  *)
LEMMA Changed ==
  ASSUME work \in [Hooks -> Work], NEW j \in Hooks, NEW w \in Work,
         work' = [work EXCEPT ![j] = w]
  PROVE  /\ work' \in [Hooks -> Work] /\ work'[j] = w
         /\ \A k \in Hooks : k # j => work'[k] = work[k]
  OBVIOUS

LEMMA Moved ==
  ASSUME work \in [Hooks -> Work], NEW j \in Hooks, NEW p \in WorkPlaces,
         Goto(j, p) \/ Trouble(j, p)
  PROVE  /\ work' \in [Hooks -> Work]
         /\ work'[j].place = p /\ work'[j].list = work[j].list
         /\ work'[j].sound = work[j].sound /\ work'[j].request = work[j].request
         /\ work'[j].misled = work[j].misled
         /\ \A k \in Hooks : k # j => work'[k] = work[k]
<1>1. PICK b \in BOOLEAN :
        work' = [work EXCEPT ![j] = [work[j] EXCEPT !.place = p, !.trouble = b]]
  <2>1. CASE Goto(j, p)
    <3>1. [work[j] EXCEPT !.place = p] = [work[j] EXCEPT !.place = p, !.trouble = work[j].trouble]
      BY DEF Work
    <3> QED BY <2>1, <3>1 DEF Goto, Work
  <2>2. CASE Trouble(j, p)
    BY <2>2 DEF Trouble
  <2> QED BY <2>1, <2>2
<1>2. [work[j] EXCEPT !.place = p, !.trouble = b] \in Work
  BY DEF Work
<1>3. /\ work' \in [Hooks -> Work]
      /\ work'[j] = [work[j] EXCEPT !.place = p, !.trouble = b]
      /\ \A k \in Hooks : k # j => work'[k] = work[k]
  BY <1>1, <1>2, Changed
<1> QED BY <1>3 DEF Work

(* What a step does to the workers that it moves without more.             *)
Moves(j) ==
  \/ Recall(j) \/ Spawn(j) \/ ReadPayload(j) \/ ReadFails(j) \/ Unlink(j) \/ UnlinkFails(j) \/ Pinned(j)
  \/ Truncate(j) \/ Fill(j) \/ SaveFails(j) \/ Record(j) \/ Refuse(j) \/ Lose(j) \/ GiveUp(j)
  \/ Recalled(j) \/ Cleanup(j)

LEMMA MovesTo ==
  ASSUME NEW j \in Hooks, Moves(j)
  PROVE  \E p \in WorkPlaces : Goto(j, p) \/ Trouble(j, p)
<1> USE DEF WorkPlaces
<1>1. CASE Recall(j) \/ Spawn(j) \/ ReadPayload(j) \/ ReadFails(j)
  BY <1>1, Zenon DEF Recall, Spawn, ReadPayload, ReadFails, Goto
<1>4. CASE Unlink(j) \/ UnlinkFails(j)
  BY <1>4, Zenon DEF Unlink, UnlinkFails, Goto
<1>2. CASE Pinned(j) \/ Truncate(j) \/ Fill(j) \/ SaveFails(j) \/ Cleanup(j)
  BY <1>2 DEF Pinned, Truncate, Fill, SaveFails, Cleanup
<1>3. CASE Record(j) \/ Refuse(j) \/ Lose(j) \/ GiveUp(j) \/ Recalled(j)
  BY <1>3 DEF Record, Refuse, Lose, GiveUp, Recalled
<1> QED BY <1>1, <1>2, <1>3, <1>4 DEF Moves

(* The steps that change more of a worker than its place.                  *)
LEMMA ChangesTyped ==
  ASSUME TypeOK, NEW j \in Hooks,
         TakeCached(j) \/ AskForList(j) \/ Select(j) \/ RefuseToRoute(j) \/ MistakeForRefusal(j)
             \/ KillRecall(j) \/ KillChild(j)
  PROVE  /\ \E w \in Work : work' = [work EXCEPT ![j] = w]
         /\ work' \in [Hooks -> Work]
<1> SUFFICES \E w \in Work : work' = [work EXCEPT ![j] = w]
  BY Changed DEF TypeOK
<1> USE HookSendAssumption
<1>0. work[j] \in Work
  BY DEF TypeOK
<1>1. CASE TakeCached(j)
  <2>1. PICK list \in SUBSET Selectors, sound \in BOOLEAN :
          work' = [work EXCEPT ![j].place = "select", ![j].list = list, ![j].sound = sound]
    BY <1>1 DEF TakeCached, TypeOK, Settings, Caches
  <2>2. [work[j] EXCEPT !.place = "select", !.list = list, !.sound = sound] \in Work
    BY <1>0 DEF Work, WorkPlaces
  <2> QED BY <2>1, <2>2
<1>2. CASE AskForList(j)
  <2>1. CASE Trouble(j, "select")
    <3>1. [work[j] EXCEPT !.place = "select", !.trouble = TRUE] \in Work
      BY <1>0 DEF Work, WorkPlaces
    <3> QED BY <2>1, <3>1 DEF Trouble
  <2>2. CASE ~Trouble(j, "select")
    <3>1. [work[j] EXCEPT !.place = "save", !.list = Listing, !.sound = TRUE] \in Work
      BY <1>0, ListingOwn DEF TypeOK, Work, WorkPlaces
    <3> QED BY <1>2, <2>2, <3>1 DEF AskForList
  <2> QED BY <2>1, <2>2
<1>3. CASE Select(j)
  <2>1. CASE Goto(j, "cleanup")
    <3>1. [work[j] EXCEPT !.place = "cleanup"] \in Work
      BY <1>0 DEF Work, WorkPlaces
    <3> QED BY <2>1, <3>1 DEF Goto
  <2>2. CASE ~Goto(j, "cleanup")
    <3>1. PICK r \in Target(work[j].list, j \in Recalls) :
            work' = [work EXCEPT ![j].place = "posted", ![j].request = r, ![j].list = {}]
      BY <1>3, <2>2 DEF Select
    <3>2. work[j].list \in SUBSET Selectors /\ (j \in Recalls) \in BOOLEAN /\ setup \in Settings
      BY <1>0 DEF Work, TypeOK
    <3>3. r \in Requests
      BY <3>1, <3>2, TargetTyped
    <3>4. [work[j] EXCEPT !.place = "posted", !.request = r, !.list = {}] \in Work
      BY <1>0, <3>3 DEF Work, WorkPlaces
    <3> QED BY <3>1, <3>4
  <2> QED BY <2>1, <2>2
<1>4. CASE RefuseToRoute(j)
  <2>1. [work[j] EXCEPT !.request = Fallback(j)] \in Work
    BY <1>0 DEF Fallback, Requests, Work
  <2> QED BY <1>4, <2>1 DEF RefuseToRoute
<1>7. CASE MistakeForRefusal(j)
  <2>1. [work[j] EXCEPT !.request = Fallback(j), !.misled = TRUE] \in Work
    BY <1>0 DEF Fallback, Requests, Work
  <2> QED BY <1>7, <2>1 DEF MistakeForRefusal
<1>5. CASE KillRecall(j)
  <2>1. [Idle EXCEPT !.place = "killed"] \in Work
    BY DEF Idle, Work, WorkPlaces, Requests
  <2> QED BY <1>5, <2>1 DEF KillRecall
<1>6. CASE KillChild(j)
  <2>1. [work[j] EXCEPT !.place = "killed", !.list = {}, !.trouble = TRUE] \in Work
    BY <1>0 DEF Work, WorkPlaces
  <2> QED BY <1>6, <2>1 DEF KillChild
<1> QED BY <1>1, <1>2, <1>3, <1>4, <1>5, <1>6, <1>7

LEMMA StoresTyped ==
  ASSUME TypeOK, NEW j \in Hooks, Stores(j) \/ UNCHANGED stored
  PROVE  /\ stored' \in [Hooks -> Seq({"own", "shared", "new", "routed"})]
         /\ \A k \in Hooks : k # j => stored'[k] = stored[k]
         /\ Stores(j) => \E place \in Reach(work[j].request) : stored'[j] = Append(stored[j], place)
<1>1. CASE Stores(j)
  <2>1. PICK place \in Reach(work[j].request) : stored' = [stored EXCEPT ![j] = Append(@, place)]
    BY <1>1 DEF Stores
  <2>2. place \in {"own", "shared", "new", "routed"}
    BY ReachTyped
  <2>3. Append(stored[j], place) \in Seq({"own", "shared", "new", "routed"})
    BY <2>2 DEF TypeOK
  <2> QED BY <2>1, <2>3 DEF TypeOK
<1>2. CASE UNCHANGED stored /\ ~Stores(j)
  BY <1>2 DEF TypeOK
<1> QED BY <1>1, <1>2

LEMMA TypeStep ==
  ASSUME TypeOK, [Next]_vars
  PROVE  TypeOK'
<1> USE HookSendAssumption DEF TypeOK, world, server
<1>1. ASSUME NEW j \in Hooks,
             HasNothingToDo(j) \/ MakeFile(j) \/ WriteFile(j) \/ PushStops(j) \/ RecallEnds(j)
      PROVE  TypeOK'
  BY <1>1 DEF HasNothingToDo, MakeFile, WriteFile, PushStops, RecallEnds
<1>2. ASSUME NEW j \in Hooks, Moves(j)
      PROVE  TypeOK'
  <2>1. work' \in [Hooks -> Work]
    BY <1>2, MovesTo, Moved
  <2>2. CASE Recall(j) \/ Spawn(j) \/ ReadPayload(j) \/ ReadFails(j) \/ Unlink(j) \/ UnlinkFails(j) \/ Pinned(j)
    BY <2>1, <2>2 DEF Recall, Spawn, ReadPayload, ReadFails, Unlink, UnlinkFails, Pinned
  <2>3. CASE SaveFails(j) \/ Refuse(j) \/ Recalled(j) \/ Cleanup(j)
    BY <2>1, <2>3 DEF SaveFails, Refuse, Recalled, Cleanup
  <2>4. CASE Truncate(j) \/ Fill(j)
    <3>1. NoList \in Caches
      BY DEF NoList, Caches
    <3>2. [usable |-> TRUE, list |-> work[j].list, sound |-> work[j].sound] \in Caches
      BY DEF Work, Caches
    <3>3. cache' \in [Transports -> Caches]
      <4>1. PICK c \in Caches : cache' = [cache EXCEPT ![setup.via] = c]
        BY <2>4, <3>1, <3>2 DEF Truncate, Fill
      <4> QED BY <4>1
    <3> QED BY <2>1, <2>4, <3>3 DEF Truncate, Fill
  <2>5. CASE Record(j) \/ Lose(j) \/ GiveUp(j)
    <3>1. stored' \in [Hooks -> Seq({"own", "shared", "new", "routed"})]
      BY <2>5, StoresTyped DEF Record, Lose, GiveUp
    <3> QED BY <2>1, <2>5, <3>1 DEF Record, Lose, GiveUp
  <2> QED BY <1>2, <2>2, <2>3, <2>4, <2>5 DEF Moves
<1>3. ASSUME NEW j \in Hooks,
             TakeCached(j) \/ AskForList(j) \/ Select(j) \/ RefuseToRoute(j) \/ MistakeForRefusal(j)
             \/ KillRecall(j) \/ KillChild(j)
      PROVE  TypeOK'
  <2>1. work' \in [Hooks -> Work]
    BY <1>3, ChangesTyped
  <2>2. MistakeForRefusal(j) => stored' \in [Hooks -> Seq({"own", "shared", "new", "routed"})]
    BY StoresTyped DEF MistakeForRefusal
  <2> QED BY <1>3, <2>2, <2>1 DEF TakeCached, AskForList, Select, RefuseToRoute, MistakeForRefusal, KillRecall, KillChild
<1>4. ASSUME NEW j \in Hooks, StoreLate(j)
      PROVE  TypeOK'
  BY <1>4, StoresTyped DEF StoreLate
<1>5. CASE ViewChanges
  <2>1. work' \in [Hooks -> Work]
    BY <1>5 DEF ViewChanges, Work
  <2>2. cache' \in [Transports -> Caches]
    BY <1>5 DEF ViewChanges, Caches
  <2> QED BY <1>5, <2>1, <2>2 DEF ViewChanges
<1>6. ASSUME NEW t \in Transports, CacheAges(t)
      PROVE  TypeOK'
  BY <1>6 DEF CacheAges, NoList, Caches
<1>7. CASE UNCHANGED vars
  BY <1>7 DEF vars
<1> QED
  BY <1>1, <1>2, <1>3, <1>4, <1>5, <1>6, <1>7 DEF Next, HookStep, WorkStep, Moves

-----------------------------------------------------------------------------
(* Everybody but j is left alone.                                          *)
Alone(j) == \A k \in Hooks : k # j => work'[k] = work[k]

LEMMA Others ==
  ASSUME TypeOK, NEW j \in Hooks,
         \/ Moves(j)
         \/ TakeCached(j) \/ AskForList(j) \/ Select(j) \/ RefuseToRoute(j) \/ MistakeForRefusal(j)
             \/ KillRecall(j) \/ KillChild(j)
  PROVE  Alone(j)
<1>1. CASE Moves(j)
  BY <1>1, MovesTo, Moved DEF TypeOK, Alone
<1>2. CASE ~Moves(j)
  BY <1>2, ChangesTyped, Changed DEF TypeOK, Alone
<1> QED BY <1>1, <1>2

(* Only a mistaken child, or a recall that is killed, changes its mind     *)
(* about what it has been told.                                            *)
LEMMA KeepsMisled ==
  ASSUME TypeOK, NEW j \in Hooks,
         \/ Moves(j)
         \/ TakeCached(j) \/ AskForList(j) \/ Select(j) \/ RefuseToRoute(j) \/ KillChild(j)
  PROVE  work'[j].misled = work[j].misled
<1>0. work[j] \in Work /\ work \in [Hooks -> Work]
  BY DEF TypeOK
<1>1. CASE Moves(j)
  BY <1>0, <1>1, MovesTo, Moved
<1>2. CASE TakeCached(j) \/ AskForList(j)
  BY <1>0, <1>2 DEF TakeCached, AskForList, Trouble, Work
<1>3. CASE Select(j)
  <2>1. CASE Goto(j, "cleanup")
    BY <1>0, <2>1 DEF Goto, Work
  <2>2. CASE ~Goto(j, "cleanup")
    <3>1. PICK r \in Target(work[j].list, j \in Recalls) :
            work' = [work EXCEPT ![j].place = "posted", ![j].request = r, ![j].list = {}]
      BY <1>3, <2>2 DEF Select
    <3> QED BY <1>0, <3>1 DEF Work
  <2> QED BY <2>1, <2>2
<1>4. CASE RefuseToRoute(j) \/ KillChild(j)
  BY <1>0, <1>4 DEF RefuseToRoute, KillChild, Work
<1> QED BY <1>1, <1>2, <1>3, <1>4

(* How the copies follow from what is stored.                              *)
LEMMA CopiesKept ==
  ASSUME NEW j \in Hooks, work'[j].misled = work[j].misled, stored'[j] = stored[j]
  PROVE  Copies(j)' = Copies(j)
  BY DEF Copies

LEMMA CopiesCount ==
  ASSUME TypeOK, NEW j \in Hooks
  PROVE  /\ Copies(j) \in Int
         /\ ~work[j].misled => Copies(j) = Len(stored[j])
         /\ work[j].misled => Copies(j) = Len(stored[j]) - 1
<1>1. Len(stored[j]) \in Nat
  BY DEF TypeOK
<1>2. CASE work[j].misled
  BY <1>1, <1>2 DEF Copies
<1>3. CASE ~work[j].misled
  BY <1>1, <1>3 DEF Copies
<1> QED BY <1>2, <1>3

(* Before anything is sent nothing at all has been stored.                 *)
LEMMA NoneStored ==
  ASSUME TypeOK, CopyInv, NEW j \in Hooks, work[j].place \in Early
  PROVE  stored[j] = <<>> /\ ~late[j] /\ ~work[j].misled
<1>1. Copies(j) = 0 /\ ~late[j] /\ ~work[j].misled
  BY DEF CopyInv, Early
<1>2. Len(stored[j]) = 0
  BY <1>1, CopiesCount
<1> QED BY <1>1, <1>2 DEF TypeOK

LEMMA OneMore ==
  ASSUME TypeOK, NEW j \in Hooks, Stores(j)
  PROVE  /\ \A k \in Hooks : k # j => stored'[k] = stored[k]
         /\ \E place \in Reach(work[j].request) : stored'[j] = Append(stored[j], place)
         /\ work'[j].misled = work[j].misled => Copies(j)' = Copies(j) + 1
         /\ ~work[j].misled /\ work'[j].misled => Copies(j)' = Copies(j)
<1>1. PICK place \in Reach(work[j].request) : stored'[j] = Append(stored[j], place)
  BY StoresTyped
<1>2. Len(stored'[j]) = Len(stored[j]) + 1 /\ Len(stored[j]) \in Nat
  BY <1>1 DEF TypeOK
<1>3. ASSUME work'[j].misled = work[j].misled
      PROVE  Copies(j)' = Copies(j) + 1
  <2>1. CASE work[j].misled
    BY <1>2, <1>3, <2>1 DEF Copies
  <2>2. CASE ~work[j].misled
    BY <1>2, <1>3, <2>2 DEF Copies
  <2> QED BY <2>1, <2>2
<1>4. ASSUME ~work[j].misled, work'[j].misled
      PROVE  Copies(j)' = Copies(j)
  BY <1>2, <1>4 DEF Copies
<1> QED BY <1>1, <1>3, <1>4, StoresTyped

(* A request with an own space is stored where it should be.               *)
LEMMA StoredOwn ==
  ASSUME TypeOK, RouteInv, SpaceInv, NEW j \in Pushes, Stores(j),
         setup.pinned = None, work[j].sound, At(j, "posted") \/ late[j]
  PROVE  \A i \in 1..Len(stored'[j]) : stored'[j][i] \in Places
<1>0. j \in Hooks
  BY DEF Hooks
<1>1. PICK place \in Reach(work[j].request) : stored'[j] = Append(stored[j], place)
  BY <1>0, OneMore
<1>2. work[j].request \in Requests /\ work[j].request.space # None /\ Own(work[j].request.space)
      /\ \A i \in 1..Len(stored[j]) : stored[j][i] \in Places
  BY <1>0 DEF TypeOK, Work, SpaceInv, OwnRequest
<1>3. place \in Places
  <2>1. place \in {"own"} \cup IF work[j].request.route THEN {"routed"} ELSE {}
    BY <1>2, ReachOwn
  <2>2. work[j].request.route => setup.mode = "auto"
    BY <1>0 DEF RouteInv
  <2> QED BY <2>1, <2>2 DEF Places
<1>4. stored[j] \in Seq({"own", "shared", "new", "routed"}) /\ place \in {"own", "shared", "new", "routed"}
  BY <1>0, <1>1, ReachTyped DEF TypeOK
<1> QED BY <1>1, <1>2, <1>3, <1>4

(* What a step of one hook has to show for the copies.                     *)
LEMMA OneCopied ==
  ASSUME CopyInv, NEW j \in Hooks, Alone(j),
         \A k \in Hooks : k # j =>
           hook'[k] = hook[k] /\ stored'[k] = stored[k] /\ late'[k] = late[k],
         hook'[j] \in {"idle", "writing", "spawning"} => At(j, "none")',
         work'[j].place \in Unsent => Copies(j)' = 0 /\ ~late'[j],
         Copies(j)' = 0 \/ (Copies(j)' = 1 /\ ~late'[j]),
         work'[j].misled => work'[j].place \notin Early /\ ~work'[j].request.route
  PROVE  CopyInv'
<1>1. ASSUME NEW k \in Hooks, k # j
      PROVE  work'[k] = work[k] /\ Copies(k)' = Copies(k)
  BY <1>1, CopiesKept DEF Alone
<1> QED BY <1>1 DEF CopyInv, At

LEMMA CopyStep ==
  ASSUME TypeOK, CopyInv, RouteInv, WorkingInv, [Next]_vars
  PROVE  CopyInv'
<1> USE DEF At, world, server
<1>0. work \in [Hooks -> Work]
  BY DEF TypeOK
<1>1. ASSUME NEW j \in Hooks,
             HasNothingToDo(j) \/ MakeFile(j) \/ WriteFile(j) \/ PushStops(j) \/ RecallEnds(j)
      PROVE  CopyInv'
  <2>1. UNCHANGED <<work, stored, late>>
    BY <1>1 DEF HasNothingToDo, MakeFile, WriteFile, PushStops, RecallEnds
  <2>2. \A k \in Hooks : hook'[k] \in {"idle", "writing", "spawning"} =>
          hook[k] \in {"idle", "writing", "spawning"}
    BY <1>1 DEF TypeOK, HasNothingToDo, MakeFile, WriteFile, PushStops, RecallEnds
  <2> QED BY <2>1, <2>2 DEF CopyInv, Copies
<1>2. ASSUME NEW j \in Hooks, Recall(j) \/ Spawn(j)
      PROVE  CopyInv'
  <2>1. Alone(j) /\ work'[j].misled = work[j].misled
    BY <1>2, Others, KeepsMisled DEF Moves
  <2>2. UNCHANGED <<stored, late>> /\ hook'[j] \in {"working", "ended"}
        /\ (\A k \in Hooks : k # j => hook'[k] = hook[k])
        /\ hook[j] \in {"idle", "spawning"}
    BY <1>2 DEF TypeOK, Recall, Spawn
  <2>3. Copies(j)' = 0 /\ ~late[j] /\ ~work[j].misled
    BY <2>1, <2>2, CopiesKept DEF CopyInv, Unsent, Early
  <2> QED BY <2>1, <2>2, <2>3, OneCopied
<1>3. ASSUME NEW j \in Hooks,
             \/ ReadPayload(j) \/ ReadFails(j) \/ Unlink(j) \/ UnlinkFails(j) \/ Pinned(j)
             \/ Truncate(j) \/ Fill(j) \/ SaveFails(j)
             \/ TakeCached(j) \/ AskForList(j) \/ Select(j)
      PROVE  CopyInv'
  <2>1. Alone(j) /\ work'[j].misled = work[j].misled
    BY <1>3, Others, KeepsMisled DEF Moves
  <2>2. UNCHANGED <<stored, late, hook>> /\ work[j].place \in Early \ {"none"}
    <3>1. CASE ReadPayload(j) \/ ReadFails(j) \/ Unlink(j) \/ UnlinkFails(j) \/ Pinned(j)
      BY <3>1 DEF ReadPayload, ReadFails, Unlink, UnlinkFails, Pinned, Unsent, Early
    <3>2. CASE Truncate(j) \/ Fill(j) \/ SaveFails(j)
      BY <3>2 DEF Truncate, Fill, SaveFails, Unsent, Early
    <3>3. CASE TakeCached(j) \/ AskForList(j) \/ Select(j)
      BY <3>3 DEF TakeCached, AskForList, Select, Unsent, Early
    <3> QED BY <1>3, <3>1, <3>2, <3>3
  <2>3. Copies(j)' = 0 /\ ~late[j] /\ ~work[j].misled
    BY <2>1, <2>2, CopiesKept DEF CopyInv, Early
  <2>4. hook[j] \notin {"idle", "writing", "spawning"}
    BY <2>2 DEF CopyInv
  <2> QED BY <2>1, <2>2, <2>3, <2>4, OneCopied
<1>4. ASSUME NEW j \in Hooks, Refuse(j) \/ Recalled(j) \/ RefuseToRoute(j) \/ MistakeForRefusal(j)
      PROVE  CopyInv'
  <2>1. Alone(j) /\ work[j].place = "posted" /\ UNCHANGED <<hook, late>>
    BY <1>4, Others DEF Moves, Refuse, Recalled, RefuseToRoute, MistakeForRefusal, Posted
  <2>2. Copies(j) = 0 /\ ~late[j] /\ hook[j] \notin {"idle", "writing", "spawning"}
    BY <2>1 DEF CopyInv, Unsent
  <2>3. /\ work'[j].place \notin Early
        /\ work'[j].misled => ~work'[j].request.route
    <3>1. CASE Refuse(j) \/ Recalled(j)
      <4>1. Goto(j, "cleanup") \/ Trouble(j, "cleanup")
        BY <3>1 DEF Refuse, Recalled
      <4>2. /\ work'[j].place = "cleanup" /\ work'[j].misled = work[j].misled
            /\ work'[j].request = work[j].request
        BY <1>0, <4>1, Moved DEF WorkPlaces
      <4> QED BY <4>2 DEF CopyInv, Early, Unsent
    <3>2. CASE RefuseToRoute(j) \/ MistakeForRefusal(j)
      BY <1>0, <2>1, <3>2 DEF RefuseToRoute, MistakeForRefusal, Fallback, Work, Early, Unsent
    <3> QED BY <1>4, <3>1, <3>2
  <2>4. Copies(j)' = 0 /\ \A k \in Hooks : k # j => stored'[k] = stored[k]
    <3>1. CASE Refuse(j) \/ Recalled(j) \/ RefuseToRoute(j)
      <4>1. work'[j].misled = work[j].misled /\ UNCHANGED stored
        BY <3>1, KeepsMisled DEF Moves, Refuse, Recalled, RefuseToRoute
      <4> QED BY <2>2, <4>1, CopiesKept
    <3>2. CASE MistakeForRefusal(j)
      <4>1. ~work[j].misled /\ Stores(j)
        BY <3>2 DEF MistakeForRefusal, CopyInv
      <4>2. work'[j].misled
        BY <1>0, <3>2 DEF MistakeForRefusal, Work
      <4> QED BY <2>2, <4>1, <4>2, OneMore
    <3> QED BY <1>4, <3>1, <3>2
  <2> QED BY <2>1, <2>2, <2>3, <2>4, OneCopied
<1>5. ASSUME NEW j \in Hooks, Cleanup(j) \/ Record(j) \/ Lose(j) \/ GiveUp(j)
      PROVE  CopyInv'
  <2>1. Alone(j) /\ UNCHANGED hook /\ work[j].place \in {"posted", "cleanup"}
    BY <1>5, Others DEF Moves, Cleanup, Record, Lose, GiveUp, Posted
  <2>2. /\ work'[j].place \in {"cleanup", "done"} /\ work'[j].misled = work[j].misled
        /\ work'[j].request = work[j].request
    <3>1. \E p \in {"cleanup", "done"} : Goto(j, p) \/ Trouble(j, p)
      BY <1>5 DEF Cleanup, Record, Lose, GiveUp
    <3> QED BY <1>0, <3>1, Moved DEF WorkPlaces
  <2>3. /\ \A k \in Hooks : k # j => stored'[k] = stored[k] /\ late'[k] = late[k]
        /\ Copies(j)' = 0 \/ (Copies(j)' = 1 /\ ~late'[j])
    <3>1. CASE Cleanup(j)
      <4>1. UNCHANGED <<stored, late>>
        BY <3>1 DEF Cleanup
      <4> QED BY <2>2, <4>1, CopiesKept DEF CopyInv
    <3>2. CASE GiveUp(j)
      <4>1. Copies(j) = 0
        BY <3>2 DEF GiveUp, Posted, CopyInv, Unsent
      <4>2. UNCHANGED stored /\ \A k \in Hooks : k # j => late'[k] = late[k]
        BY <3>2 DEF GiveUp, TypeOK
      <4> QED BY <2>2, <4>1, <4>2, CopiesKept
    <3>3. CASE Record(j) \/ Lose(j)
      <4>1. UNCHANGED late /\ Copies(j) = 0 /\ ~late[j]
        BY <3>3 DEF Record, Lose, Posted, CopyInv, Unsent
      <4>2. CASE Stores(j)
        BY <2>2, <4>1, <4>2, OneMore
      <4>3. CASE ~Stores(j)
        BY <2>2, <3>3, <4>1, <4>3, CopiesKept DEF Record, Lose
      <4> QED BY <4>2, <4>3
    <3> QED BY <1>5, <3>1, <3>2, <3>3
  <2>4. hook[j] \notin {"idle", "writing", "spawning"} /\ (work[j].misled => ~work[j].request.route)
    BY <2>1 DEF CopyInv
  <2> QED BY <2>1, <2>2, <2>3, <2>4, OneCopied DEF Unsent, Early
<1>6. ASSUME NEW j \in Hooks, StoreLate(j)
      PROVE  CopyInv'
  <2>1. UNCHANGED <<hook, work>> /\ late[j] /\ Stores(j) /\ ~late'[j]
        /\ (\A k \in Hooks : k # j => late'[k] = late[k])
    BY <1>6 DEF StoreLate, TypeOK
  <2>2. Copies(j) = 0 /\ work[j].place \notin Unsent
    BY <2>1 DEF CopyInv
  <2>3. Copies(j)' = 1 /\ \A k \in Hooks : k # j => stored'[k] = stored[k]
    BY <2>1, <2>2, OneMore
  <2>4. Alone(j)
    BY <2>1 DEF Alone
  <2> QED BY <2>1, <2>2, <2>3, <2>4, OneCopied DEF CopyInv
<1>7. ASSUME NEW j \in Hooks, KillRecall(j) \/ KillChild(j)
      PROVE  CopyInv'
  <2>0. Alone(j)
    BY <1>7, Others
  <2>1. work'[j].place = "killed" /\ work'[j].misled = work[j].misled
        /\ (work'[j].misled => work'[j].request = work[j].request)
    <3>1. work[j] \in Work
      BY <1>0
    <3>2. CASE KillRecall(j)
      <4>1. ~work[j].misled
        BY <3>2, HookSendAssumption DEF KillRecall, WorkingInv, RouteInv
      <4>2. work'[j].misled = FALSE /\ work'[j].place = "killed"
        BY <1>0, <3>2 DEF KillRecall, Idle
      <4>3. work[j].misled = FALSE
        BY <3>1, <4>1 DEF Work
      <4> QED BY <4>2, <4>3
    <3>3. CASE KillChild(j)
      BY <1>0, <3>1, <3>3 DEF KillChild, Work
    <3> QED BY <1>7, <3>2, <3>3
  <2>2. UNCHANGED stored /\ (\A k \in Hooks : k # j => hook'[k] = hook[k] /\ late'[k] = late[k])
    BY <1>7 DEF KillRecall, KillChild, TypeOK
  <2>3. hook'[j] \notin {"idle", "writing", "spawning"}
        /\ (late'[j] => late[j] \/ work[j].place = "posted")
    BY <1>7 DEF KillRecall, KillChild, TypeOK, CopyInv
  <2>4. Copies(j)' = Copies(j)
    BY <2>1, <2>2, CopiesKept
  <2>5. Copies(j)' = 0 \/ (Copies(j)' = 1 /\ ~late'[j])
    BY <2>3, <2>4 DEF CopyInv, Unsent
  <2>6. work'[j].misled => ~work'[j].request.route
    BY <2>1 DEF CopyInv
  <2> QED BY <2>0, <2>1, <2>2, <2>3, <2>5, <2>6, OneCopied DEF Unsent, Early
<1>8. CASE ViewChanges
  <2>1. UNCHANGED <<hook, stored, late>> /\ \A k \in Hooks :
          /\ work'[k].place = work[k].place /\ work'[k].misled = work[k].misled
          /\ work'[k].request = work[k].request
    BY <1>0, <1>8 DEF ViewChanges, Work
  <2>2. \A k \in Hooks : Copies(k)' = Copies(k)
    BY <2>1, CopiesKept
  <2> QED BY <2>1, <2>2 DEF CopyInv
<1>9. CASE (\E t \in Transports : CacheAges(t)) \/ UNCHANGED vars
  BY <1>9 DEF CacheAges, vars, CopyInv, Copies
<1> QED
  BY <1>1, <1>2, <1>3, <1>4, <1>5, <1>6, <1>7, <1>8, <1>9 DEF Next, HookStep, WorkStep

(* Who is left to choose.                                                  *)
LEMMA RouteStep ==
  ASSUME TypeOK, RouteInv, [Next]_vars
  PROVE  RouteInv'
<1> USE DEF world, server
<1>0. work \in [Hooks -> Work]
  BY DEF TypeOK
<1>1. ASSUME NEW j \in Hooks, Alone(j), UNCHANGED setup,
             j \in Pushes /\ work'[j].request.route => setup.mode = "auto",
             work'[j].misled => work[j].misled \/
               (j \in Pushes /\ setup.via = "mcp" /\ setup.mode = "auto")
      PROVE  RouteInv'
  BY <1>1 DEF RouteInv, Alone
<1>2. ASSUME NEW j \in Hooks, Moves(j)
      PROVE  RouteInv'
  <2>1. UNCHANGED setup
    BY <1>2 DEF Moves, Recall, Spawn, ReadPayload, ReadFails, Unlink, UnlinkFails, Pinned, Truncate,
                Fill, SaveFails, Record, Refuse, Lose, GiveUp, Recalled, Cleanup
  <2>2. Alone(j) /\ work'[j].request = work[j].request /\ work'[j].misled = work[j].misled
    BY <1>0, <1>2, MovesTo, Moved, Others
  <2> QED BY <1>1, <2>1, <2>2 DEF RouteInv
<1>3. ASSUME NEW j \in Hooks,
             TakeCached(j) \/ AskForList(j) \/ Select(j) \/ RefuseToRoute(j) \/ MistakeForRefusal(j)
             \/ KillRecall(j) \/ KillChild(j)
      PROVE  RouteInv'
  <2>1. Alone(j) /\ UNCHANGED setup
    BY <1>3, Others
    DEF TakeCached, AskForList, Select, RefuseToRoute, MistakeForRefusal, KillRecall, KillChild
  <2>2. CASE TakeCached(j) \/ AskForList(j) \/ KillChild(j)
    <3>1. work'[j].request = work[j].request /\ work'[j].misled = work[j].misled
      BY <1>0, <2>2 DEF TakeCached, AskForList, KillChild, Trouble, Work
    <3> QED BY <1>1, <2>1, <3>1 DEF RouteInv
  <2>3. CASE Select(j)
    <3>1. work'[j].misled = work[j].misled
      BY <2>3, KeepsMisled
    <3>2. CASE Goto(j, "cleanup")
      <4>1. work'[j].request = work[j].request
        BY <1>0, <3>2 DEF Goto, Work
      <4> QED BY <1>1, <2>1, <3>1, <4>1 DEF RouteInv
    <3>3. CASE ~Goto(j, "cleanup")
      <4>1. PICK r \in Target(work[j].list, j \in Recalls) :
              work' = [work EXCEPT ![j].place = "posted", ![j].request = r, ![j].list = {}]
        BY <2>3, <3>3 DEF Select
      <4>2. work[j].list \in SUBSET Selectors /\ (j \in Recalls) \in BOOLEAN /\ setup \in Settings
        BY <1>0 DEF Work, TypeOK
      <4>3. j \notin Recalls /\ r.route => setup.mode = "auto"
        BY <4>1, <4>2, TargetTyped
      <4>4. work'[j].request = r
        BY <1>0, <4>1 DEF Work
      <4>5. j \in Pushes => j \notin Recalls
        BY HookSendAssumption
      <4> QED BY <1>1, <2>1, <3>1, <4>3, <4>4, <4>5
    <3> QED BY <3>2, <3>3
  <2>4. CASE RefuseToRoute(j) \/ KillRecall(j)
    <3>1. ~work'[j].request.route /\ (work'[j].misled => work[j].misled)
      BY <1>0, <2>4 DEF RefuseToRoute, KillRecall, Fallback, Idle, Work
    <3> QED BY <1>1, <2>1, <3>1
  <2>5. CASE MistakeForRefusal(j)
    <3>1. ~work'[j].request.route
      BY <1>0, <2>5 DEF MistakeForRefusal, Fallback, Work
    <3>2. j \in Pushes /\ setup.via = "mcp" /\ setup.mode = "auto"
      BY <2>5 DEF MistakeForRefusal, Posted, RouteInv
    <3> QED BY <1>1, <2>1, <3>1, <3>2
  <2> QED BY <1>3, <2>2, <2>3, <2>4, <2>5
<1>4. ASSUME NEW j \in Hooks,
             HasNothingToDo(j) \/ MakeFile(j) \/ WriteFile(j) \/ PushStops(j) \/ RecallEnds(j)
             \/ StoreLate(j)
      PROVE  RouteInv'
  <2>1. UNCHANGED <<work, setup>>
    BY <1>4 DEF HasNothingToDo, MakeFile, WriteFile, PushStops, RecallEnds, StoreLate
  <2> QED BY <2>1 DEF RouteInv
<1>5. CASE ViewChanges \/ (\E t \in Transports : CacheAges(t)) \/ UNCHANGED vars
  <2>1. UNCHANGED setup /\ \A k \in Hooks :
          work'[k].misled = work[k].misled /\ work'[k].request = work[k].request
    BY <1>0, <1>5 DEF ViewChanges, CacheAges, vars, Work
  <2> QED BY <2>1 DEF RouteInv
<1> QED BY <1>2, <1>3, <1>4, <1>5 DEF Next, HookStep, WorkStep, Moves

-----------------------------------------------------------------------------
(* Lists: they are made whole, handed on, and judged anew by each change.  *)
LEMMA ListStep ==
  ASSUME TypeOK, ListInv, [Next]_vars
  PROVE  ListInv'
<1> USE DEF ListInv, world, server
<1>1. ASSUME NEW j \in Hooks,
             HasNothingToDo(j) \/ MakeFile(j) \/ WriteFile(j) \/ PushStops(j) \/ RecallEnds(j)
             \/ StoreLate(j)
      PROVE  ListInv'
  BY <1>1 DEF HasNothingToDo, MakeFile, WriteFile, PushStops, RecallEnds, StoreLate, Own
<1>2. ASSUME NEW j \in Hooks, Moves(j)
      PROVE  ListInv'
  <2>1. \A k \in Hooks : work'[k].sound = work[k].sound /\ work'[k].list = work[k].list
    BY <1>2, MovesTo, Moved DEF TypeOK
  <2>2. view' = view
    BY <1>2 DEF Moves, Recall, Spawn, ReadPayload, ReadFails, Unlink, UnlinkFails, Pinned, Truncate, Fill,
                SaveFails, Record, Refuse, Lose, GiveUp, Recalled, Cleanup
  <2>3. \A t \in Transports : cache'[t].sound => \A s \in cache'[t].list : Own(s)
    <3>1. CASE Truncate(j)
      BY <3>1 DEF Truncate, NoList, TypeOK
    <3>2. CASE Fill(j)
      <4>1. PICK text \in {NoList, [usable |-> TRUE, list |-> work[j].list, sound |-> work[j].sound]} :
              cache' = [cache EXCEPT ![setup.via] = text]
        BY <3>2 DEF Fill
      <4>2. text.sound => \A s \in text.list : Own(s)
        BY <4>1 DEF NoList
      <4> QED BY <4>1, <4>2 DEF TypeOK
    <3>3. CASE ~Truncate(j) /\ ~Fill(j)
      <4>1. cache' = cache
        BY <1>2, <3>3 DEF Moves, Recall, Spawn, ReadPayload, ReadFails, Unlink, UnlinkFails, Pinned, SaveFails,
                          Record, Refuse, Lose, GiveUp, Recalled, Cleanup
      <4> QED BY <4>1
    <3> QED BY <3>1, <3>2, <3>3
  <2> QED BY <2>1, <2>2, <2>3 DEF Own
<1>3. ASSUME NEW j \in Hooks,
             TakeCached(j) \/ AskForList(j) \/ Select(j) \/ RefuseToRoute(j) \/ MistakeForRefusal(j)
             \/ KillRecall(j) \/ KillChild(j)
      PROVE  ListInv'
  <2>1. UNCHANGED <<view, cache>> /\ Alone(j)
    BY <1>3, Others DEF TakeCached, AskForList, Select, RefuseToRoute, MistakeForRefusal, KillRecall, KillChild
  <2>2. work'[j].sound => \A s \in work'[j].list : Own(s)
    <3>0. work[j] \in Work /\ work \in [Hooks -> Work]
      BY DEF TypeOK
    <3>1. CASE TakeCached(j)
      <4>1. work'[j].list = cache[setup.via].list /\ work'[j].sound = cache[setup.via].sound
        BY <3>0, <3>1 DEF TakeCached, Work
      <4> QED BY <4>1 DEF TypeOK, Settings
    <3>2. CASE AskForList(j)
      <4>1. CASE Trouble(j, "select")
        BY <3>0, <4>1 DEF Trouble, Work
      <4>2. CASE ~Trouble(j, "select")
        <5>1. work'[j].list = Listing
          BY <3>0, <3>2, <4>2 DEF AskForList, Work
        <5> QED BY <5>1, ListingOwn DEF TypeOK
      <4> QED BY <4>1, <4>2
    <3>3. CASE Select(j)
      <4>1. CASE Goto(j, "cleanup")
        BY <3>0, <4>1 DEF Goto, Work
      <4>2. CASE ~Goto(j, "cleanup")
        <5>1. PICK r \in Target(work[j].list, j \in Recalls) :
                work' = [work EXCEPT ![j].place = "posted", ![j].request = r, ![j].list = {}]
          BY <3>3, <4>2 DEF Select
        <5>2. work'[j].list = {}
          BY <3>0, <5>1 DEF Work
        <5> QED BY <5>2
      <4> QED BY <4>1, <4>2
    <3>4. CASE RefuseToRoute(j) \/ MistakeForRefusal(j)
      BY <3>0, <3>4 DEF RefuseToRoute, MistakeForRefusal, Work
    <3>5. CASE KillRecall(j) \/ KillChild(j)
      <4>1. work'[j].list = {}
        BY <3>0, <3>5 DEF KillRecall, KillChild, Idle, Work
      <4> QED BY <4>1
    <3> QED BY <1>3, <3>1, <3>2, <3>3, <3>4, <3>5
  <2> QED BY <2>1, <2>2 DEF Alone, Own
<1>4. CASE ViewChanges
  BY <1>4 DEF ViewChanges, TypeOK, Work, Caches
<1>5. ASSUME NEW t \in Transports, CacheAges(t)
      PROVE  ListInv'
  BY <1>5 DEF CacheAges, NoList, TypeOK, Own
<1>6. CASE UNCHANGED vars
  BY <1>6 DEF vars, Own
<1> QED
  BY <1>1, <1>2, <1>3, <1>4, <1>5, <1>6 DEF Next, HookStep, WorkStep, Moves

-----------------------------------------------------------------------------
LEMMA WorkingStep ==
  ASSUME TypeOK, WorkingInv, [Next]_vars
  PROVE  WorkingInv'
<1> USE DEF WorkingInv, TypeOK, world
<1>1. ASSUME NEW j \in Hooks,
             HasNothingToDo(j) \/ Recall(j) \/ MakeFile(j) \/ HookStep(j) \/ KillRecall(j)
      PROVE  WorkingInv'
  BY <1>1 DEF HasNothingToDo, Recall, MakeFile, HookStep, WriteFile, Spawn, PushStops, RecallEnds,
              KillRecall
<1>2. ASSUME NEW j \in Hooks, WorkStep(j) \/ StoreLate(j) \/ KillChild(j)
      PROVE  WorkingInv'
  <2>1. UNCHANGED hook
    BY <1>2 DEF WorkStep, ReadPayload, ReadFails, Unlink, UnlinkFails, Pinned, TakeCached, AskForList, Truncate,
                Fill, SaveFails, Select, Record, RefuseToRoute, MistakeForRefusal, Refuse, Lose, GiveUp, Recalled,
                Cleanup, StoreLate, KillChild
  <2> QED BY <2>1
<1>3. CASE ViewChanges \/ (\E t \in Transports : CacheAges(t)) \/ UNCHANGED vars
  BY <1>3 DEF ViewChanges, CacheAges, vars
<1> QED BY <1>1, <1>2, <1>3 DEF Next

(* What a step of one hook has to show for the spaces.                     *)
LEMMA OneSpace ==
  ASSUME SpaceInv, NEW j \in Hooks, UNCHANGED <<view, setup>>, Alone(j),
         \A k \in Hooks : k # j => stored'[k] = stored[k] /\ late'[k] = late[k],
         work'[j].place \in Early => work'[j].request.space = None,
         OwnRequest(j)'
  PROVE  SpaceInv'
  BY DEF SpaceInv, OwnRequest, Alone, At, Own, Places

LEMMA MovesSpace ==
  ASSUME TypeOK, CopyInv, RouteInv, SpaceInv, NEW j \in Hooks, Moves(j)
  PROVE  SpaceInv'
<1> USE DEF At, world, server
<1>1. Alone(j) /\ work'[j].sound = work[j].sound /\ work'[j].request = work[j].request
  BY MovesTo, Moved, Others DEF TypeOK
<1>2. work \in [Hooks -> Work] /\ UNCHANGED <<view, setup>>
  BY DEF TypeOK, Moves, Recall, Spawn, ReadPayload, ReadFails, Unlink, UnlinkFails, Pinned, Truncate, Fill,
         SaveFails, Record, Refuse, Lose, GiveUp, Recalled, Cleanup
<1>3. CASE Recall(j) \/ Spawn(j) \/ ReadPayload(j) \/ Unlink(j) \/ Pinned(j)
  <2>1. work[j].place \in Early /\ work'[j].place \in Early /\ UNCHANGED <<stored, late>>
    BY <1>2, <1>3 DEF CopyInv, Recall, Spawn, ReadPayload, Unlink, Pinned, Goto, Work, Early, Unsent
  <2>2. stored[j] = <<>> /\ ~late[j] /\ work[j].request.space = None
    BY <2>1, NoneStored DEF SpaceInv
  <2> QED BY <1>1, <1>2, <2>1, <2>2, OneSpace DEF OwnRequest, Early
<1>4. CASE Truncate(j) \/ Fill(j) \/ SaveFails(j)
  <2>1. work[j].place \in Early /\ work'[j].place \in Early /\ UNCHANGED <<stored, late>>
    BY <1>2, <1>4 DEF Truncate, Fill, SaveFails, Goto, Work, Early, Unsent
  <2>2. stored[j] = <<>> /\ ~late[j] /\ work[j].request.space = None
    BY <2>1, NoneStored DEF SpaceInv
  <2> QED BY <1>1, <1>2, <2>1, <2>2, OneSpace DEF OwnRequest, Early
<1>5. CASE ReadFails(j) \/ UnlinkFails(j) \/ Refuse(j) \/ Recalled(j) \/ Cleanup(j)
  <2>1. work'[j].place \in {"cleanup", "done"} /\ UNCHANGED <<stored, late>>
    BY <1>2, <1>5 DEF ReadFails, UnlinkFails, Refuse, Recalled, Cleanup, Goto, Trouble, Work
  <2>2. OwnRequest(j)'
    BY <1>1, <1>2, <2>1 DEF SpaceInv, OwnRequest, Own, Places
  <2> QED BY <1>1, <1>2, <2>1, <2>2, OneSpace DEF Early, Unsent
<1>6. CASE GiveUp(j)
  <2>1. work'[j].place = "cleanup" /\ work[j].place = "posted" /\ UNCHANGED stored
        /\ (\A k \in Hooks : k # j => late'[k] = late[k])
    BY <1>2, <1>6 DEF GiveUp, Posted, Trouble, Work, TypeOK
  <2>2. OwnRequest(j)'
    BY <1>1, <1>2, <2>1 DEF SpaceInv, OwnRequest, Own, Places
  <2> QED BY <1>1, <1>2, <2>1, <2>2, OneSpace DEF Early, Unsent
<1>7. CASE Record(j) \/ Lose(j)
  <2>1. work'[j].place = "cleanup" /\ work[j].place = "posted" /\ UNCHANGED late
    BY <1>2, <1>7 DEF Record, Lose, Posted, Goto, Trouble, Work
  <2>2. \A k \in Hooks : k # j => stored'[k] = stored[k]
    BY <1>7, StoresTyped DEF Record, Lose
  <2>3. OwnRequest(j)'
    <3>1. CASE UNCHANGED stored
      BY <1>1, <1>2, <2>1, <3>1 DEF SpaceInv, OwnRequest, Own, Places
    <3>2. CASE Stores(j)
      BY <1>1, <1>2, <2>1, <3>2, StoredOwn DEF SpaceInv, OwnRequest, Own, Places
    <3> QED BY <1>7, <3>1, <3>2 DEF Record, Lose
  <2> QED BY <1>1, <1>2, <2>1, <2>2, <2>3, OneSpace DEF Early, Unsent
<1> QED BY <1>3, <1>4, <1>5, <1>6, <1>7 DEF Moves

LEMMA SpaceStep ==
  ASSUME TypeOK, CopyInv, RouteInv, ListInv, SpaceInv, WorkingInv, [Next]_vars
  PROVE  SpaceInv'
<1> USE DEF At, world, server
<1>0. work \in [Hooks -> Work]
  BY DEF TypeOK
<1>1. ASSUME NEW j \in Hooks,
             HasNothingToDo(j) \/ MakeFile(j) \/ WriteFile(j) \/ PushStops(j) \/ RecallEnds(j)
      PROVE  SpaceInv'
  BY <1>1 DEF HasNothingToDo, MakeFile, WriteFile, PushStops, RecallEnds, SpaceInv, OwnRequest, Own, Places
<1>2. ASSUME NEW j \in Hooks, StoreLate(j)
      PROVE  SpaceInv'
  <2>1. UNCHANGED <<view, setup, work>> /\ late[j]
        /\ (\A k \in Hooks : k # j => late'[k] = late[k])
    BY <1>2 DEF StoreLate, TypeOK
  <2>2. \A k \in Hooks : k # j => stored'[k] = stored[k]
    BY <1>2, OneMore, <2>1 DEF StoreLate
  <2>3. OwnRequest(j)'
    BY <1>2, <2>1, StoredOwn DEF StoreLate, SpaceInv, OwnRequest, Own, Places
  <2> QED BY <2>1, <2>2, <2>3, OneSpace DEF Alone, SpaceInv
<1>3. ASSUME NEW j \in Hooks, TakeCached(j) \/ AskForList(j)
      PROVE  SpaceInv'
  <2>0. work[j].place = "target" /\ UNCHANGED <<view, setup, stored, late>>
    BY <1>3 DEF TakeCached, AskForList
  <2>1. Alone(j) /\ work'[j].request = work[j].request
    <3>1. Alone(j)
      BY <1>3, Others
    <3>2. work'[j].request = work[j].request
      BY <1>0, <1>3 DEF TakeCached, AskForList, Trouble, Work
    <3> QED BY <3>1, <3>2
  <2>2. stored[j] = <<>> /\ ~late[j] /\ work[j].request.space = None
    BY <2>0, NoneStored DEF SpaceInv, Early, Unsent
  <2>3. work'[j].place \in {"select", "save"}
    BY <1>0, <1>3 DEF TakeCached, AskForList, Trouble, Work
  <2> QED BY <2>0, <2>1, <2>2, <2>3, OneSpace DEF OwnRequest
<1>4. ASSUME NEW j \in Hooks, Select(j)
      PROVE  SpaceInv'
  <2>1. work[j].place = "select" /\ UNCHANGED <<view, setup, stored, late>> /\ Alone(j)
    BY <1>4, Others DEF Select
  <2>2. stored[j] = <<>> /\ ~late[j] /\ work[j].request.space = None
    BY <2>1, NoneStored DEF SpaceInv, Early, Unsent
  <2>3. CASE Goto(j, "cleanup")
    <3>1. work'[j].request = work[j].request /\ work'[j].place = "cleanup"
      BY <1>0, <2>3 DEF Goto, Work
    <3> QED BY <2>1, <2>2, <3>1, OneSpace DEF OwnRequest
  <2>4. CASE ~Goto(j, "cleanup")
    <3>1. PICK r \in Target(work[j].list, j \in Recalls) :
            work' = [work EXCEPT ![j].place = "posted", ![j].request = r, ![j].list = {}]
      BY <1>4, <2>4 DEF Select
    <3>2. work'[j].request = r /\ work'[j].place = "posted" /\ work'[j].sound = work[j].sound
      BY <1>0, <3>1 DEF Work
    <3>3. work[j].list \in SUBSET Selectors /\ (j \in Recalls) \in BOOLEAN /\ setup \in Settings
      BY <1>0 DEF Work, TypeOK
    <3>4. j \notin Recalls /\ setup.pinned = None => r.space \in work[j].list /\ r.space # None
      BY <3>1, <3>3, TargetTyped
    <3>5. j \in Pushes => j \notin Recalls
      BY HookSendAssumption
    <3>6. work[j].sound => \A s \in work[j].list : Own(s)
      BY DEF ListInv
    <3>7. j \in Pushes /\ setup.pinned = None /\ work[j].sound => Own(r.space) /\ r.space # None
      BY <3>4, <3>5, <3>6
    <3>8. OwnRequest(j)'
      BY <2>1, <2>2, <3>2, <3>7 DEF OwnRequest, Own
    <3> QED BY <2>1, <3>2, <3>8, OneSpace DEF Early, Unsent
  <2> QED BY <2>3, <2>4
<1>5. ASSUME NEW j \in Hooks, RefuseToRoute(j)
      PROVE  SpaceInv'
  <2>1. work[j].place = "posted" /\ UNCHANGED <<view, setup, stored, late>> /\ Alone(j)
    BY <1>5, Others DEF RefuseToRoute, Posted
  <2>2. work'[j].request.space = work[j].request.space /\ work'[j].place = "posted"
        /\ work'[j].sound = work[j].sound
    BY <1>0, <1>5, <2>1 DEF RefuseToRoute, Fallback, Work
  <2> QED BY <2>1, <2>2, OneSpace DEF SpaceInv, OwnRequest, Early, Own, Places
<1>6. ASSUME NEW j \in Hooks, KillRecall(j)
      PROVE  SpaceInv'
  <2>1. j \notin Pushes
    BY <1>6, HookSendAssumption DEF KillRecall, WorkingInv
  <2>2. UNCHANGED <<view, setup, stored, late>> /\ Alone(j) /\ work'[j].place = "killed"
    BY <1>0, <1>6, Others DEF KillRecall, Idle
  <2> QED BY <2>1, <2>2, OneSpace DEF OwnRequest, Early, Unsent
<1>7. ASSUME NEW j \in Hooks, KillChild(j)
      PROVE  SpaceInv'
  <2>1. UNCHANGED <<view, setup, stored>> /\ Alone(j)
        /\ (\A k \in Hooks : k # j => late'[k] = late[k])
    BY <1>7, Others DEF KillChild, TypeOK
  <2>2. work'[j].place = "killed" /\ work'[j].sound = work[j].sound
        /\ work'[j].request = work[j].request
    BY <1>0, <1>7 DEF KillChild, Work
  <2>3. late'[j] => late[j] \/ work[j].place = "posted"
    BY <1>7 DEF KillChild, TypeOK
  <2> QED BY <2>1, <2>2, <2>3, OneSpace DEF SpaceInv, OwnRequest, Early, Unsent, Own, Places
<1>8. CASE ViewChanges
  BY <1>0, <1>8 DEF ViewChanges, SpaceInv, OwnRequest, Work, Places
<1>9. CASE (\E t \in Transports : CacheAges(t)) \/ UNCHANGED vars
  BY <1>9 DEF CacheAges, vars, SpaceInv, OwnRequest, Own, Places
<1>10. ASSUME NEW j \in Hooks, MistakeForRefusal(j)
       PROVE  SpaceInv'
  <2>1. work[j].place = "posted" /\ UNCHANGED <<view, setup, late>> /\ Alone(j) /\ Stores(j)
        /\ (\A k \in Hooks : k # j => stored'[k] = stored[k])
    BY <1>10, Others, OneMore DEF MistakeForRefusal, Posted
  <2>2. work'[j].request.space = work[j].request.space /\ work'[j].place = "posted"
        /\ work'[j].sound = work[j].sound
    BY <1>0, <1>10, <2>1 DEF MistakeForRefusal, Fallback, Work
  <2>3. OwnRequest(j)'
    BY <2>1, <2>2, StoredOwn DEF SpaceInv, OwnRequest, Own, Places
  <2> QED BY <2>1, <2>2, <2>3, OneSpace DEF Early, Unsent
<1> QED
  BY <1>1, <1>2, <1>3, <1>4, <1>5, <1>6, <1>7, <1>8, <1>9, <1>10, MovesSpace
  DEF Next, HookStep, WorkStep, Moves

-----------------------------------------------------------------------------
THEOREM HookInvariant == Spec => []HookInv
<1>1. Init => HookInv
  BY HookInit
<1>2. HookInv /\ [Next]_vars => HookInv'
  BY TypeStep, CopyStep, RouteStep, ListStep, SpaceStep, WorkingStep DEF HookInv
<1> QED BY <1>1, <1>2, PTL DEF Spec

(* The processes, files, lists and requests keep their types.              *)
THEOREM HookTypeCorrect == Spec => []TypeOK
<1>1. HookInv => TypeOK
  BY DEF HookInv
<1> QED BY <1>1, HookInvariant, PTL

(* A payload is stored once at most, with any number of hooks: nothing is  *)
(* sent again while the server may still execute what was given up         *)
(* (anona_sync.py 844).  Only an error over MCP, where the settings let    *)
(* Anona choose, has it stored twice (424).                                *)
THEOREM OneCopy == Spec => []AtMostOneCopy
<1>1. HookInv => AtMostOneCopy
  <2> SUFFICES ASSUME HookInv, NEW j \in Hooks
               PROVE  /\ Len(stored[j]) + (IF late[j] THEN 1 ELSE 0) <= IF work[j].misled THEN 2 ELSE 1
                      /\ work[j].misled => setup.via = "mcp" /\ setup.mode = "auto"
    BY DEF AtMostOneCopy
  <2> DEFINE more == IF late[j] THEN 1 ELSE 0
             limit == IF work[j].misled THEN 2 ELSE 1
  <2>1. (work[j].misled => limit = 2) /\ (~work[j].misled => limit = 1)
    BY Zenon
  <2>2. more \in {0, 1} /\ (~late[j] => more = 0)
    BY Zenon
  <2> HIDE DEF more, limit
  <2>3. Copies(j) \in {0, 1} /\ (Copies(j) = 0 \/ ~late[j])
    BY DEF HookInv, CopyInv
  <2>4. work[j].misled => setup.via = "mcp" /\ setup.mode = "auto"
    BY DEF HookInv, RouteInv
  <2>5. Len(stored[j]) + more <= limit
    <3>1. Len(stored[j]) \in Nat /\ Len(stored[j]) = Copies(j) + (limit - 1)
      BY <2>1, CopiesCount DEF HookInv, TypeOK
    <3>2. Copies(j) + more <= 1
      BY <2>2, <2>3
    <3>3. limit \in {1, 2}
      BY <2>1
    <3> QED BY <2>2, <2>3, <3>1, <3>2, <3>3
  <2> QED BY <2>4, <2>5 DEF more, limit
<1> QED BY <1>1, HookInvariant, PTL

(* For any spaces and any history of the cache, a write without a pinned   *)
(* space goes to an own space while the account's spaces stay as they were *)
(* listed (anona_sync.py 506).                                             *)
THEOREM OwnOnly == Spec => []OwnSpaceOnly
<1>1. HookInv => OwnSpaceOnly
  BY DEF HookInv, SpaceInv, OwnRequest, OwnSpaceOnly, Hooks, Places
<1> QED BY <1>1, HookInvariant, PTL

-----------------------------------------------------------------------------
(* A payload is kept back only for want of an own space.                   *)

(* A list at hand that is not out of date, and was not given up, is all of *)
(* the account's own spaces; a child that is through has stored its        *)
(* payload, or had none to choose from.                                    *)
KeptInv(j) ==
  /\ work[j].place \in {"save", "fill"} /\ work[j].sound => work[j].list = Listing
  /\ At(j, "select") /\ work[j].sound /\ ~work[j].trouble /\ setup.pinned = None =>
       work[j].list = Listing
  /\ j \in Pushes /\ work[j].place \in {"cleanup", "done"} /\ work[j].sound /\ ~work[j].trouble =>
       Copies(j) = 1 \/ (setup.pinned = None /\ view.own = {})

CacheInv == \A t \in Transports : cache[t].usable /\ cache[t].sound => cache[t].list = Listing

LossInv == CacheInv /\ \A j \in Hooks : KeptInv(j)

LEMMA OneKept ==
  ASSUME LossInv, NEW j \in Hooks, Alone(j), UNCHANGED <<setup, view>>, CacheInv', KeptInv(j)',
         \A k \in Hooks : k # j => stored'[k] = stored[k]
  PROVE  LossInv'
<1>1. Listing' = Listing
  BY DEF Listing
<1>2. ASSUME NEW k \in Hooks, k # j PROVE KeptInv(k)'
  <2>1. Copies(k)' = Copies(k)
    BY <1>2, CopiesKept DEF Alone
  <2> QED BY <1>1, <1>2, <2>1 DEF LossInv, KeptInv, Alone, At
<1> QED BY <1>2 DEF LossInv

(* Where a step leads, and whether something went wrong.                   *)
LEMMA GoesTo ==
  ASSUME work \in [Hooks -> Work], NEW j \in Hooks, NEW p \in WorkPlaces, Goto(j, p)
  PROVE  /\ work'[j].place = p /\ work'[j].trouble = work[j].trouble
         /\ work'[j].sound = work[j].sound /\ work'[j].list = work[j].list
  BY DEF Goto, Work

LEMMA FailsTo ==
  ASSUME work \in [Hooks -> Work], NEW j \in Hooks, NEW p \in WorkPlaces, Trouble(j, p)
  PROVE  work'[j].place = p /\ work'[j].trouble
  BY DEF Trouble, Work

LEMMA MovesKept ==
  ASSUME TypeOK, CopyInv, LossInv, NEW j \in Hooks, Moves(j)
  PROVE  LossInv'
<1> USE DEF At, world, server
<1>0. work \in [Hooks -> Work] /\ Alone(j) /\ KeptInv(j)
  BY Others DEF TypeOK, LossInv
<1>1. UNCHANGED <<view, setup>> /\ Listing' = Listing
  BY DEF Moves, Recall, Spawn, ReadPayload, ReadFails, Unlink, UnlinkFails, Pinned, Truncate, Fill,
         SaveFails, Record, Refuse, Lose, GiveUp, Recalled, Cleanup, Listing
<1>2. CASE Recall(j) \/ Spawn(j) \/ ReadPayload(j) \/ Unlink(j) \/ Pinned(j)
  <2>1. UNCHANGED <<cache, stored>> /\ CacheInv'
    BY <1>1, <1>2 DEF Recall, Spawn, ReadPayload, Unlink, Pinned, LossInv, CacheInv
  <2>2. \/ work'[j].place \in {"target", "read", "unlink"}
        \/ work'[j].place = "select" /\ setup.pinned # None
    BY <1>0, <1>2 DEF Recall, Spawn, ReadPayload, Unlink, Pinned, Goto, Work
  <2>3. KeptInv(j)'
    BY <1>1, <2>2 DEF KeptInv
  <2> QED BY <1>0, <1>1, <2>1, <2>3, OneKept
<1>3. CASE ReadFails(j) \/ UnlinkFails(j) \/ Refuse(j) \/ Lose(j) \/ GiveUp(j)
  <2>1. Trouble(j, "cleanup") /\ UNCHANGED cache /\ CacheInv'
    BY <1>1, <1>3 DEF ReadFails, UnlinkFails, Refuse, Lose, GiveUp, LossInv, CacheInv
  <2>2. work'[j].place = "cleanup" /\ work'[j].trouble
    BY <1>0, <2>1, FailsTo DEF WorkPlaces
  <2>3. KeptInv(j)'
    BY <2>2 DEF KeptInv
  <2>4. \A k \in Hooks : k # j => stored'[k] = stored[k]
    BY <1>3, StoresTyped DEF ReadFails, UnlinkFails, Refuse, Lose, GiveUp
  <2> QED BY <1>0, <1>1, <2>1, <2>3, <2>4, OneKept
<1>4. CASE Truncate(j)
  <2>1. work[j].place = "save" /\ Goto(j, "fill") /\ UNCHANGED stored
    BY <1>4 DEF Truncate
  <2>2. /\ work'[j].place = "fill" /\ work'[j].sound = work[j].sound
        /\ work'[j].list = work[j].list
    BY <1>0, <2>1, GoesTo DEF WorkPlaces
  <2>3. CacheInv'
    BY <1>1, <1>4 DEF Truncate, NoList, LossInv, CacheInv, TypeOK
  <2>4. KeptInv(j)'
    BY <1>0, <1>1, <2>1, <2>2 DEF KeptInv
  <2> QED BY <1>0, <1>1, <2>1, <2>3, <2>4, OneKept
<1>5. CASE Fill(j) \/ SaveFails(j)
  <2>1. work[j].place \in {"save", "fill"} /\ Goto(j, "select") /\ UNCHANGED stored
    BY <1>5 DEF Fill, SaveFails
  <2>2. /\ work'[j].place = "select" /\ work'[j].sound = work[j].sound
        /\ work'[j].list = work[j].list
    BY <1>0, <2>1, GoesTo DEF WorkPlaces
  <2>3. work[j].sound => work[j].list = Listing
    BY <1>0, <2>1 DEF KeptInv
  <2>4. CacheInv'
    <3>1. CASE Fill(j)
      <4> DEFINE new == [usable |-> TRUE, list |-> work[j].list, sound |-> work[j].sound]
      <4>1. PICK text \in {new, NoList} : cache' = [cache EXCEPT ![setup.via] = text]
        BY <3>1 DEF Fill
      <4>2. text.usable /\ text.sound => text.list = Listing
        BY <2>3 DEF NoList
      <4> HIDE DEF new
      <4> QED BY <1>1, <4>1, <4>2 DEF LossInv, CacheInv, TypeOK
    <3>2. CASE SaveFails(j)
      BY <1>1, <3>2 DEF SaveFails, LossInv, CacheInv
    <3> QED BY <1>5, <3>1, <3>2
  <2>5. KeptInv(j)'
    BY <1>1, <2>2, <2>3 DEF KeptInv
  <2> QED BY <1>0, <1>1, <2>1, <2>4, <2>5, OneKept
<1>6. CASE Record(j) \/ Recalled(j)
  <2>1. Goto(j, "cleanup") /\ UNCHANGED cache /\ CacheInv' /\ work[j].place = "posted"
    BY <1>1, <1>6 DEF Record, Recalled, Posted, LossInv, CacheInv
  <2>2. work'[j].place = "cleanup"
    BY <1>0, <2>1, GoesTo DEF WorkPlaces
  <2>3. Copies(j) = 0 /\ work'[j].misled = work[j].misled
    BY <2>1, KeepsMisled DEF CopyInv, Unsent
  <2>4. /\ \A k \in Hooks : k # j => stored'[k] = stored[k]
        /\ Copies(j)' = 1 \/ j \notin Pushes
    <3>1. CASE Record(j)
      BY <2>3, <3>1, OneMore DEF Record
    <3>2. CASE Recalled(j)
      BY <3>2, HookSendAssumption DEF Recalled
    <3> QED BY <1>6, <3>1, <3>2
  <2>5. KeptInv(j)'
    BY <2>2, <2>4 DEF KeptInv
  <2> QED BY <1>0, <1>1, <2>1, <2>4, <2>5, OneKept
<1>7. CASE Cleanup(j)
  <2>1. /\ Goto(j, "done") /\ UNCHANGED <<cache, stored>> /\ CacheInv'
        /\ work[j].place = "cleanup"
    BY <1>1, <1>7 DEF Cleanup, LossInv, CacheInv
  <2>2. /\ work'[j].place = "done" /\ work'[j].sound = work[j].sound
        /\ work'[j].trouble = work[j].trouble
    BY <1>0, <2>1, GoesTo DEF WorkPlaces
  <2>3. Copies(j)' = Copies(j)
    BY <1>7, <2>1, KeepsMisled, CopiesKept DEF Moves
  <2>4. KeptInv(j)'
    BY <1>0, <1>1, <2>1, <2>2, <2>3 DEF KeptInv
  <2> QED BY <1>0, <1>1, <2>1, <2>4, OneKept
<1> QED BY <1>2, <1>3, <1>4, <1>5, <1>6, <1>7 DEF Moves

LEMMA ListingAll ==
  ASSUME Listing = {}
  PROVE  view.own = {}
<1> SUFFICES ASSUME NEW n \in view.own PROVE FALSE
  OBVIOUS
<1>1. CASE n \in view.shared
  <2>1. [name |-> n, qualified |-> TRUE] \in Listing
    BY <1>1 DEF Listing, Entries
  <2> QED BY <2>1
<1>2. CASE n \notin view.shared
  <2>1. [name |-> n, qualified |-> FALSE] \in Listing
    BY <1>2 DEF Listing, Entries
  <2> QED BY <2>1
<1> QED BY <1>1, <1>2

(* Only an empty list leaves a push without a request.                     *)
LEMMA TargetFound ==
  ASSUME NEW list, Target(list, FALSE) = {}
  PROVE  setup.pinned = None /\ list = {}
<1>1. setup.pinned = None
  BY DEF Target
<1>2. Matches(list) = {} => list = {}
  BY DEF Matches
<1>3. list # {} => Matches(list) = {}
  BY <1>1 DEF Target
<1> QED BY <1>1, <1>2, <1>3

LEMMA LossStep ==
  ASSUME TypeOK, CopyInv, WorkingInv, LossInv, [Next]_vars
  PROVE  LossInv'
<1> USE DEF At, world, server
<1>0. work \in [Hooks -> Work]
  BY DEF TypeOK
<1>1. ASSUME NEW j \in Hooks,
             HasNothingToDo(j) \/ MakeFile(j) \/ WriteFile(j) \/ PushStops(j) \/ RecallEnds(j)
      PROVE  LossInv'
  <2>1. UNCHANGED <<setup, view, cache, work, stored>>
    BY <1>1 DEF HasNothingToDo, MakeFile, WriteFile, PushStops, RecallEnds
  <2> QED BY <2>1 DEF LossInv, CacheInv, KeptInv, Listing, Copies
<1>2. ASSUME NEW j \in Hooks, StoreLate(j)
      PROVE  LossInv'
  <2>1. UNCHANGED <<setup, view, cache, work>> /\ Copies(j) = 0 /\ Stores(j)
    BY <1>2 DEF StoreLate, CopyInv
  <2>2. Copies(j)' = 1 /\ \A k \in Hooks : k # j => stored'[k] = stored[k]
    BY <2>1, OneMore
  <2>3. CacheInv' /\ KeptInv(j)'
    BY <2>1, <2>2 DEF LossInv, CacheInv, KeptInv, Listing
  <2> QED BY <2>1, <2>2, <2>3, OneKept DEF Alone
<1>3. ASSUME NEW j \in Hooks, TakeCached(j)
      PROVE  LossInv'
  <2>1. /\ UNCHANGED <<setup, view, cache, stored>> /\ cache[setup.via].usable
        /\ work' = [work EXCEPT ![j].place = "select", ![j].list = cache[setup.via].list,
                                ![j].sound = cache[setup.via].sound]
    BY <1>3 DEF TakeCached, HasList
  <2>2. /\ work'[j].place = "select" /\ work'[j].list = cache[setup.via].list
        /\ work'[j].sound = cache[setup.via].sound
    BY <1>0, <2>1 DEF Work
  <2>3. cache[setup.via].sound => cache[setup.via].list = Listing
    BY <2>1 DEF LossInv, CacheInv, TypeOK, Settings
  <2>4. CacheInv' /\ KeptInv(j)'
    BY <2>1, <2>2, <2>3 DEF LossInv, CacheInv, KeptInv, Listing
  <2> QED BY <1>3, <2>1, <2>4, OneKept, Others
<1>4. ASSUME NEW j \in Hooks, AskForList(j)
      PROVE  LossInv'
  <2>1. UNCHANGED <<setup, view, cache, stored>>
    BY <1>4 DEF AskForList
  <2>2. \/ work'[j].place = "save" /\ work'[j].list = Listing
        \/ work'[j].place = "select" /\ work'[j].trouble
    <3>1. CASE Trouble(j, "select")
      BY <1>0, <3>1, FailsTo DEF WorkPlaces
    <3>2. CASE ~Trouble(j, "select")
      BY <1>0, <1>4, <3>2 DEF AskForList, Work
    <3> QED BY <3>1, <3>2
  <2>3. CacheInv' /\ KeptInv(j)'
    BY <2>1, <2>2 DEF LossInv, CacheInv, KeptInv, Listing
  <2> QED BY <1>4, <2>1, <2>3, OneKept, Others
<1>5. ASSUME NEW j \in Hooks, Select(j)
      PROVE  LossInv'
  <2>1. /\ UNCHANGED <<setup, view, cache, stored>> /\ CacheInv' /\ work[j].place = "select"
    BY <1>5 DEF Select, LossInv, CacheInv, Listing
  <2>2. KeptInv(j)'
    <3>1. CASE Target(work[j].list, j \in Recalls) = {}
      <4>1. Goto(j, "cleanup")
        BY <1>5, <3>1 DEF Select
      <4>2. /\ work'[j].place = "cleanup" /\ work'[j].trouble = work[j].trouble
            /\ work'[j].sound = work[j].sound
        BY <1>0, <4>1, GoesTo DEF WorkPlaces
      <4>3. j \in Pushes => setup.pinned = None /\ work[j].list = {}
        <5> SUFFICES ASSUME j \in Pushes PROVE setup.pinned = None /\ work[j].list = {}
          OBVIOUS
        <5>1. (j \in Recalls) = FALSE
          BY HookSendAssumption
        <5>2. Target(work[j].list, FALSE) = {}
          BY <3>1, <5>1
        <5> QED BY <5>2, TargetFound
      <4>4. j \in Pushes /\ work[j].sound /\ ~work[j].trouble => view.own = {}
        BY <2>1, <4>3, ListingAll DEF LossInv, KeptInv
      <4> QED BY <2>1, <4>2, <4>3, <4>4 DEF KeptInv
    <3>2. CASE Target(work[j].list, j \in Recalls) # {}
      <4>1. work'[j].place = "posted"
        BY <1>0, <1>5, <3>2 DEF Select, Work
      <4> QED BY <4>1 DEF KeptInv
    <3> QED BY <3>1, <3>2
  <2> QED BY <1>5, <2>1, <2>2, OneKept, Others
<1>6. ASSUME NEW j \in Hooks,
             RefuseToRoute(j) \/ MistakeForRefusal(j) \/ KillRecall(j) \/ KillChild(j)
      PROVE  LossInv'
  <2>1. UNCHANGED <<setup, view, cache>> /\ CacheInv'
    BY <1>6 DEF RefuseToRoute, MistakeForRefusal, KillRecall, KillChild, LossInv, CacheInv, Listing
  <2>2. work'[j].place \in {"posted", "killed"}
    BY <1>0, <1>6 DEF RefuseToRoute, MistakeForRefusal, Posted, KillRecall, KillChild, Idle, Work
  <2>3. KeptInv(j)'
    BY <2>2 DEF KeptInv
  <2>4. \A k \in Hooks : k # j => stored'[k] = stored[k]
    BY <1>6, StoresTyped DEF RefuseToRoute, MistakeForRefusal, KillRecall, KillChild
  <2> QED BY <1>6, <2>1, <2>3, <2>4, OneKept, Others
<1>7. CASE ViewChanges
  <2>1. (\A j \in Hooks : ~work'[j].sound) /\ (\A t \in Transports : ~cache'[t].sound)
    BY <1>0, <1>7 DEF ViewChanges, Work, TypeOK, Caches
  <2> QED BY <2>1 DEF LossInv, CacheInv, KeptInv
<1>8. ASSUME NEW t \in Transports, CacheAges(t)
      PROVE  LossInv'
  <2>1. UNCHANGED <<setup, view, work, stored>> /\ cache' = [cache EXCEPT ![t] = NoList]
    BY <1>8 DEF CacheAges
  <2>2. CacheInv'
    BY <2>1 DEF NoList, LossInv, CacheInv, Listing, TypeOK
  <2> QED BY <2>1, <2>2 DEF LossInv, KeptInv, Listing, Copies
<1>9. CASE UNCHANGED vars
  BY <1>9 DEF vars, LossInv, CacheInv, KeptInv, Listing, Copies
<1> QED
  BY <1>1, <1>2, <1>3, <1>4, <1>5, <1>6, <1>7, <1>8, <1>9, MovesKept
  DEF Next, HookStep, WorkStep, Moves

(* A child that nothing happens to has stored its payload, in the fallback *)
(* space if need be, unless there is no own space (anona_sync.py 847).     *)
THEOREM NothingLost == Spec => []NotLost
<1>1. Init => LossInv
  BY DEF Init, Idle, NoList, LossInv, CacheInv, KeptInv, At
<1>2. HookInv /\ LossInv /\ [Next]_vars => LossInv'
  BY LossStep DEF HookInv
<1>3. LossInv => NotLost
  BY DEF LossInv, KeptInv, NotLost, Hooks, At
<1> QED BY <1>1, <1>2, <1>3, HookInvariant, PTL DEF Spec

-----------------------------------------------------------------------------
(* The delivery of a payload.  A step stores it, where nothing was stored, *)
(* or leaves it; and what nobody carries any more nobody gets back.        *)
Separate(j) ==
  /\ Alone(j)
  /\ \A k \in Hooks : k # j => hook'[k] = hook[k] /\ stored'[k] = stored[k] /\ late'[k] = late[k]

Leaves(j) == Copies(j)' = Copies(j) /\ (Gone(j) /\ ~late[j] => Gone(j)' /\ ~late'[j])
Puts(j)   == Copies(j) = 0 /\ (Gone(j) => late[j]) /\ Copies(j)' = 1

LEMMA HookKinds ==
  ASSUME TypeOK, CopyInv, NEW j \in Hooks,
         \/ HasNothingToDo(j) \/ MakeFile(j) \/ WriteFile(j) \/ PushStops(j) \/ RecallEnds(j)
         \/ Recall(j) \/ Spawn(j)
  PROVE  Separate(j) /\ Leaves(j)
<1>1. UNCHANGED <<stored, late>> /\ \A k \in Hooks : k # j => hook'[k] = hook[k]
  BY DEF TypeOK, server, HasNothingToDo, MakeFile, WriteFile, PushStops, RecallEnds, Recall, Spawn
<1>2. CASE Recall(j) \/ Spawn(j)
  <2>1. Alone(j)
    BY <1>2, Others DEF Moves
  <2>2. ~Gone(j)
    BY <1>2 DEF CopyInv, Gone, At, Recall, Spawn
  <2>3. Copies(j)' = Copies(j)
    BY <1>1, <1>2, KeepsMisled, CopiesKept DEF Moves
  <2> QED BY <1>1, <2>1, <2>2, <2>3 DEF Separate, Leaves
<1>3. CASE ~(Recall(j) \/ Spawn(j))
  <2>1. UNCHANGED work
    BY <1>3 DEF HasNothingToDo, MakeFile, WriteFile, PushStops, RecallEnds
  <2>2. Gone(j) => Gone(j)'
    BY <1>3, <2>1 DEF CopyInv, Gone, At, TypeOK, HasNothingToDo, MakeFile, WriteFile, PushStops,
                      RecallEnds
  <2>3. Copies(j)' = Copies(j)
    BY <1>1, <2>1, CopiesKept
  <2> QED BY <1>1, <2>1, <2>2, <2>3 DEF Separate, Leaves, Alone
<1> QED BY <1>2, <1>3

LEMMA WorkKinds ==
  ASSUME TypeOK, CopyInv, NEW j \in Hooks, WorkStep(j)
  PROVE  Separate(j) /\ (Leaves(j) \/ Puts(j))
<1> USE DEF At, server
<1>1. Alone(j) /\ UNCHANGED hook
  <2>1. Alone(j)
    BY Others DEF WorkStep, Moves
  <2>2. UNCHANGED hook
    BY DEF WorkStep, ReadPayload, ReadFails, Unlink, UnlinkFails, Pinned, TakeCached, AskForList, Truncate,
           Fill, SaveFails, Select, Record, RefuseToRoute, MistakeForRefusal, Refuse, Lose, GiveUp, Recalled, Cleanup
  <2> QED BY <2>1, <2>2
<1>2. CASE Cleanup(j)
  <2>1. work'[j].place = "done" /\ UNCHANGED <<stored, late>>
    BY <1>2, Moved DEF Cleanup, TypeOK, WorkPlaces
  <2>2. Copies(j)' = Copies(j)
    BY <1>2, <2>1, KeepsMisled, CopiesKept DEF Moves
  <2> QED BY <1>1, <2>1, <2>2 DEF Separate, Leaves, Gone
<1>3. CASE Record(j) \/ Lose(j) \/ GiveUp(j)
  <2>1. /\ work[j].place = "posted" /\ ~Gone(j) /\ Copies(j) = 0
        /\ work'[j].misled = work[j].misled
    BY <1>3, KeepsMisled DEF Moves, Record, Lose, GiveUp, Posted, Gone, CopyInv, Unsent
  <2>2. CASE Stores(j) /\ ~GiveUp(j)
    <3>1. UNCHANGED late
      BY <1>3, <2>2 DEF Record, Lose
    <3> QED BY <1>1, <2>1, <2>2, <3>1, OneMore DEF Separate, Puts
  <2>3. CASE ~Stores(j) \/ GiveUp(j)
    <3>1. UNCHANGED stored /\ \A k \in Hooks : k # j => late'[k] = late[k]
      BY <1>3, <2>3 DEF Record, Lose, GiveUp, TypeOK
    <3> QED BY <1>1, <2>1, <3>1, CopiesKept DEF Separate, Leaves
  <2> QED BY <2>2, <2>3
<1>4. CASE MistakeForRefusal(j)
  <2>1. /\ ~Gone(j) /\ UNCHANGED late /\ ~work[j].misled /\ Stores(j)
    BY <1>4 DEF MistakeForRefusal, Posted, Gone, CopyInv
  <2>2. work'[j].misled
    BY <1>4 DEF MistakeForRefusal, TypeOK, Work
  <2>3. Copies(j)' = Copies(j) /\ \A k \in Hooks : k # j => stored'[k] = stored[k]
    BY <2>1, <2>2, OneMore
  <2> QED BY <1>1, <2>1, <2>3 DEF Separate, Leaves
<1>5. CASE ~(Cleanup(j) \/ Record(j) \/ Lose(j) \/ GiveUp(j) \/ MistakeForRefusal(j))
  <2>1. UNCHANGED <<stored, late>>
    BY <1>5 DEF WorkStep, ReadPayload, ReadFails, Unlink, UnlinkFails, Pinned, TakeCached, AskForList,
                Truncate, Fill, SaveFails, Select, RefuseToRoute, Refuse, Recalled
  <2>2. ~Gone(j)
    BY <1>5 DEF Gone, Posted, WorkStep, ReadPayload, ReadFails, Unlink, UnlinkFails, Pinned, TakeCached,
                AskForList, Truncate, Fill, SaveFails, Select, RefuseToRoute, Refuse, Recalled
  <2>3. Copies(j)' = Copies(j)
    BY <1>5, <2>1, KeepsMisled, CopiesKept DEF WorkStep, Moves
  <2> QED BY <1>1, <2>1, <2>2, <2>3 DEF Separate, Leaves
<1> QED BY <1>2, <1>3, <1>4, <1>5

LEMMA FaultKinds ==
  ASSUME TypeOK, CopyInv, RouteInv, WorkingInv, NEW j \in Hooks, StoreLate(j) \/ KillRecall(j) \/ KillChild(j)
  PROVE  Separate(j) /\ (Leaves(j) \/ Puts(j))
<1> USE DEF At, server
<1>1. CASE StoreLate(j)
  <2>1. /\ UNCHANGED <<hook, work>> /\ late[j] /\ Copies(j) = 0
        /\ \A k \in Hooks : k # j => late'[k] = late[k]
    BY <1>1 DEF StoreLate, TypeOK, CopyInv
  <2>2. Copies(j)' = 1 /\ \A k \in Hooks : k # j => stored'[k] = stored[k]
    BY <1>1, <2>1, OneMore DEF StoreLate
  <2> QED BY <2>1, <2>2 DEF Separate, Puts, Alone
<1>2. CASE KillRecall(j) \/ KillChild(j)
  <2>1. Alone(j) /\ work'[j].place = "killed"
    <3>1. work \in [Hooks -> Work] /\ work[j] \in Work
      BY DEF TypeOK
    <3>2. CASE KillRecall(j)
      BY <3>1, <3>2, Others DEF KillRecall, Idle
    <3>3. CASE KillChild(j)
      BY <3>1, <3>3, Others DEF KillChild, Work
    <3> QED BY <1>2, <3>2, <3>3
  <2>2. /\ UNCHANGED stored
        /\ \A k \in Hooks : k # j => hook'[k] = hook[k] /\ late'[k] = late[k]
        /\ Gone(j) => late'[j] = late[j]
    BY <1>2 DEF KillRecall, KillChild, TypeOK, Gone
  <2>3. Copies(j)' = Copies(j)
    <3>1. CASE KillRecall(j)
      <4>1. work[j].misled = FALSE
        BY <3>1, HookSendAssumption DEF KillRecall, WorkingInv, RouteInv, TypeOK, Work
      <4>2. work'[j].misled = FALSE
        BY <3>1 DEF KillRecall, Idle, TypeOK
      <4> QED BY <2>2, <4>1, <4>2, CopiesKept
    <3>2. CASE KillChild(j)
      BY <2>2, <3>2, KeepsMisled, CopiesKept
    <3> QED BY <1>2, <3>1, <3>2
  <2> QED BY <2>1, <2>2, <2>3 DEF Separate, Leaves, Gone
<1> QED BY <1>1, <1>2

FateOf(j) ==
  CASE Copies(j) = 0 -> IF Gone(j) /\ ~late[j] THEN "void" ELSE "open"
    [] Copies(j) = 1 -> "done"
    [] OTHER         -> "twice"

LEMMA OneFate ==
  ASSUME TypeOK, CopyInv, NEW j \in Hooks, Separate(j), Leaves(j) \/ Puts(j)
  PROVE  UNCHANGED Fate \/ Deliveries!Execute(j) \/ Deliveries!Abandon(j)
<1>1. Fate = [k \in Hooks |-> FateOf(k)] /\ Fate' = [k \in Hooks |-> FateOf(k)']
  <2>1. Fate = [k \in Hooks |-> FateOf(k)]
    BY Zenon DEF Fate, FateOf
  <2>2. Fate' = [k \in Hooks |-> FateOf(k)']
    BY Zenon DEF Fate, FateOf
  <2> QED BY <2>1, <2>2
<1>2. \A k \in Hooks : k # j => FateOf(k)' = FateOf(k)
  <2> SUFFICES ASSUME NEW k \in Hooks, k # j PROVE FateOf(k)' = FateOf(k)
    OBVIOUS
  <2>1. Copies(k)' = Copies(k)
    BY CopiesKept DEF Separate, Alone
  <2> QED BY <2>1 DEF Separate, Alone, FateOf, Gone, At
<1>3. Copies(j) \in {0, 1}
  BY DEF CopyInv
<1>4. \/ FateOf(j)' = FateOf(j)
      \/ FateOf(j) = "open" /\ FateOf(j)' \in {"done", "void"}
  BY <1>3 DEF Leaves, Puts, FateOf
<1> HIDE DEF FateOf
<1>5. Fate' = [Fate EXCEPT ![j] = FateOf(j)'] /\ Fate[j] = FateOf(j)
  BY <1>1, <1>2
<1>6. CASE FateOf(j)' = FateOf(j)
  BY <1>1, <1>2, <1>6
<1>7. CASE FateOf(j) = "open" /\ FateOf(j)' \in {"done", "void"}
  BY <1>5, <1>7 DEF Deliveries!Execute, Deliveries!Abandon
<1> QED BY <1>4, <1>6, <1>7

(* Whoever is killed or given up, and wherever the payload goes, it is one *)
(* delivery: stored once at most, and never once nobody carries it         *)
(* (anona_sync.py 844).  What was stored before an error over MCP comes    *)
(* before it (424).                                                        *)
THEOREM PushedOnce == Spec => OneDelivery
<1> DEFINE word == [j \in Hooks |-> "none"]
<1>1. Init => Deliveries!DInit
  <2> SUFFICES ASSUME Init PROVE Deliveries!DInit
    OBVIOUS
  <2>1. \A j \in Hooks : Copies(j) = 0
    BY DEF Init, Idle, Copies
  <2> QED BY <2>1 DEF Fate, Deliveries!DInit
<1>2. HookInv /\ [Next]_vars => [Deliveries!DNext]_<<Fate, word>>
  <2> SUFFICES ASSUME HookInv, [Next]_vars PROVE Deliveries!DNext \/ UNCHANGED Fate
    OBVIOUS
  <2>0. TypeOK /\ CopyInv /\ RouteInv /\ WorkingInv
    BY DEF HookInv
  <2>1. ASSUME NEW j \in Hooks, Separate(j), Leaves(j) \/ Puts(j)
        PROVE  Deliveries!DNext \/ UNCHANGED Fate
    BY <2>0, <2>1, OneFate DEF Deliveries!DNext
  <2>2. CASE ViewChanges
    <3>1. UNCHANGED <<hook, stored, late>> /\ \A j \in Hooks :
            work'[j].place = work[j].place /\ work'[j].misled = work[j].misled
      BY <2>0, <2>2 DEF ViewChanges, TypeOK, Work, server
    <3>2. \A j \in Hooks : Copies(j)' = Copies(j)
      BY <3>1, CopiesKept
    <3> QED BY <3>1, <3>2 DEF Fate, Gone, At
  <2>3. CASE (\E t \in Transports : CacheAges(t)) \/ UNCHANGED vars
    BY <2>3 DEF CacheAges, vars, server, Fate, Gone, At, Copies
  <2> QED BY <2>0, <2>1, <2>2, <2>3, HookKinds, WorkKinds, FaultKinds DEF Next, HookStep
<1> QED BY <1>1, <1>2, HookInvariant, PTL
  DEF Spec, OneDelivery, Deliveries!DSpec, Deliveries!dvars

=============================================================================
