------------------------------- MODULE HookSend -------------------------------
(***************************************************************************)
(* The Claude Code hooks (hooks/anona_sync.py).  A push (pre-compact,      *)
(* session-end) writes its payload to a file and hands it to a detached    *)
(* child, which chooses the space and sends; a recall (session-start) does *)
(* its work itself.  All of them share a cached list of spaces.            *)
(*                                                                         *)
(* Hooks are killed at their time limit and children when the machine goes *)
(* down; the user's spaces change, or the login whose spaces they are.     *)
(* The repository is the same for all; Names holds its name and those that *)
(* differ from it in case only.                                            *)
(***************************************************************************)
EXTENDS Naturals, FiniteSets, Sequences

CONSTANTS
  Pushes, Recalls,   \* hooks of the two kinds
  Names,             \* names of spaces
  Home,              \* repo_name
  Setups,            \* settings, a set of Settings
  Accounts,          \* what is visible to an account: a set of Views
  Casts,             \* which hooks run: a set of sets of hooks
  MaxChanges,        \* bound: how often what is visible changes
  None

Hooks      == Pushes \cup Recalls
Transports == {"rest", "mcp"}
Settings   == [via : Transports, pinned : Names \cup {None},
               mode : {"", "auto", "off"}]
Views      == [own : SUBSET Names, shared : SUBSET Names]
Selectors  == [name : Names, qualified : BOOLEAN]
Requests   == [route : BOOLEAN, space : Selectors \cup {None}]
Caches     == [usable : BOOLEAN, list : SUBSET Selectors, sound : BOOLEAN]

ASSUME HookSendAssumption ==
  /\ Pushes \cap Recalls = {}
  /\ Home \in Names
  /\ Setups \subseteq Settings
  /\ Accounts \subseteq Views /\ Accounts # {}
  /\ MaxChanges \in Nat
  /\ None \notin Names \cup Selectors

VARIABLES
  setup,     \* the settings
  view,      \* the spaces that the account can see
  changes,   \* how often they have changed
  cache,     \* spaces-<transport>.json; usable if it is whole and not too old
  hook,      \* each hook process
  file,      \* the payload's file: "absent", "partial", "full", or "stuck"
             \* if it cannot be deleted
  work,      \* each child, or the recall itself
  stored,    \* where the server has stored the payload, once for each copy
  late       \* a request given up by its sender that the server may execute

vars == <<setup, view, changes, cache, hook, file, work, stored, late>>

(* work: list and request are what it has; sound, that nothing has changed *)
(* since the list was made; trouble, that something failed; misled, that   *)
(* it was told of an error when its payload had been stored, and took that *)
(* for a refusal.                                                          *)
Idle == [place |-> "none", list |-> {}, sound |-> TRUE, trouble |-> FALSE, misled |-> FALSE,
         request |-> [route |-> FALSE, space |-> None]]

NoList == [usable |-> FALSE, list |-> {}, sound |-> TRUE]

Init ==
  /\ setup \in Setups
  /\ view \in Accounts
  /\ changes = 0
  /\ cache = [t \in Transports |-> NoList]
  /\ \E cast \in Casts : hook = [j \in Hooks |-> IF j \in cast THEN "idle" ELSE "ended"]
  /\ file = [j \in Hooks |-> "absent"]
  /\ work = [j \in Hooks |-> Idle]
  /\ stored = [j \in Hooks |-> <<>>]
  /\ late = [j \in Hooks |-> FALSE]

world  == <<setup, view, changes>>
server == <<stored, late>>

-----------------------------------------------------------------------------
(* The hook process.                                                       *)

At(j, p) == work[j].place = p

(* Switched off, no transport, or nothing worth keeping.                   *)
HasNothingToDo(j) ==
  /\ hook[j] = "idle"
  /\ hook' = [hook EXCEPT ![j] = "ended"]
  /\ UNCHANGED <<world, cache, file, work, server>>

Recall(j) ==
  /\ hook[j] = "idle" /\ j \in Recalls
  /\ hook' = [hook EXCEPT ![j] = "working"]
  /\ work' = [work EXCEPT ![j].place = "target"]
  /\ UNCHANGED <<world, cache, file, server>>

(* _spawn_send                                                             *)
MakeFile(j) ==
  /\ hook[j] = "idle" /\ j \in Pushes
  /\ hook' = [hook EXCEPT ![j] = "writing"]
  /\ file' = [file EXCEPT ![j] = "partial"]
  /\ UNCHANGED <<world, cache, work, server>>

WriteFile(j) ==
  /\ hook[j] = "writing"
  /\ hook' = [hook EXCEPT ![j] = "spawning"]
  /\ file' = [file EXCEPT ![j] = "full"]
  /\ UNCHANGED <<world, cache, work, server>>

Spawn(j) ==
  /\ hook[j] = "spawning"
  /\ hook' = [hook EXCEPT ![j] = "ended"]
  /\ work' = [work EXCEPT ![j].place = "read"]
  /\ UNCHANGED <<world, cache, file, server>>

(* No space on the disk, no process (the error is swallowed), or the hook  *)
(* is killed.                                                              *)
PushStops(j) ==
  /\ hook[j] \in {"writing", "spawning"}
  /\ hook' = [hook EXCEPT ![j] = "stopped"]
  /\ UNCHANGED <<world, cache, file, work, server>>

RecallEnds(j) ==
  /\ hook[j] = "working" /\ At(j, "done")
  /\ hook' = [hook EXCEPT ![j] = "ended"]
  /\ UNCHANGED <<world, cache, file, work, server>>

-----------------------------------------------------------------------------
(* The child, and the recall.                                              *)

Goto(j, p)   == work' = [work EXCEPT ![j].place = p]
Trouble(j, p) == work' = [work EXCEPT ![j].place = p, ![j].trouble = TRUE]

ReadPayload(j) ==
  /\ At(j, "read") /\ file[j] = "full"
  /\ Goto(j, "unlink")
  /\ UNCHANGED <<world, cache, hook, file, server>>

\* Mutant: no cleanup when the file cannot be read.
ReadFailsForGood(j) ==
  /\ At(j, "read")
  /\ Trouble(j, "done")
  /\ UNCHANGED <<world, cache, hook, file, server>>

ReadFails(j) ==
  /\ At(j, "read")
  /\ Trouble(j, "cleanup")
  /\ UNCHANGED <<world, cache, hook, file, server>>

Unlink(j) ==
  /\ At(j, "unlink")
  /\ file' = [file EXCEPT ![j] = "absent"]
  /\ Goto(j, "target")
  /\ UNCHANGED <<world, cache, hook, server>>

UnlinkFails(j) ==
  /\ At(j, "unlink")
  /\ Trouble(j, "cleanup")
  /\ UNCHANGED <<world, cache, hook, file, server>>

(* _spaces: the cache, if it can be read and is not too old.               *)
HasList == cache[setup.via].usable

Pinned(j) ==
  /\ At(j, "target") /\ setup.pinned # None
  /\ Goto(j, "select")
  /\ UNCHANGED <<world, cache, hook, file, server>>

TakeCached(j) ==
  /\ At(j, "target") /\ setup.pinned = None /\ HasList
  /\ work' = [work EXCEPT ![j].place = "select", ![j].list = cache[setup.via].list,
                          ![j].sound = cache[setup.via].sound]
  /\ UNCHANGED <<world, cache, hook, file, server>>

Entries(names, how) == [name : names, qualified : {how}]

\* Mutant: an entry without a space_id is not left out.
ListingWithNameless ==
  Entries((view.own \ view.shared) \cup {None}, FALSE) \cup Entries(view.own \cap view.shared, TRUE)

(* Own spaces; one that shares its name with a share is listed qualified.  *)
Listing ==
  Entries(view.own \ view.shared, FALSE) \cup Entries(view.own \cap view.shared, TRUE)

AskForList(j) ==
  /\ At(j, "target") /\ setup.pinned = None /\ ~HasList
  /\ \/ work' = [work EXCEPT ![j].place = "save", ![j].list = Listing, ![j].sound = TRUE]
     \/ Trouble(j, "select")
  /\ UNCHANGED <<world, cache, hook, file, server>>

(* write_text truncates first.                                             *)
Truncate(j) ==
  /\ At(j, "save")
  /\ cache' = [cache EXCEPT ![setup.via] = NoList]
  /\ Goto(j, "fill")
  /\ UNCHANGED <<world, hook, file, server>>

(* Two that write at the same time may mix their texts.                    *)
Fill(j) ==
  /\ At(j, "fill")
  /\ LET new == [usable |-> TRUE, list |-> work[j].list, sound |-> work[j].sound] IN
       \E text \in {new} \cup IF \E k \in Hooks \ {j} : At(k, "fill") THEN {NoList} ELSE {} :
         cache' = [cache EXCEPT ![setup.via] = text]
  /\ Goto(j, "select")
  /\ UNCHANGED <<world, hook, file, server>>

SaveFails(j) ==
  /\ \E p \in {"save", "fill"} : At(j, p)
  /\ Goto(j, "select")
  /\ UNCHANGED <<world, cache, hook, file, server>>

(* _own_match: by exact name if there is one.                              *)
Matches(list) ==
  LET exact == {s \in list : s.name = Home} IN IF exact # {} THEN exact ELSE list

Bare(n) == [name |-> n, qualified |-> FALSE]

\* Mutant: a write without an own space names the repository.
TargetOrHome(list, read) ==
  IF setup.pinned # None THEN {[route |-> FALSE, space |-> Bare(setup.pinned)]}
  ELSE {[route |-> FALSE, space |-> s] :
          s \in IF list = {} THEN {Bare(Home)} ELSE Matches(list)}

(* target: the request's space; no answer if a write must not happen.      *)
Target(list, read) ==
  LET auto == setup.mode = "auto"
      routes == auto \/ (read /\ setup.mode # "off" /\ Cardinality(list) > 1)
      spaces == IF list # {} THEN Matches(list)
                ELSE IF read THEN {IF routes THEN None ELSE Bare(Home)} ELSE {}
  IN  IF setup.pinned # None THEN {[route |-> FALSE, space |-> Bare(setup.pinned)]}
      ELSE {[route |-> routes, space |-> s] : s \in spaces}

Select(j) ==
  /\ At(j, "select")
  /\ LET requests == Target(work[j].list, j \in Recalls) IN
       IF requests = {}
         THEN Goto(j, "cleanup")
         ELSE \E r \in requests :
                work' = [work EXCEPT ![j].place = "posted", ![j].request = r, ![j].list = {}]
  /\ UNCHANGED <<world, cache, hook, file, server>>

(* The space a record ends up in: that of its name, the user's own or one  *)
(* shared with him, or a new one; or any, if Anona is asked to choose.     *)
Reach(r) ==
  LET own    == IF r.space.name \in view.own THEN {"own"} ELSE {}
      shared == IF r.space.name \in view.shared /\ ~r.space.qualified THEN {"shared"} ELSE {}
  IN  CASE r.route -> IF view.own \cup view.shared = {} THEN {} ELSE {"routed"}
        [] ~r.route /\ own \cup shared # {} -> own \cup shared
        [] OTHER -> IF r.space.qualified THEN {} ELSE {"new"}

Stores(j) ==
  \E place \in Reach(work[j].request) : stored' = [stored EXCEPT ![j] = Append(@, place)]

Posted(j) == At(j, "posted") /\ j \in Pushes

Record(j) ==
  /\ Posted(j)
  /\ Stores(j)
  /\ Goto(j, "cleanup")
  /\ UNCHANGED <<world, cache, hook, file, late>>

(* The fallback space, after a definite refusal to choose one.             *)
Fallback(j) == [route |-> FALSE, space |-> work[j].request.space]

\* Mutant: a refusal to choose is final.
RefuseForGood(j) ==
  /\ Posted(j) /\ work[j].request.route
  /\ Goto(j, "cleanup")
  /\ UNCHANGED <<world, cache, hook, file, server>>

(* no_route_target, or over MCP any error of the tool, nothing having been *)
(* or being stored.                                                        *)
RefuseToRoute(j) ==
  /\ Posted(j) /\ work[j].request.route
  /\ work' = [work EXCEPT ![j].request = Fallback(j)]
  /\ UNCHANGED <<world, cache, hook, file, server>>

(* Over MCP an error of the tool counts as a refusal although the server   *)
(* has stored, or is still storing, the payload: it is sent again.         *)
MistakeForRefusal(j) ==
  /\ Posted(j) /\ work[j].request.route
  /\ setup.via = "mcp"
  /\ Stores(j)
  /\ work' = [work EXCEPT ![j].request = Fallback(j), ![j].misled = TRUE]
  /\ UNCHANGED <<world, cache, hook, file, late>>

(* An error that is not a refusal to choose a space, nothing having been   *)
(* stored: it is final.                                                    *)
Refuse(j) ==
  /\ Posted(j)
  /\ setup.via = "rest" \/ ~work[j].request.route
  /\ Trouble(j, "cleanup")
  /\ UNCHANGED <<world, cache, hook, file, server>>

\* Mutant: an unknown outcome is retried like a refusal.
LoseAndRetry(j) ==
  /\ Posted(j)
  /\ Stores(j) \/ UNCHANGED stored
  /\ IF work[j].request.route
       THEN work' = [work EXCEPT ![j].request = Fallback(j), ![j].trouble = TRUE]
       ELSE Trouble(j, "cleanup")
  /\ UNCHANGED <<world, cache, hook, file, late>>

(* The answer is lost, or tells of an error that is final, and the payload *)
(* was stored or not.                                                      *)
Lose(j) ==
  /\ Posted(j)
  /\ Stores(j) \/ UNCHANGED stored
  /\ Trouble(j, "cleanup")
  /\ UNCHANGED <<world, cache, hook, file, late>>

(* The sender's time is up; the server may still store the payload.        *)
GiveUp(j) ==
  /\ Posted(j)
  /\ late' = [late EXCEPT ![j] = TRUE]
  /\ Trouble(j, "cleanup")
  /\ UNCHANGED <<world, cache, hook, file, stored>>

StoreLate(j) ==
  /\ late[j]
  /\ late' = [late EXCEPT ![j] = FALSE]
  /\ Stores(j)
  /\ UNCHANGED <<world, cache, hook, file, work>>

(* retrieve: a block, or nothing.                                          *)
Recalled(j) ==
  /\ At(j, "posted") /\ j \in Recalls
  /\ Goto(j, "cleanup")
  /\ UNCHANGED <<world, cache, hook, file, server>>

(* An unlink that fails is passed over.                                    *)
Cleanup(j) ==
  /\ At(j, "cleanup")
  /\ \E f \in {"absent"} \cup IF file[j] = "absent" THEN {} ELSE {"stuck"} :
       file' = [file EXCEPT ![j] = f]
  /\ Goto(j, "done")
  /\ UNCHANGED <<world, cache, hook, server>>

-----------------------------------------------------------------------------
(* What happens to them.                                                   *)

KillRecall(j) ==
  /\ hook[j] = "working"
  /\ hook' = [hook EXCEPT ![j] = "stopped"]
  /\ work' = [work EXCEPT ![j] = [Idle EXCEPT !.place = "killed"]]
  /\ UNCHANGED <<world, cache, file, server>>

(* The request it has sent may be executed all the same.                   *)
KillChild(j) ==
  /\ j \in Pushes /\ work[j].place \notin {"none", "done", "killed"}
  /\ late' = [late EXCEPT ![j] = @ \/ At(j, "posted")]
  /\ work' = [work EXCEPT ![j].place = "killed", ![j].list = {}, ![j].trouble = TRUE]
  /\ UNCHANGED <<world, cache, hook, file, stored>>

(* The user makes, deletes or renames a space, is given a share, or uses   *)
(* the key of another account.                                             *)
ViewChanges ==
  /\ changes < MaxChanges
  /\ changes' = changes + 1
  /\ view' \in Accounts
  /\ work' = [j \in Hooks |-> [work[j] EXCEPT !.sound = FALSE]]
  /\ cache' = [t \in Transports |-> [cache[t] EXCEPT !.sound = FALSE]]
  /\ UNCHANGED <<setup, hook, file, server>>

(* SPACES_CACHE_TTL                                                        *)
CacheAges(t) ==
  /\ cache[t].usable
  /\ cache' = [cache EXCEPT ![t] = NoList]
  /\ UNCHANGED <<world, hook, file, work, server>>

-----------------------------------------------------------------------------
HookStep(j) == WriteFile(j) \/ Spawn(j) \/ PushStops(j) \/ RecallEnds(j)

WorkStep(j) ==
  \/ ReadPayload(j) \/ ReadFails(j) \/ Unlink(j) \/ UnlinkFails(j)
  \/ Pinned(j) \/ TakeCached(j) \/ AskForList(j)
  \/ Truncate(j) \/ Fill(j) \/ SaveFails(j) \/ Select(j)
  \/ Record(j) \/ RefuseToRoute(j) \/ MistakeForRefusal(j) \/ Refuse(j) \/ Lose(j)
  \/ GiveUp(j)
  \/ Recalled(j) \/ Cleanup(j)

Next ==
  \/ \E j \in Hooks :
       \/ HasNothingToDo(j) \/ Recall(j) \/ MakeFile(j)
       \/ HookStep(j) \/ WorkStep(j) \/ StoreLate(j) \/ KillRecall(j) \/ KillChild(j)
  \/ ViewChanges
  \/ \E t \in Transports : CacheAges(t)

(* A process that runs keeps running until it is killed, and its requests  *)
(* have time limits.                                                       *)
Fairness == \A j \in Hooks : WF_vars(HookStep(j)) /\ WF_vars(WorkStep(j))

Spec == Init /\ [][Next]_vars /\ Fairness

=============================================================================
