---------------------------- MODULE HookSendProps ----------------------------
(***************************************************************************)
(* What the hooks promise about the text they send.                        *)
(***************************************************************************)
EXTENDS HookSend, Integers

WorkPlaces == {"none", "read", "unlink", "target", "save", "fill", "select", "posted", "cleanup",
               "done", "killed"}

Work == [place : WorkPlaces, list : SUBSET Selectors, sound : BOOLEAN, trouble : BOOLEAN,
         misled : BOOLEAN, request : Requests]

TypeOK ==
  /\ setup \in Settings /\ view \in Views /\ changes \in 0..MaxChanges
  /\ cache \in [Transports -> Caches]
  /\ hook \in [Hooks -> {"idle", "writing", "spawning", "working", "ended", "stopped"}]
  /\ file \in [Hooks -> {"absent", "partial", "full", "stuck"}]
  /\ work \in [Hooks -> Work]
  /\ stored \in [Hooks -> Seq({"own", "shared", "new", "routed"})]
  /\ late \in [Hooks -> BOOLEAN]

(* The copies of a payload, but for one of which the child was told that   *)
(* it had been refused.                                                    *)
Copies(j) == Len(stored[j]) - (IF work[j].misled THEN 1 ELSE 0)

(* "Never retried on an unknown outcome" (anona_sync.py 847): a payload is *)
(* stored once at most, also if the server executes a request after the    *)
(* child has given it up.  Over MCP this is not so: each error of the tool *)
(* counts as a refusal (424), and a payload that Anona was to place and    *)
(* had placed before the error is stored a second time, but no more.       *)
AtMostOneCopy ==
  \A j \in Hooks :
    /\ Len(stored[j]) + (IF late[j] THEN 1 ELSE 0) <= IF work[j].misled THEN 2 ELSE 1
    /\ work[j].misled => setup.via = "mcp" /\ setup.mode = "auto"

(* "Writes go only to a space confirmed to be the caller's own"            *)
(* (anona_sync.py 506): while neither the account nor its spaces change    *)
(* after they were listed, what no setting has sent elsewhere is stored in *)
(* an own space, never in a share and never in a new one, with whatever    *)
(* list another hook has left in the cache; and Anona is left to choose    *)
(* only if the settings say so (513), as it may be for a recall anyway.    *)
(* After a change, for up to an hour, it may be stored elsewhere.          *)
OwnSpaceOnly ==
  \A j \in Pushes : setup.pinned = None /\ work[j].sound =>
    \A i \in 1..Len(stored[j]) :
      stored[j][i] = "own" \/ (stored[j][i] = "routed" /\ setup.mode = "auto")

(* "file it in the fallback space rather than lose it" (anona_sync.py      *)
(* 847): a child that nothing happens to has stored its payload, unless    *)
(* there is no own space for it; also one that took an error for a refusal *)
(* has stored what it sent after that.                                     *)
NotLost ==
  \A j \in Pushes : At(j, "done") /\ ~work[j].trouble /\ work[j].sound =>
    Copies(j) = 1 \/ (setup.pinned = None /\ view.own = {})

\* Nobody has or will ever have the payload to send it.
Gone(j) ==
  \/ work[j].place \in {"cleanup", "done", "killed"}
  \/ At(j, "none") /\ hook[j] \in {"ended", "stopped"}

Fate == [j \in Hooks |->
  CASE Copies(j) = 0 -> IF Gone(j) /\ ~late[j] THEN "void" ELSE "open"
    [] Copies(j) = 1 -> "done"
    [] OTHER         -> "twice"]

Deliveries == INSTANCE Delivery WITH
  Items <- Hooks, fate <- Fate, word <- [j \in Hooks |-> "none"]

(* File, child, choice of a space, fallback and late storing amount to one *)
(* delivery (Delivery) of which nobody is told: a payload that no hook, no *)
(* child and no request carries any more is never stored.  The copy made   *)
(* before an error over MCP is not counted (AtMostOneCopy): whoever sends  *)
(* the payload again makes one delivery of it all the same.                *)
OneDelivery == Deliveries!DSpec

(* "Never block on the network" (anona_sync.py 20): a push's hook ends     *)
(* without its child.  The child ends too, and "the content is in memory   *)
(* now; never leave it on disk" (836): unless it was killed, the file is   *)
(* gone, or could not be deleted at the end.  Nobody looks for the file of *)
(* a hook that was stopped before it could start its child.                *)
EveryPushEnds ==
  \A j \in Hooks :
    /\ hook[j] \in {"writing", "spawning", "working"} ~> hook[j] \in {"ended", "stopped"}
    /\ At(j, "read") \/ At(j, "target") ~>
         At(j, "killed") \/ (At(j, "done") /\ file[j] \in {"absent", "stuck"})

=============================================================================
