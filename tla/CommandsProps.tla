---------------------------- MODULE CommandsProps ----------------------------
(***************************************************************************)
(* What a data command and the SDK promise about the requests they make.   *)
(***************************************************************************)
EXTENDS Commands

Once(c) == cmd[c].call.verb \in {"POST", "PATCH"}
Done(c) == cmd[c].place = "done"

Places == {"idle", "sent", "answered", "done"}
Exits  == {"none", "OK", "FAILED", "USAGE", "NOTHING_STORED", "AUTH", "NOT_FOUND",
           "RATE_LIMITED", "UNAVAILABLE", "STILL_RUNNING", "RAISED"}
Records   == [Fields -> Cmds \cup {Null}]
JobStates == {"none", "running"} \cup FinalJob

States ==
  [script : Scripts, call : Calls, field : Fields \cup {Null}, renewable : BOOLEAN,
   place : Places, step : {"read", "write", "poll"}, attempt : 0..MaxRetries,
   status : Statuses, renewed : BOOLEAN, expired : BOOLEAN, exit : Exits,
   seen : Records, todo : SUBSET Jobs, saw : [Jobs -> JobStates]]

TypeOK ==
  /\ cmd \in [Cmds -> States]
  /\ doc \in Records
  /\ present \in BOOLEAN
  /\ ran \in [Cmds -> 0..Many]
  /\ late \in [Cmds -> BOOLEAN]
  /\ job \in [Cmds -> [Jobs -> JobStates]]
  /\ fresh \in [Cmds -> BOOLEAN]

(* "a blind re-send of `POST /v1/record` double-writes" (client.py 239),   *)
(* and "a write would land twice" were submit and polls one function       *)
(* (jobs.py 9): whatever is retried, renewed, polled or executed late, the *)
(* server runs a POST or PATCH of one command at most once.                *)
AtMostOnce == \A c \in Cmds : Once(c) => ran[c] + (IF late[c] THEN 1 ELSE 0) <= 1

(* A script that reads the exit code may act on it (exits.py): success     *)
(* means that the write was executed, and any failure of a POST or PATCH   *)
(* but "unavailable" and a traceback that it was not and never will be,    *)
(* unless the write was answered and only a poll failed.                   *)
ExitTellsTheWrite ==
  \A c \in Cmds : Done(c) =>
    /\ cmd[c].exit \in {"OK", "NOTHING_STORED", "STILL_RUNNING"} => ran[c] > 0
    /\ cmd[c].step = "poll" => ran[c] > 0
    /\ Once(c) /\ cmd[c].step # "poll"
         /\ cmd[c].exit \in {"FAILED", "AUTH", "NOT_FOUND", "RATE_LIMITED"}
         => ran[c] = 0 /\ ~late[c]

(* --wait: success means that every job has ended, none of them as failed, *)
(* cancelled or lost, and, but for an upload, that not all of them said    *)
(* that no memory was stored; "nothing stored" that all of them did;       *)
(* "still running" that the time was up.                                   *)
WaitTellsTheTruth ==
  \A c \in Cmds : Done(c) /\ cmd[c].step = "poll" =>
    LET now == {job[c][j] : j \in JobIds(c)} IN
    /\ cmd[c].exit = "OK" =>
         /\ now \subseteq {"completed", "empty"}
         /\ cmd[c].call.body # "form" => "completed" \in now
    /\ cmd[c].exit = "NOTHING_STORED" => now = {"empty"}
    /\ cmd[c].exit = "STILL_RUNNING"  => cmd[c].expired

(* "`--empathy 4` must not clear the mission or the other two dials"       *)
(* (resources.py 611): a write of `set` or `edit` changes a field that was *)
(* not named only if somebody wrote the record since it was read, not      *)
(* because of a retry, a renewal or a late execution of its own.           *)
SetKeepsOthers ==
  [][\A c \in Cmds :
       /\ cmd[c].script = "merge" /\ fresh[c] /\ doc' # doc
       /\ cmd'[c] # cmd[c] \/ late'[c] # late[c]
       => \A f \in Fields \ {cmd[c].field} : doc'[f] = doc[f]]_vars

Repeated(c) == ran[c] = Many /\ Once(c)

\* Only a POST or PATCH is counted: the others may be repeated.
Fate == [c \in Cmds |->
  IF ran[c] = 0 THEN IF Done(c) /\ ~late[c] THEN "void" ELSE "open"
  ELSE IF Repeated(c) THEN "twice" ELSE "done"]

\* What the exit code says of the write, to somebody who knows the command
\* and whether it had come to waiting for its jobs.
Word == [c \in Cmds |->
  IF ~Done(c) THEN "none"
  ELSE IF cmd[c].step = "poll" \/ cmd[c].exit \in {"OK", "NOTHING_STORED", "STILL_RUNNING"}
    THEN "yes"
  ELSE IF cmd[c].exit = "USAGE"
          \/ (Once(c) /\ cmd[c].exit \in {"FAILED", "AUTH", "NOT_FOUND", "RATE_LIMITED"})
    THEN "no"
  ELSE "unknown"]

Deliveries == INSTANCE Delivery WITH Items <- Cmds, fate <- Fate, word <- Word

(* All attempts, renewals, lost answers, late executions and polls of a    *)
(* command amount to one delivery (Delivery): a POST or PATCH takes effect *)
(* once at most, the exit is final, and after one that says "no" no        *)
(* execution follows, whenever the server gets round to it.                *)
OneDelivery == Deliveries!DSpec

(* What is left to do for a command, the most important first: how far it  *)
(* is, whether it still waits at all, the polls of this round, whether the *)
(* last one's answer is still to be looked at, a renewal, the read of a    *)
(* merge, attempts, and an answer.                                         *)
Flag(b) == IF b THEN 1 ELSE 0

Phase(d) ==
  CASE d.place = "idle" -> 3
    [] d.place = "done" -> 0
    [] OTHER            -> IF d.step = "poll" THEN 1 ELSE 2

Left(d) ==
  <<Phase(d), Flag(~d.expired), IF d.step = "poll" THEN Cardinality(d.todo) ELSE 0,
    Flag(d.step = "poll" /\ d.place = "answered" /\ d.status \in Good),
    Flag(d.renewable /\ ~d.renewed), Flag(d.step = "read"), MaxRetries - d.attempt,
    Flag(d.place = "sent")>>

Less(r, s) == \E k \in 1..8 : r[k] < s[k] /\ \A i \in 1..(k - 1) : r[i] = s[i]

NewRound(c) ==
  /\ cmd[c].step = "poll" /\ cmd[c].todo = {} /\ ~cmd[c].expired
  /\ cmd'[c].todo = Pending(c) /\ Pending(c) # {}

(* "renews it once and retries once -- never a loop" (memory.py 238): with *)
(* the attempts of every request (client.py) and the time limit of a wait, *)
(* whatever is answered, each step of a command leaves it less to do,      *)
(* unless it polls jobs again that still run before the time is up.  A     *)
(* merge that a renewal takes back to its read is not renewed again.       *)
LeavesLess ==
  [][\A c \in Cmds : cmd'[c] # cmd[c] => Less(Left(cmd'[c]), Left(cmd[c])) \/ NewRound(c)]_vars

(* Whatever the server answers, and if no job ever settles, a command ends.*)
EveryCommandEnds ==
  \A c \in Cmds : cmd[c].place # "idle" ~> cmd[c].place = "done"

(* "The SDK's contract is that every call either returns or raises         *)
(* AnonaError - a caller catches one type" (client.py 208).                *)
OnlyAnonaErrors == \A c \in Cmds : cmd[c].exit # "RAISED"

=============================================================================
