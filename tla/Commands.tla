------------------------------ MODULE Commands ------------------------------
(***************************************************************************)
(* What becomes of one request of a data command or of a program that uses *)
(* AnonaClient: the transport's retries (anona/client.py), the one renewal *)
(* after a 401 (cli/memory.py, _invoke), commands that read a record and   *)
(* write it back (cli/verbs.py, cli/resources.py), the wait for the jobs   *)
(* of a queued write (cli/jobs.py) and the exit code (cli/exits.py).       *)
(*                                                                         *)
(* A command runs one of three scripts: "one" request; "merge", a read and *)
(* a write that may both be repeated by a renewal; "wait", a write and     *)
(* then polls, each of which renews on its own.                            *)
(*                                                                         *)
(* The server may answer anything at any time, execute a request and fail  *)
(* to say so, or execute it after its sender has given up.                 *)
(***************************************************************************)
EXTENDS Naturals, FiniteSets

CONSTANTS
  Cmds,        \* the commands under way
  Workloads,   \* what they may be: a set of functions from Cmds to Offers
  Fields,      \* the fields of a settings record or a profile
  Jobs,        \* the jobs a queued write may be split into
  MaxRetries,  \* max_retries of AnonaClient
  Null         \* an unset field

Verbs   == {"GET", "POST", "PUT", "PATCH", "DELETE"}
Effects == {"read", "ask", "create", "store", "replace", "change", "reset", "remove"}
Calls   == [verb : Verbs, body : {"none", "given", "whole", "form"}, effect : Effects,
            check : {"none", "local", "yes"}]
Scripts == {"none", "one", "merge", "wait"}     \* "none": no command
Offers  == [script : Scripts, call : Calls, field : Fields \cup {Null}, renewable : BOOLEAN]

ASSUME CommandsAssumption ==
  /\ Null \notin Cmds
  /\ MaxRetries \in Nat
  /\ IsFiniteSet(Jobs)
  /\ Workloads \subseteq [Cmds -> Offers]

VARIABLES
  cmd,      \* what each command is doing
  doc,      \* at the server: who last set each field of the record
  present,  \* at the server: is the item that Remove names still there
  ran,      \* how often each command's write was executed: 0, 1 or Many
  late,     \* the command has given up and its write may still be executed
  job,      \* at the server: the state of each command's jobs
  fresh     \* nobody has written the record since this command read it

vars == <<cmd, doc, present, ran, late, job, fresh>>

Many == 2
Count(n) == IF n = 0 THEN 1 ELSE Many

Get == [verb |-> "GET", body |-> "none", effect |-> "read", check |-> "none"]

Unset == [f \in Fields |-> Null]
NoJob == [j \in Jobs |-> "none"]

(* What an answer can be.  "ok" and "empty" are 2xx (an empty one stored   *)
(* nothing), "denied" 401, "forbidden" 403, "gone" 404, "refused" another  *)
(* 4xx, "limited" and "exhausted" 429, "error" 5xx.  "broken": no answer,  *)
(* or a time-out; "cut": it broke while its body was read.                 *)
Good     == {"ok", "empty"}
NotRun   == {"limited", "exhausted", "denied", "refused", "forbidden", "gone"}
Unknown  == {"error", "broken", "cut"}
Statuses == Good \cup NotRun \cup Unknown

(* "empty" is completed without a memory, "completed" any other: with some,*)
(* with a number that is not given, or with a status that is not known.    *)
FinalJob == {"completed", "empty", "failed", "cancelled", "lost"}

Init ==
  /\ \E w \in Workloads :
       cmd = [c \in Cmds |->
        [script |-> w[c].script, call |-> w[c].call, field |-> w[c].field, renewable |-> w[c].renewable,
         place |-> "idle", step |-> "write", attempt |-> 0, status |-> "ok",
         renewed |-> FALSE, expired |-> FALSE, exit |-> "none",
         seen |-> Unset, todo |-> {}, saw |-> NoJob]]
  /\ doc = Unset
  /\ present = TRUE
  /\ ran = [c \in Cmds |-> 0]
  /\ late = [c \in Cmds |-> FALSE]
  /\ job = [c \in Cmds |-> NoJob]
  /\ fresh = [c \in Cmds |-> FALSE]

-----------------------------------------------------------------------------
(* The record, the item and the jobs at the server.                        *)

Message(c) == IF cmd[c].step = "write" THEN cmd[c].call ELSE Get

OnRecord(call) == call.effect \in {"replace", "change", "reset"}

\* Mutant: only the named field is sent to an endpoint that replaces the record.
WrittenAlone(c) ==
  LET call == cmd[c].call IN
  CASE call.effect = "change" /\ cmd[c].script # "merge" -> [doc EXCEPT ![cmd[c].field] = c]
    [] call.effect = "reset"                             -> Unset
    [] OTHER                                             -> [Unset EXCEPT ![cmd[c].field] = c]

(* What a write makes of the record.  A body that follows a read carries   *)
(* every field; the client's own Replace carries nulls for those not given.*)
Written(c) ==
  LET call == cmd[c].call IN
  IF cmd[c].script = "merge" THEN [cmd[c].seen EXCEPT ![cmd[c].field] = c]
  ELSE CASE call.effect = "replace" -> [Unset EXCEPT ![cmd[c].field] = c]
         [] call.effect = "change"  -> [doc EXCEPT ![cmd[c].field] = c]
         [] OTHER                   -> Unset

(* The server executes c's write.                                          *)
Apply(c) ==
  /\ ran' = [ran EXCEPT ![c] = Count(@)]
  /\ IF OnRecord(cmd[c].call)
       THEN /\ doc' = Written(c)
            /\ fresh' = [d \in Cmds |-> d = c /\ fresh[d]]
       ELSE UNCHANGED <<doc, fresh>>
  /\ present' = (present /\ cmd[c].call.effect # "remove")
  /\ \E ids \in IF cmd[c].script = "wait" THEN SUBSET Jobs ELSE {{}} :
       job' = [job EXCEPT ![c] = [j \in Jobs |-> IF j \in ids THEN "running" ELSE "none"]]

ServerStays == UNCHANGED <<doc, present, ran, late, job, fresh>>

Answer(c, s) == cmd' = [cmd EXCEPT ![c].place = "answered", ![c].status = s]

(* Answers of a server that has not executed the request.                  *)
Refuse(c) ==
  /\ cmd[c].place = "sent"
  /\ \E s \in NotRun \cup {"error"} : Answer(c, s)
  /\ ServerStays

(* A write is executed and answered, or executed without an answer.        *)
Execute(c) ==
  /\ cmd[c].place = "sent" /\ cmd[c].step = "write"
  /\ cmd[c].call.effect = "remove" => present
  /\ Apply(c)
  /\ \E s \in {"ok"} \cup Unknown
              \cup (IF cmd[c].call.effect = "store" /\ cmd[c].script = "one"
                      THEN {"empty"} ELSE {}) :
       Answer(c, s)
  /\ UNCHANGED late

(* The read of a merge.                                                    *)
ShowRecord(c) ==
  /\ cmd[c].place = "sent" /\ cmd[c].step = "read"
  /\ cmd' = [cmd EXCEPT ![c].place = "answered", ![c].status = "ok", ![c].seen = doc]
  /\ fresh' = [fresh EXCEPT ![c] = TRUE]
  /\ UNCHANGED <<doc, present, ran, late, job>>

(* A poll of one job of the round.                                         *)
ShowJob(c) ==
  /\ cmd[c].place = "sent" /\ cmd[c].step = "poll"
  /\ \E j \in cmd[c].todo :
       cmd' = [cmd EXCEPT ![c].place = "answered", ![c].status = "ok",
                          ![c].saw[j] = job[c][j], ![c].todo = @ \ {j}]
  /\ ServerStays

Idempotent == {"GET", "PUT", "DELETE"}

\* Mutant: a 5xx is retried for every method.
RetryAny(c) ==
  /\ cmd[c].attempt < MaxRetries
  /\ Message(c).body # "form"
  /\ cmd[c].status \in {"limited", "error"}

(* _RetryPolicy.should_retry_response                                      *)
ShouldRetry(c) ==
  /\ cmd[c].attempt < MaxRetries
  /\ Message(c).body # "form"
  /\ \/ cmd[c].status = "limited"
     \/ cmd[c].status = "error" /\ Message(c).verb \in Idempotent

(* The connection fails, the time is up, the answer breaks off, or the     *)
(* edge answers 5xx for a server that is still at work (client.py 143).  A *)
(* write that has not been executed may be executed later.  When it is     *)
(* sent again, which only a PUT or DELETE is, this is left to the attempt  *)
(* that follows: both carry the same.                                      *)
Lose(c) ==
  /\ cmd[c].place = "sent"
  /\ \E s \in Unknown,
        l \in IF cmd[c].step = "write" THEN BOOLEAN ELSE {FALSE} :
       /\ Answer(c, s)
       /\ l => s # "cut" /\ ~ShouldRetry(c)'
       /\ late' = [late EXCEPT ![c] = l]
  /\ UNCHANGED <<doc, present, ran, job, fresh>>

ExecuteLate(c) ==
  /\ late[c]
  /\ Apply(c)
  /\ late' = [late EXCEPT ![c] = FALSE]
  /\ UNCHANGED cmd

Settle(c) ==
  /\ \E j \in Jobs : /\ job[c][j] = "running"
                     /\ \E s \in FinalJob : job' = [job EXCEPT ![c][j] = s]
  /\ UNCHANGED <<cmd, doc, present, ran, late, fresh>>

-----------------------------------------------------------------------------
(* The command.                                                            *)

First(script) == IF script = "merge" THEN "read" ELSE "write"

(* The exit; what no longer matters is forgotten.                          *)
Finish(c, code) ==
  cmd' = [cmd EXCEPT ![c].place = "done", ![c].exit = code, ![c].renewable = FALSE,
                     ![c].renewed = FALSE, ![c].attempt = 0, ![c].status = "ok",
                     ![c].todo = {}, ![c].saw = NoJob,
                     ![c].seen = IF late[c] THEN @ ELSE Unset]

Start(c) ==
  /\ cmd[c].place = "idle" /\ cmd[c].script # "none"
  /\ cmd' = [cmd EXCEPT ![c].call.check = "none", ![c].place = "sent",
                        ![c].step = First(cmd[c].script)]
  /\ ServerStays

(* A usage error, or a destructive command without --yes: nothing is sent. *)
RefuseLocally(c) ==
  /\ cmd[c].place = "idle" /\ cmd[c].call.check # "none"
  /\ Finish(c, "USAGE")
  /\ ServerStays

\* Mutant: the attempts are not counted.
RetryUncounted(c) ==
  /\ cmd[c].place = "answered" /\ ShouldRetry(c)
  /\ cmd' = [cmd EXCEPT ![c].place = "sent"]
  /\ ServerStays

Retry(c) ==
  /\ cmd[c].place = "answered" /\ ShouldRetry(c)
  /\ cmd' = [cmd EXCEPT ![c].place = "sent", ![c].attempt = @ + 1]
  /\ ServerStays

Answered(c) == cmd[c].place = "answered" /\ ~ShouldRetry(c)

\* Mutant: the write of a merge has a renewal of its own.
ProceedAnew(c, step, todo) ==
  cmd' = [cmd EXCEPT ![c].place = "sent", ![c].step = step, ![c].attempt = 0, ![c].todo = todo,
                     ![c].renewed = FALSE]

(* The next request of the command is sent; _invoke has a renewal for each *)
(* poll, and one for the read and the write of a merge.                    *)
Proceed(c, step, todo) ==
  cmd' = [cmd EXCEPT ![c].place = "sent", ![c].step = step, ![c].attempt = 0, ![c].todo = todo,
                     ![c].renewed = @ /\ step = "write"]

JobIds(c)  == {j \in Jobs : job[c][j] # "none"}
Pending(c) == {j \in Jobs : cmd[c].saw[j] = "running"}

\* Mutant: `all` for `any`.
OutcomeOfAll(c) ==
  LET saw == {cmd[c].saw[j] : j \in Jobs} \ {"none"} IN
  CASE saw = {"running"}                            -> "STILL_RUNNING"
    [] saw \subseteq {"failed", "cancelled"}        -> "FAILED"
    [] saw = {"lost"}                               -> "NOT_FOUND"
    [] saw = {"empty"} /\ cmd[c].call.body # "form" -> "NOTHING_STORED"
    [] OTHER                                        -> "OK"

(* jobs.outcome and stored_nothing, over the answers of the polls.         *)
Outcome(c) ==
  LET saw == {cmd[c].saw[j] : j \in Jobs} \ {"none"} IN
  IF "running" \in saw THEN "STILL_RUNNING"
  ELSE IF saw \cap {"failed", "cancelled"} # {} THEN "FAILED"
  ELSE IF "lost" \in saw THEN "NOT_FOUND"
  ELSE IF saw = {"empty"} /\ cmd[c].call.body # "form" THEN "NOTHING_STORED"
  ELSE "OK"

Succeed(c) ==
  /\ Answered(c) /\ cmd[c].status \in Good
  /\ CASE cmd[c].step = "read" -> Proceed(c, "write", {})
       [] cmd[c].step = "write" /\ cmd[c].script = "wait" /\ JobIds(c) # {} ->
            Proceed(c, "poll", JobIds(c))
       [] cmd[c].step = "poll" /\ cmd[c].todo # {} -> Proceed(c, "poll", cmd[c].todo)
       [] cmd[c].step = "poll" /\ cmd[c].todo = {} /\ Pending(c) # {} /\ ~cmd[c].expired ->
            Proceed(c, "poll", Pending(c))
       [] cmd[c].step = "poll" /\ cmd[c].todo = {} /\ (Pending(c) = {} \/ cmd[c].expired) ->
            Finish(c, Outcome(c))
       [] OTHER -> Finish(c, IF cmd[c].status = "empty" THEN "NOTHING_STORED" ELSE "OK")
  /\ ServerStays

\* Mutant: a time-out reported as the informational 408 it carries.
ExitOfTimeout(status) ==
  CASE status \in {"denied", "forbidden"}  -> "AUTH"
    [] status = "gone"                     -> "NOT_FOUND"
    [] status \in {"limited", "exhausted"} -> "RATE_LIMITED"
    [] status = "error"                    -> "UNAVAILABLE"
    [] status = "cut"                      -> "RAISED"
    [] OTHER                               -> "FAILED"

(* exits.for_status, and what _invoke does not catch.                      *)
ExitOf(status) ==
  CASE status \in {"denied", "forbidden"}    -> "AUTH"
    [] status = "gone"                       -> "NOT_FOUND"
    [] status \in {"limited", "exhausted"}   -> "RATE_LIMITED"
    [] status \in {"error", "broken"}        -> "UNAVAILABLE"
    [] status = "cut"                        -> "RAISED"
    [] OTHER                                 -> "FAILED"

Renews(c) == cmd[c].status = "denied" /\ cmd[c].renewable /\ ~cmd[c].renewed

Fail(c) ==
  /\ Answered(c) /\ cmd[c].status \notin Good /\ ~Renews(c)
  /\ Finish(c, ExitOf(cmd[c].status))
  /\ ServerStays

\* Mutant: the renewal counts as one more attempt.
RenewCounted(c) ==
  /\ Answered(c) /\ Renews(c)
  /\ cmd' = [cmd EXCEPT ![c].place = "sent", ![c].renewed = TRUE, ![c].attempt = @ + 1,
                        ![c].step = IF @ = "poll" THEN "poll" ELSE First(cmd[c].script)]
  /\ ServerStays

(* The renewed token, and the invoked function from its first request.     *)
Renew(c) ==
  /\ Answered(c) /\ Renews(c)
  /\ cmd' = [cmd EXCEPT ![c].place = "sent", ![c].renewed = TRUE, ![c].attempt = 0,
                        ![c].step = IF @ = "poll" THEN "poll" ELSE First(cmd[c].script)]
  /\ ServerStays

RenewFails(c) ==
  /\ Answered(c) /\ Renews(c)
  /\ \E code \in {"AUTH", "UNAVAILABLE", "FAILED"} : Finish(c, code)
  /\ ServerStays

(* --wait-timeout.                                                         *)
Expire(c) ==
  /\ cmd[c].step = "poll" /\ cmd[c].place # "done" /\ ~cmd[c].expired
  /\ cmd' = [cmd EXCEPT ![c].expired = TRUE]
  /\ ServerStays

-----------------------------------------------------------------------------
Serve(c) == Refuse(c) \/ Execute(c) \/ ShowRecord(c) \/ ShowJob(c) \/ Lose(c)

Work(c) ==
  \/ Retry(c) \/ Succeed(c) \/ Fail(c) \/ Renew(c) \/ RenewFails(c)

Next ==
  \E c \in Cmds :
    Start(c) \/ RefuseLocally(c) \/ Work(c) \/ Serve(c) \/ ExecuteLate(c) \/ Settle(c) \/ Expire(c)

(* A command keeps running, the request's time limit ends every wait for   *)
(* an answer, and clocks advance.  Nobody has to start a command; no job   *)
(* has to settle.                                                          *)
Fairness ==
  \A c \in Cmds : WF_vars(Work(c)) /\ WF_vars(Serve(c)) /\ WF_vars(Expire(c))

Spec == Init /\ [][Next]_vars /\ Fairness

=============================================================================
