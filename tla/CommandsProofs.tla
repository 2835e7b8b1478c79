---------------------------- MODULE CommandsProofs ----------------------------
(***************************************************************************)
(* For any commands, requests, fields, jobs and number of retries: a POST  *)
(* or PATCH is executed once at most, the exit code tells what became of   *)
(* the write and of its jobs, for good, a record that was read and written *)
(* back keeps what was not named, and no command goes round in a circle.   *)
(***************************************************************************)
EXTENDS CommandsProps, FiniteSetTheorems, TLAPS

Success == {"OK", "NOTHING_STORED", "STILL_RUNNING"}
Failure == {"FAILED", "AUTH", "NOT_FOUND", "RATE_LIMITED"}

(* The write was executed and the command knows.                           *)
Known(c) ==
  \/ cmd[c].step = "poll"
  \/ cmd[c].place = "answered" /\ cmd[c].step = "write" /\ cmd[c].status \in Good
  \/ cmd[c].place = "done" /\ cmd[c].exit \in Success

(* The write was not executed and will not be unless it is sent (again).   *)
Pure(c) ==
  \/ cmd[c].place = "idle" \/ cmd[c].step = "read"
  \/ cmd[c].place = "sent" /\ cmd[c].step = "write"
  \/ cmd[c].place = "answered" /\ cmd[c].step = "write" /\ cmd[c].status \in NotRun
  \/ cmd[c].place = "done" /\ cmd[c].step = "write" /\ cmd[c].exit \in Failure

OnceInv(c) ==
  /\ Known(c) => ran[c] # 0
  /\ Once(c) =>
       /\ ran[c] = 0 \/ (ran[c] = 1 /\ ~late[c])
       /\ Pure(c) => ran[c] = 0 /\ ~late[c]

CommandsInv == TypeOK /\ \A c \in Cmds : OnceInv(c)

-----------------------------------------------------------------------------
(* Types.                                                                  *)

LEMMA CommandsInit == Init => CommandsInv
<1> SUFFICES ASSUME Init PROVE CommandsInv
  OBVIOUS
<1> USE CommandsAssumption DEF Init
<1>1. PICK w \in Workloads :
        cmd = [c \in Cmds |->
          [script |-> w[c].script, call |-> w[c].call, field |-> w[c].field,
           renewable |-> w[c].renewable,
           place |-> "idle", step |-> "write", attempt |-> 0, status |-> "ok",
           renewed |-> FALSE, expired |-> FALSE, exit |-> "none",
           seen |-> Unset, todo |-> {}, saw |-> NoJob]]
  OBVIOUS
<1>2. cmd \in [Cmds -> States]
  <2> SUFFICES ASSUME NEW c \in Cmds PROVE cmd[c] \in States
    BY <1>1
  <2>1. w[c] \in Offers
    OBVIOUS
  <2>2. Unset \in Records /\ NoJob \in [Jobs -> JobStates]
    BY DEF Unset, Records, NoJob, JobStates
  <2> QED BY <1>1, <2>1, <2>2 DEF Offers, States, Places, Statuses, Good, Exits
<1>3. TypeOK
  <2>1. doc \in Records /\ job \in [Cmds -> [Jobs -> JobStates]]
    BY DEF Unset, Records, NoJob, JobStates
  <2> QED BY <1>2, <2>1 DEF TypeOK, Many
<1>4. \A c \in Cmds : OnceInv(c)
  BY <1>1 DEF OnceInv, Known
<1> QED BY <1>3, <1>4 DEF CommandsInv

(* What one command becomes.                                               *)
Only(c) == \A d \in Cmds : d # c => cmd'[d] = cmd[d]

LEMMA Becomes ==
  ASSUME TypeOK, NEW c \in Cmds, NEW s \in States, cmd' = [cmd EXCEPT ![c] = s]
  PROVE  cmd' \in [Cmds -> States] /\ cmd'[c] = s /\ Only(c)
  BY DEF TypeOK, Only

LEMMA Values ==
  /\ Unset \in Records /\ NoJob \in [Jobs -> JobStates] /\ 0 \in 0..MaxRetries
  /\ Places = {"idle", "sent", "answered", "done"} /\ "ok" \in Statuses
  BY CommandsAssumption DEF Unset, Records, NoJob, JobStates, Places, Statuses, Good

LEMMA Finished ==
  ASSUME TypeOK, NEW c \in Cmds, NEW code \in Exits, Finish(c, code)
  PROVE  /\ cmd' \in [Cmds -> States] /\ Only(c)
         /\ cmd'[c].place = "done" /\ cmd'[c].exit = code
         /\ cmd'[c].step = cmd[c].step /\ cmd'[c].call = cmd[c].call
<1> DEFINE seen == IF late[c] THEN cmd[c].seen ELSE Unset
           s == [cmd[c] EXCEPT !.place = "done", !.exit = code, !.renewable = FALSE,
                   !.renewed = FALSE, !.attempt = 0, !.status = "ok", !.todo = {},
                   !.saw = NoJob, !.seen = seen]
<1>1. cmd' = [cmd EXCEPT ![c] = s]
  BY DEF Finish
<1>2. cmd[c] \in States
  BY DEF TypeOK
<1>3. seen \in Records
  <2>1. cmd[c].seen \in Records /\ Unset \in Records
    BY <1>2, Values DEF States
  <2> QED BY <2>1, Zenon
<1> HIDE DEF seen
<1>4. s \in States
  BY <1>2, <1>3, Values DEF States
<1>5. s.place = "done" /\ s.exit = code /\ s.step = cmd[c].step /\ s.call = cmd[c].call
  BY <1>2 DEF States
<1> HIDE DEF s
<1> QED BY <1>1, <1>4, <1>5, Becomes

LEMMA Answers ==
  ASSUME TypeOK, NEW c \in Cmds, NEW s \in Statuses, Answer(c, s)
  PROVE  /\ cmd' \in [Cmds -> States] /\ Only(c)
         /\ cmd'[c].place = "answered" /\ cmd'[c].status = s
         /\ cmd'[c].step = cmd[c].step /\ cmd'[c].call = cmd[c].call
<1> DEFINE t == [cmd[c] EXCEPT !.place = "answered", !.status = s]
<1>1. cmd[c] \in States
  BY DEF TypeOK
<1>2. t \in States
  BY <1>1, Values DEF States
<1>3. t.place = "answered" /\ t.status = s /\ t.step = cmd[c].step /\ t.call = cmd[c].call
  BY <1>1 DEF States
<1>4. cmd' = [cmd EXCEPT ![c] = t]
  BY DEF Answer
<1> HIDE DEF t
<1> QED BY <1>2, <1>3, <1>4, Becomes

LEMMA Proceeds ==
  ASSUME TypeOK, NEW c \in Cmds, NEW step \in {"write", "poll"}, NEW todo \in SUBSET Jobs,
         Proceed(c, step, todo)
  PROVE  /\ cmd' \in [Cmds -> States] /\ Only(c)
         /\ cmd'[c].place = "sent" /\ cmd'[c].step = step /\ cmd'[c].call = cmd[c].call
<1> DEFINE renewed == cmd[c].renewed /\ step = "write"
           s == [cmd[c] EXCEPT !.place = "sent", !.step = step, !.attempt = 0, !.todo = todo,
                               !.renewed = renewed]
<1>1. cmd[c] \in States
  BY DEF TypeOK
<1>2. cmd' = [cmd EXCEPT ![c] = s]
  BY DEF Proceed
<1>3. renewed \in BOOLEAN
  OBVIOUS
<1> HIDE DEF renewed
<1>4. s \in States
  BY <1>1, <1>3, Values DEF States
<1>5. s.place = "sent" /\ s.step = step /\ s.call = cmd[c].call
  BY <1>1 DEF States
<1> HIDE DEF s
<1> QED BY <1>2, <1>4, <1>5, Becomes

LEMMA Applied ==
  ASSUME TypeOK, NEW c \in Cmds, Apply(c)
  PROVE  /\ doc' \in Records /\ present' \in BOOLEAN /\ fresh' \in [Cmds -> BOOLEAN]
         /\ job' \in [Cmds -> [Jobs -> JobStates]]
         /\ ran' \in [Cmds -> 0..Many] /\ ran'[c] = Count(ran[c])
         /\ \A d \in Cmds : d # c => ran'[d] = ran[d]
<1> USE DEF TypeOK
<1>1. cmd[c].seen \in Records /\ cmd[c].field \in Fields \cup {Null}
  BY DEF States
<1>2. /\ [cmd[c].seen EXCEPT ![cmd[c].field] = c] \in Records
      /\ [Unset EXCEPT ![cmd[c].field] = c] \in Records
      /\ [doc EXCEPT ![cmd[c].field] = c] \in Records
  BY <1>1, Values DEF Records
<1>3. Written(c) \in Records
  BY <1>2, Values, Zenon DEF Written
<1>4. doc' \in Records /\ fresh' \in [Cmds -> BOOLEAN]
  <2>1. CASE OnRecord(cmd[c].call)
    BY <1>3, <2>1 DEF Apply
  <2>2. CASE ~OnRecord(cmd[c].call)
    BY <2>2 DEF Apply
  <2> QED BY <2>1, <2>2
<1>5. job' \in [Cmds -> [Jobs -> JobStates]]
  <2>1. PICK ids : job' = [job EXCEPT ![c] = [j \in Jobs |-> IF j \in ids THEN "running" ELSE "none"]]
    BY DEF Apply
  <2>2. [j \in Jobs |-> IF j \in ids THEN "running" ELSE "none"] \in [Jobs -> JobStates]
    BY DEF JobStates
  <2> QED BY <2>1, <2>2
<1>6. Count(ran[c]) \in 0..Many /\ ran' = [ran EXCEPT ![c] = Count(ran[c])]
  BY DEF Apply, Count, Many
<1>7. present' \in BOOLEAN
  BY DEF Apply
<1> QED BY <1>4, <1>5, <1>6, <1>7

-----------------------------------------------------------------------------
(* The steps.  Only c's own need to be looked at.                          *)

LEMMA OneCommand ==
  ASSUME CommandsInv, NEW c \in Cmds, Only(c), OnceInv(c)',
         \A d \in Cmds : d # c => ran'[d] = ran[d] /\ late'[d] = late[d]
  PROVE  \A d \in Cmds : OnceInv(d)'
  BY DEF CommandsInv, OnceInv, Once, Known, Pure, Only

(* Steps that leave the server as it is.                                   *)
LEMMA Quiet ==
  ASSUME CommandsInv, NEW c \in Cmds, ServerStays, cmd' \in [Cmds -> States], Only(c),
         cmd'[c].call.verb = cmd[c].call.verb,
         Known(c)' => Known(c), Once(c) /\ Pure(c)' => Pure(c)
  PROVE  CommandsInv'
<1>1. TypeOK'
  BY DEF CommandsInv, TypeOK, ServerStays
<1>2. OnceInv(c)'
  BY DEF CommandsInv, OnceInv, Once, ServerStays
<1> QED BY <1>1, <1>2, OneCommand DEF CommandsInv, ServerStays

LEMMA StartStep ==
  ASSUME CommandsInv, NEW c \in Cmds, Start(c) \/ RefuseLocally(c)
  PROVE  CommandsInv'
<1> USE DEF CommandsInv
<1>0. cmd[c] \in States /\ cmd[c].call \in Calls
  BY DEF TypeOK, States
<1>1. CASE Start(c)
  <2> DEFINE s == [cmd[c] EXCEPT !.call.check = "none", !.place = "sent",
                                 !.step = First(cmd[c].script)]
  <2>1. [cmd[c].call EXCEPT !.check = "none"] \in Calls
    BY <1>0 DEF Calls
  <2>2. First(cmd[c].script) \in {"read", "write"}
    BY DEF First
  <2>3. s \in States
    BY <1>0, <2>1, <2>2, Values DEF States
  <2>4. s.place = "sent" /\ s.step \in {"read", "write"} /\ s.call.verb = cmd[c].call.verb
    BY <1>0, <2>2 DEF States, Calls
  <2>5. cmd' = [cmd EXCEPT ![c] = s] /\ cmd[c].place = "idle" /\ ServerStays
    BY <1>1 DEF Start
  <2> HIDE DEF s
  <2>6. cmd' \in [Cmds -> States] /\ cmd'[c] = s /\ Only(c)
    BY <2>3, <2>5, Becomes
  <2> QED BY <2>4, <2>5, <2>6, Quiet DEF Known, Pure
<1>2. CASE RefuseLocally(c)
  <2>1. Finish(c, "USAGE") /\ cmd[c].place = "idle" /\ ServerStays
    BY <1>2 DEF RefuseLocally
  <2>2. /\ cmd' \in [Cmds -> States] /\ Only(c)
        /\ cmd'[c].place = "done" /\ cmd'[c].exit = "USAGE"
        /\ cmd'[c].step = cmd[c].step /\ cmd'[c].call = cmd[c].call
    BY <2>1, Finished DEF Exits
  <2> QED BY <2>1, <2>2, Quiet DEF Known, Pure, Success, Failure
<1> QED BY <1>1, <1>2

LEMMA RetryStep ==
  ASSUME CommandsInv, NEW c \in Cmds, Retry(c)
  PROVE  CommandsInv'
<1> DEFINE s == [cmd[c] EXCEPT !.place = "sent", !.attempt = @ + 1]
<1>0. cmd[c] \in States
  BY DEF CommandsInv, TypeOK
<1>1. cmd[c].place = "answered" /\ ShouldRetry(c) /\ ServerStays /\ cmd' = [cmd EXCEPT ![c] = s]
  BY DEF Retry
<1>2. cmd[c].attempt + 1 \in 0..MaxRetries
  BY <1>0, <1>1, CommandsAssumption DEF ShouldRetry, States
<1>3. s \in States
  BY <1>0, <1>2, Values DEF States
<1>4. s.place = "sent" /\ s.step = cmd[c].step /\ s.call = cmd[c].call
  BY <1>0 DEF States
<1> HIDE DEF s
<1>5. cmd' \in [Cmds -> States] /\ cmd'[c] = s /\ Only(c)
  BY <1>1, <1>3, Becomes DEF CommandsInv
(* A POST or PATCH is sent again only if it was limited.                   *)
<1>6. Once(c) /\ cmd[c].step = "write" => cmd[c].status \in NotRun
  BY <1>1 DEF ShouldRetry, Once, Message, Idempotent, NotRun
<1>7. Once(c) /\ Pure(c)' => Pure(c)
  BY <1>1, <1>4, <1>5, <1>6 DEF Pure
<1> QED BY <1>1, <1>4, <1>5, <1>7, Quiet DEF Known

LEMMA FailStep ==
  ASSUME CommandsInv, NEW c \in Cmds, Fail(c) \/ RenewFails(c)
  PROVE  CommandsInv'
<1>0. cmd[c] \in States
  BY DEF CommandsInv, TypeOK
<1>1. PICK code \in Exits :
        /\ Finish(c, code) /\ cmd[c].place = "answered" /\ ServerStays
        /\ code \notin Success /\ (code \in Failure => cmd[c].status \in NotRun)
  <2>1. CASE Fail(c)
    <3>1. cmd[c].status \in NotRun \cup Unknown
      BY <1>0, <2>1 DEF Fail, States, Statuses
    <3>2. /\ ExitOf(cmd[c].status) \in Exits \ Success
          /\ ExitOf(cmd[c].status) \in Failure => cmd[c].status \in NotRun
      BY <3>1 DEF ExitOf, Exits, Success, Failure, NotRun, Unknown
    <3> QED BY <2>1, <3>2 DEF Fail, Answered
  <2>2. CASE RenewFails(c)
    BY <2>2 DEF RenewFails, Answered, Renews, NotRun, Exits, Success
  <2> QED BY <2>1, <2>2
<1>2. /\ cmd' \in [Cmds -> States] /\ Only(c)
      /\ cmd'[c].place = "done" /\ cmd'[c].exit = code
      /\ cmd'[c].step = cmd[c].step /\ cmd'[c].call = cmd[c].call
  BY <1>1, Finished DEF CommandsInv
<1> QED BY <1>1, <1>2, Quiet DEF Known, Pure

LEMMA RenewStep ==
  ASSUME CommandsInv, NEW c \in Cmds, Renew(c)
  PROVE  CommandsInv'
<1> DEFINE step == IF cmd[c].step = "poll" THEN "poll" ELSE First(cmd[c].script)
           s == [cmd[c] EXCEPT !.place = "sent", !.renewed = TRUE, !.attempt = 0, !.step = step]
<1>0. cmd[c] \in States
  BY DEF CommandsInv, TypeOK
<1>1. /\ cmd[c].place = "answered" /\ cmd[c].status = "denied" /\ ServerStays
      /\ cmd' = [cmd EXCEPT ![c] = s]
  BY DEF Renew, Answered, Renews
<1>2. step \in {"read", "write", "poll"} /\ (step = "poll" <=> cmd[c].step = "poll")
  BY <1>0 DEF First, States
<1> HIDE DEF step
<1>3. s \in States
  BY <1>0, <1>2, Values DEF States
<1>4. s.place = "sent" /\ s.step = step /\ s.call = cmd[c].call
  BY <1>0 DEF States
<1> HIDE DEF s
<1>5. cmd' \in [Cmds -> States] /\ cmd'[c] = s /\ Only(c)
  BY <1>1, <1>3, Becomes DEF CommandsInv
<1>6. Known(c)' => Known(c)
  BY <1>2, <1>4, <1>5 DEF Known
<1>7. cmd[c].step # "poll" => Pure(c)
  BY <1>0, <1>1 DEF Pure, NotRun, States
<1>8. Pure(c)' => Pure(c)
  BY <1>2, <1>4, <1>5, <1>7 DEF Pure
<1> QED BY <1>1, <1>4, <1>5, <1>6, <1>8, Quiet

LEMMA SucceedStep ==
  ASSUME CommandsInv, NEW c \in Cmds, Succeed(c)
  PROVE  CommandsInv'
<1>0. cmd[c] \in States /\ TypeOK
  BY DEF CommandsInv, TypeOK
<1>1. cmd[c].place = "answered" /\ cmd[c].status \in Good /\ ServerStays
  BY DEF Succeed, Answered
<1>2. cmd[c].step # "read" => Known(c)
  BY <1>0, <1>1 DEF Known, States
<1>3. ASSUME NEW step \in {"write", "poll"}, NEW todo \in SUBSET Jobs, Proceed(c, step, todo),
             step = "write" <=> cmd[c].step = "read"
      PROVE  CommandsInv'
  <2>1. /\ cmd' \in [Cmds -> States] /\ Only(c)
        /\ cmd'[c].place = "sent" /\ cmd'[c].step = step /\ cmd'[c].call = cmd[c].call
    BY <1>0, <1>3, Proceeds
  <2>2. (Known(c)' => Known(c)) /\ (Pure(c)' => Pure(c))
    BY <1>2, <1>3, <2>1 DEF Known, Pure
  <2> QED BY <1>1, <2>1, <2>2, Quiet
<1>4. ASSUME NEW code \in Exits, Finish(c, code), cmd[c].step # "read",
             code \notin Failure \/ cmd[c].step = "poll"
      PROVE  CommandsInv'
  <2>1. /\ cmd' \in [Cmds -> States] /\ Only(c)
        /\ cmd'[c].place = "done" /\ cmd'[c].exit = code
        /\ cmd'[c].step = cmd[c].step /\ cmd'[c].call = cmd[c].call
    BY <1>0, <1>4, Finished
  <2>2. (Known(c)' => Known(c)) /\ (Pure(c)' => Pure(c))
    BY <1>2, <1>4, <2>1 DEF Known, Pure
  <2> QED BY <1>1, <2>1, <2>2, Quiet
<1>5. JobIds(c) \in SUBSET Jobs /\ Pending(c) \in SUBSET Jobs /\ cmd[c].todo \in SUBSET Jobs
  BY <1>0 DEF JobIds, Pending, States
<1>6. CASE cmd[c].step = "read"
  <2>1. Proceed(c, "write", {})
    BY <1>6 DEF Succeed
  <2> QED BY <1>3, <1>6, <2>1
<1>7. CASE cmd[c].step = "write"
  <2>1. Proceed(c, "poll", JobIds(c)) \/ Finish(c, "NOTHING_STORED") \/ Finish(c, "OK")
    BY <1>7 DEF Succeed
  <2> QED BY <1>3, <1>4, <1>5, <1>7, <2>1 DEF Exits, Failure
<1>8. CASE cmd[c].step = "poll"
  <2>1. \/ \E todo \in SUBSET Jobs : Proceed(c, "poll", todo)
        \/ \E code \in Exits : Finish(c, code)
    <3>1. Outcome(c) \in Exits
      BY DEF Outcome, Exits
    <3>2. \/ Proceed(c, "poll", cmd[c].todo) \/ Proceed(c, "poll", Pending(c))
          \/ Finish(c, Outcome(c)) \/ Finish(c, "NOTHING_STORED") \/ Finish(c, "OK")
      BY <1>8 DEF Succeed
    <3> QED BY <1>5, <3>1, <3>2 DEF Exits
  <2> QED BY <1>3, <1>4, <1>8, <2>1
<1> QED BY <1>0, <1>6, <1>7, <1>8 DEF States

LEMMA ExpireStep ==
  ASSUME CommandsInv, NEW c \in Cmds, Expire(c)
  PROVE  CommandsInv'
<1> DEFINE s == [cmd[c] EXCEPT !.expired = TRUE]
<1>0. cmd[c] \in States
  BY DEF CommandsInv, TypeOK
<1>1. ServerStays /\ cmd' = [cmd EXCEPT ![c] = s]
  BY DEF Expire
<1>2. s \in States
  BY <1>0 DEF States
<1>3. /\ s.place = cmd[c].place /\ s.step = cmd[c].step /\ s.call = cmd[c].call
      /\ s.status = cmd[c].status /\ s.exit = cmd[c].exit
  BY <1>0 DEF States
<1> HIDE DEF s
<1>4. cmd' \in [Cmds -> States] /\ cmd'[c] = s /\ Only(c)
  BY <1>1, <1>2, Becomes DEF CommandsInv
<1> QED BY <1>1, <1>3, <1>4, Quiet DEF Known, Pure

LEMMA ShowStep ==
  ASSUME CommandsInv, NEW c \in Cmds, ShowRecord(c) \/ ShowJob(c)
  PROVE  CommandsInv'
<1>0. cmd[c] \in States /\ TypeOK
  BY DEF CommandsInv, TypeOK
<1>1. PICK s \in States :
        /\ cmd' = [cmd EXCEPT ![c] = s] /\ s.place = "answered" /\ s.status = "ok"
        /\ s.step = cmd[c].step /\ s.call = cmd[c].call /\ cmd[c].step # "write"
  <2>1. CASE ShowRecord(c)
    <3> DEFINE t == [cmd[c] EXCEPT !.place = "answered", !.status = "ok", !.seen = doc]
    <3>1. t \in States
      BY <1>0, Values DEF States, TypeOK
    <3>2. t.place = "answered" /\ t.status = "ok" /\ t.step = cmd[c].step /\ t.call = cmd[c].call
      BY <1>0 DEF States
    <3>3. cmd' = [cmd EXCEPT ![c] = t] /\ cmd[c].step # "write"
      BY <2>1 DEF ShowRecord
    <3> HIDE DEF t
    <3> QED BY <3>1, <3>2, <3>3
  <2>2. CASE ShowJob(c)
    <3>1. PICK j \in cmd[c].todo :
            cmd' = [cmd EXCEPT ![c].place = "answered", ![c].status = "ok",
                               ![c].saw[j] = job[c][j], ![c].todo = @ \ {j}]
      BY <2>2 DEF ShowJob
    <3> DEFINE saw == [cmd[c].saw EXCEPT ![j] = job[c][j]]
               todo == cmd[c].todo \ {j}
               t == [cmd[c] EXCEPT !.place = "answered", !.status = "ok", !.saw = saw,
                                   !.todo = todo]
    <3>2. saw \in [Jobs -> JobStates]
      BY <1>0 DEF States, TypeOK
    <3>3. cmd' = [cmd EXCEPT ![c] = t]
      BY <1>0, <3>1 DEF TypeOK, States
    <3>4. cmd[c].step # "write" /\ todo \in SUBSET Jobs
      BY <1>0, <2>2 DEF ShowJob, States
    <3> HIDE DEF saw, todo
    <3>5. t \in States
      BY <1>0, <3>2, <3>4, Values DEF States
    <3>6. t.place = "answered" /\ t.status = "ok" /\ t.step = cmd[c].step /\ t.call = cmd[c].call
      BY <1>0 DEF States
    <3> HIDE DEF t
    <3> QED BY <3>3, <3>4, <3>5, <3>6
  <2> QED BY <2>1, <2>2
<1>2. cmd' \in [Cmds -> States] /\ cmd'[c] = s /\ Only(c)
  BY <1>0, <1>1, Becomes
<1>3. UNCHANGED <<doc, present, ran, late, job>> /\ fresh' \in [Cmds -> BOOLEAN]
  BY <1>0 DEF ShowRecord, ShowJob, ServerStays, TypeOK
<1>4. TypeOK'
  BY <1>0, <1>2, <1>3 DEF TypeOK
<1>5. cmd[c].place = "sent"
  BY DEF ShowRecord, ShowJob
<1>6. OnceInv(c)'
  <2>1. (Known(c)' => Known(c)) /\ (Pure(c)' => Pure(c)) /\ (Once(c)' <=> Once(c))
    BY <1>1, <1>2, <1>5 DEF Known, Pure, Once
  <2> QED BY <1>3, <2>1 DEF CommandsInv, OnceInv
<1> QED BY <1>2, <1>3, <1>4, <1>6, OneCommand DEF CommandsInv

LEMMA RefuseStep ==
  ASSUME CommandsInv, NEW c \in Cmds, Refuse(c)
  PROVE  CommandsInv'
<1>1. PICK s \in NotRun \cup {"error"} : Answer(c, s)
  BY DEF Refuse
<1>2. /\ cmd' \in [Cmds -> States] /\ Only(c)
      /\ cmd'[c].place = "answered" /\ cmd'[c].status = s
      /\ cmd'[c].step = cmd[c].step /\ cmd'[c].call = cmd[c].call
  BY <1>1, Answers DEF CommandsInv, Statuses, Unknown
<1>3. cmd[c].place = "sent" /\ ServerStays /\ s \notin Good
  BY DEF Refuse, NotRun, Good
<1> QED BY <1>2, <1>3, Quiet DEF Known, Pure

LEMMA LoseStep ==
  ASSUME CommandsInv, NEW c \in Cmds, Lose(c)
  PROVE  CommandsInv'
<1>0. TypeOK /\ cmd[c].place = "sent" /\ UNCHANGED <<doc, present, ran, job, fresh>>
  BY DEF CommandsInv, Lose
<1>1. PICK s \in Unknown, l \in BOOLEAN :
        Answer(c, s) /\ late' = [late EXCEPT ![c] = l] /\ (l => cmd[c].step = "write")
  BY DEF Lose
<1>2. /\ cmd' \in [Cmds -> States] /\ Only(c)
      /\ cmd'[c].place = "answered" /\ cmd'[c].status = s
      /\ cmd'[c].step = cmd[c].step /\ cmd'[c].call = cmd[c].call
  BY <1>0, <1>1, Answers DEF Statuses
<1>3. late' \in [Cmds -> BOOLEAN] /\ late'[c] = l /\ \A d \in Cmds : d # c => late'[d] = late[d]
  BY <1>0, <1>1 DEF TypeOK
<1>4. TypeOK'
  BY <1>0, <1>2, <1>3 DEF TypeOK
<1>5. OnceInv(c)'
  <2>1. (Known(c)' => Known(c)) /\ (Once(c)' <=> Once(c))
    BY <1>0, <1>2, <1>1 DEF Known, Once, Good, Unknown
  <2>2. Pure(c)' => Pure(c) /\ ~l
    BY <1>0, <1>1, <1>2 DEF Pure, NotRun, Unknown
  <2>3. l => Pure(c)
    BY <1>0, <1>1 DEF Pure
  <2> QED BY <1>0, <1>3, <2>1, <2>2, <2>3 DEF CommandsInv, OnceInv
<1> QED BY <1>0, <1>2, <1>3, <1>4, <1>5, OneCommand DEF CommandsInv

LEMMA ExecuteStep ==
  ASSUME CommandsInv, NEW c \in Cmds, Execute(c) \/ ExecuteLate(c)
  PROVE  CommandsInv'
<1>0. TypeOK /\ Apply(c)
  BY DEF CommandsInv, Execute, ExecuteLate
<1>1. /\ doc' \in Records /\ present' \in BOOLEAN /\ fresh' \in [Cmds -> BOOLEAN]
      /\ job' \in [Cmds -> [Jobs -> JobStates]]
      /\ ran' \in [Cmds -> 0..Many] /\ ran'[c] = Count(ran[c])
      /\ \A d \in Cmds : d # c => ran'[d] = ran[d]
  BY <1>0, Applied
<1>2. Count(ran[c]) # 0 /\ (ran[c] = 0 => Count(ran[c]) = 1)
  BY DEF Count, Many
<1>3. CASE Execute(c)
  <2>1. PICK s \in Good \cup Unknown : Answer(c, s)
    BY <1>3 DEF Execute, Good
  <2>2. /\ cmd' \in [Cmds -> States] /\ Only(c)
        /\ cmd'[c].place = "answered" /\ cmd'[c].status = s
        /\ cmd'[c].step = cmd[c].step /\ cmd'[c].call = cmd[c].call
    BY <1>0, <2>1, Answers DEF Statuses
  <2>3. cmd[c].place = "sent" /\ cmd[c].step = "write" /\ late' = late
    BY <1>3 DEF Execute
  <2>4. TypeOK'
    BY <1>0, <1>1, <2>2, <2>3 DEF TypeOK
  <2>5. ~Pure(c)' /\ Pure(c) /\ (Once(c)' <=> Once(c))
    BY <2>2, <2>3 DEF Pure, Once, Good, Unknown, NotRun
  <2>6. OnceInv(c)'
    BY <1>1, <1>2, <2>3, <2>5 DEF CommandsInv, OnceInv
  <2> QED BY <1>1, <2>2, <2>3, <2>4, <2>6, OneCommand DEF CommandsInv
<1>4. CASE ExecuteLate(c)
  <2>1. late[c] /\ late' = [late EXCEPT ![c] = FALSE] /\ cmd' = cmd
    BY <1>4 DEF ExecuteLate
  <2>2. late' \in [Cmds -> BOOLEAN] /\ ~late'[c] /\ \A d \in Cmds : d # c => late'[d] = late[d]
    BY <1>0, <2>1 DEF TypeOK
  <2>3. TypeOK'
    BY <1>0, <1>1, <2>1, <2>2 DEF TypeOK
  <2>4. Once(c) => ran[c] = 0 /\ ~Pure(c)
    BY <2>1 DEF CommandsInv, OnceInv
  <2>5. (Once(c)' <=> Once(c)) /\ (Pure(c)' <=> Pure(c))
    BY <2>1 DEF Once, Pure
  <2>6. OnceInv(c)'
    BY <1>1, <1>2, <2>2, <2>4, <2>5 DEF OnceInv
  <2> QED BY <1>1, <2>1, <2>2, <2>3, <2>6, OneCommand DEF CommandsInv, Only
<1> QED BY <1>3, <1>4

LEMMA SettleStep ==
  ASSUME CommandsInv, NEW c \in Cmds, Settle(c)
  PROVE  CommandsInv'
<1>1. PICK j \in Jobs, s \in FinalJob : job' = [job EXCEPT ![c][j] = s]
  BY DEF Settle
<1>2. UNCHANGED <<cmd, doc, present, ran, late, fresh>>
  BY DEF Settle
<1>3. job' \in [Cmds -> [Jobs -> JobStates]]
  BY <1>1 DEF CommandsInv, TypeOK, JobStates
<1>4. TypeOK'
  BY <1>2, <1>3 DEF CommandsInv, TypeOK
<1> QED BY <1>2, <1>4 DEF CommandsInv, OnceInv, Once, Known, Pure

-----------------------------------------------------------------------------
THEOREM CommandsInvariant == Spec => []CommandsInv
<1>1. Init => CommandsInv
  BY CommandsInit
<1>2. CommandsInv /\ [Next]_vars => CommandsInv'
  <2> SUFFICES ASSUME CommandsInv, [Next]_vars PROVE CommandsInv'
    OBVIOUS
  <2>1. ASSUME NEW c \in Cmds, Work(c) PROVE CommandsInv'
    BY <2>1, RetryStep, SucceedStep, FailStep, RenewStep DEF Work
  <2>2. ASSUME NEW c \in Cmds, Serve(c) PROVE CommandsInv'
    BY <2>2, RefuseStep, ExecuteStep, ShowStep, LoseStep DEF Serve
  <2>3. CASE UNCHANGED vars
    BY <2>3 DEF vars, CommandsInv, TypeOK, OnceInv, Once, Known, Pure
  <2> QED BY <2>1, <2>2, <2>3, StartStep, ExecuteStep, SettleStep, ExpireStep DEF Next
<1> QED BY <1>1, <1>2, PTL DEF Spec

(* Requests, answers, records and jobs keep their types.                   *)
THEOREM CommandsTypeCorrect == Spec => []TypeOK
<1>1. CommandsInv => TypeOK
  BY DEF CommandsInv
<1> QED BY <1>1, CommandsInvariant, PTL

(* Whatever is retried, renewed, polled or executed late, the server runs  *)
(* a POST or PATCH of one command at most once (client.py 239, jobs.py 9). *)
THEOREM RunOnce == Spec => []AtMostOnce
<1>1. CommandsInv => AtMostOnce
  <2> SUFFICES ASSUME CommandsInv, NEW c \in Cmds, Once(c)
               PROVE  ran[c] + (IF late[c] THEN 1 ELSE 0) <= 1
    BY DEF AtMostOnce
  <2>1. ran[c] = 0 \/ (ran[c] = 1 /\ ~late[c])
    BY DEF CommandsInv, OnceInv
  <2> QED BY <2>1
<1> QED BY <1>1, CommandsInvariant, PTL

(* The exit code tells whether the write was executed (exits.py).          *)
THEOREM ExitTells == Spec => []ExitTellsTheWrite
<1>1. CommandsInv => ExitTellsTheWrite
  <2> SUFFICES ASSUME CommandsInv, NEW c \in Cmds, Done(c)
               PROVE  /\ cmd[c].exit \in Success => ran[c] > 0
                      /\ cmd[c].step = "poll" => ran[c] > 0
                      /\ Once(c) /\ cmd[c].step # "poll" /\ cmd[c].exit \in Failure
                           => ran[c] = 0 /\ ~late[c]
    BY DEF ExitTellsTheWrite, Success, Failure
  <2>1. cmd[c].step \in {"read", "write", "poll"} /\ ran[c] \in 0..2 /\ OnceInv(c)
    BY DEF CommandsInv, TypeOK, States, Many
  <2>2. Known(c) => ran[c] > 0
    BY <2>1 DEF OnceInv
  <2>3. cmd[c].exit \in Success \/ cmd[c].step = "poll" => Known(c)
    BY DEF Known, Done
  <2>4. cmd[c].step # "poll" /\ cmd[c].exit \in Failure => Pure(c)
    BY <2>1 DEF Pure, Done
  <2> QED BY <2>1, <2>2, <2>3, <2>4 DEF OnceInv
<1> QED BY <1>1, CommandsInvariant, PTL

-----------------------------------------------------------------------------
(* The data: what a merge has read, and what a wait knows of its jobs.     *)

(* A merge that may still write has seen the other fields as they are,     *)
(* unless somebody has written the record.                                 *)
MergeInv(c) ==
  cmd[c].script = "merge" /\ fresh[c] /\ (late[c] \/ cmd[c].place # "done") =>
    \A f \in Fields \ {cmd[c].field} : cmd[c].seen[f] = doc[f]

(* A write that may be executed late is not sent again.                    *)
LateInv(c) ==
  late[c] =>
    /\ cmd[c].step = "write"
    /\ cmd[c].place = "done" \/ (cmd[c].place = "answered" /\ cmd[c].status \in {"broken", "error"} /\ ~ShouldRetry(c))

(* What a wait knows of its jobs: those of the write and no other, and     *)
(* what it saw end is as it saw it.                                        *)
PollInv(c) ==
  /\ cmd[c].step # "poll" /\ cmd[c].place # "done" => cmd[c].saw = NoJob
  /\ cmd[c].step = "poll" => cmd[c].place # "idle" /\ JobIds(c) # {}
  /\ cmd[c].step = "poll" /\ cmd[c].place # "done" =>
       \A j \in Jobs :
         /\ cmd[c].saw[j] # "none" => job[c][j] # "none"
         /\ cmd[c].saw[j] \in FinalJob => job[c][j] = cmd[c].saw[j]
         /\ job[c][j] # "none" => cmd[c].saw[j] # "none" \/ j \in cmd[c].todo

(* WaitTellsTheTruth, of one command.                                      *)
Truth(c, code) ==
  LET now == {job[c][j] : j \in JobIds(c)} IN
  /\ code = "OK" =>
       /\ now \subseteq {"completed", "empty"}
       /\ cmd[c].call.body # "form" => "completed" \in now
  /\ code = "NOTHING_STORED" => now = {"empty"}
  /\ code = "STILL_RUNNING"  => cmd[c].expired

ToldInv(c) == Done(c) /\ cmd[c].step = "poll" => Truth(c, cmd[c].exit)

DataInv == \A c \in Cmds : MergeInv(c) /\ LateInv(c) /\ PollInv(c) /\ ToldInv(c)

-----------------------------------------------------------------------------
(* Steps of c leave the others as they are.                                *)
LEMMA OneOnly ==
  ASSUME DataInv, NEW c \in Cmds, Only(c),
         MergeInv(c)', LateInv(c)', PollInv(c)', ToldInv(c)',
         \A d \in Cmds : d # c =>
           /\ late'[d] = late[d] /\ job'[d] = job[d]
           /\ fresh'[d] => fresh[d] /\ doc' = doc
  PROVE  DataInv'
<1> SUFFICES ASSUME NEW d \in Cmds, d # c
             PROVE  MergeInv(d)' /\ LateInv(d)' /\ PollInv(d)' /\ ToldInv(d)'
  BY DEF DataInv
<1>1. cmd'[d] = cmd[d] /\ late'[d] = late[d] /\ job'[d] = job[d] /\ (fresh'[d] => fresh[d] /\ doc' = doc)
  BY DEF Only
<1>2. MergeInv(d) /\ LateInv(d) /\ PollInv(d) /\ ToldInv(d)
  BY DEF DataInv
<1>3. MergeInv(d)' /\ LateInv(d)'
  BY <1>1, <1>2 DEF MergeInv, LateInv, ShouldRetry, Message
<1>4. JobIds(d)' = JobIds(d)
  BY <1>1 DEF JobIds
<1>5. PollInv(d)'
  BY <1>1, <1>2, <1>4 DEF PollInv
<1>6. ToldInv(d)'
  BY <1>1, <1>2, <1>4 DEF ToldInv, Truth, Done
<1> QED BY <1>3, <1>5, <1>6

(* What never changes of a command.                                        *)
Named(r) == <<r.script, r.field, r.call.body>>

(* It sends its next request.                                              *)
LEMMA Sending ==
  ASSUME TypeOK, DataInv, NEW c \in Cmds, NEW s \in States, cmd' = [cmd EXCEPT ![c] = s],
         ServerStays, ~late[c], cmd[c].place # "done", s.place = "sent",
         Named(s) = Named(cmd[c]), s.seen = cmd[c].seen, s.saw = cmd[c].saw,
         cmd[c].step = "poll" => s.step = "poll",
         s.step = "poll" => JobIds(c) # {},
         s.step = "poll" =>
           \A j \in Jobs : job[c][j] # "none" => cmd[c].saw[j] # "none" \/ j \in s.todo
  PROVE  DataInv'
<1>1. cmd'[c] = s /\ Only(c)
  BY Becomes
<1>2. UNCHANGED <<doc, late, job, fresh>> /\ MergeInv(c) /\ PollInv(c)
  BY DEF ServerStays, DataInv
<1>3. MergeInv(c)' /\ LateInv(c)' /\ ToldInv(c)'
  BY <1>1, <1>2 DEF MergeInv, LateInv, ToldInv, Done, Named
<1>4. JobIds(c)' = JobIds(c)
  BY <1>2 DEF JobIds
<1>5. PollInv(c)'
  <2>1. CASE s.step = "poll"
    <3>1. \A j \in Jobs :
            /\ cmd[c].saw[j] # "none" => job[c][j] # "none"
            /\ cmd[c].saw[j] \in FinalJob => job[c][j] = cmd[c].saw[j]
      BY <1>2 DEF PollInv, NoJob, FinalJob
    <3> QED BY <1>1, <1>2, <1>4, <2>1, <3>1 DEF PollInv
  <2>2. CASE s.step # "poll"
    BY <1>1, <1>2, <2>2 DEF PollInv
  <2> QED BY <2>1, <2>2
<1> QED BY <1>1, <1>2, <1>3, <1>5, OneOnly

(* It ends.                                                                *)
LEMMA Finishing ==
  ASSUME TypeOK, DataInv, NEW c \in Cmds, NEW code \in Exits, Finish(c, code),
         ServerStays, cmd[c].step = "poll" => Truth(c, code)
  PROVE  DataInv'
<1> DEFINE seen == IF late[c] THEN cmd[c].seen ELSE Unset
           s == [cmd[c] EXCEPT !.place = "done", !.exit = code, !.renewable = FALSE,
                   !.renewed = FALSE, !.attempt = 0, !.status = "ok", !.todo = {},
                   !.saw = NoJob, !.seen = seen]
<1>1. cmd[c] \in States /\ cmd' = [cmd EXCEPT ![c] = s]
  BY DEF TypeOK, Finish
<1>2. late[c] => seen = cmd[c].seen
  OBVIOUS
<1> HIDE DEF seen
<1>3. /\ Named(s) = Named(cmd[c]) /\ s.step = cmd[c].step /\ s.expired = cmd[c].expired
      /\ s.place = "done" /\ s.exit = code /\ s.seen = seen
  BY <1>1 DEF States, Named
<1> HIDE DEF s
<1>4. cmd'[c] = s /\ Only(c)
  BY <1>1 DEF TypeOK, Only
<1>5. UNCHANGED <<doc, late, job, fresh>> /\ MergeInv(c) /\ LateInv(c) /\ PollInv(c)
  BY DEF ServerStays, DataInv
<1>6. MergeInv(c)' /\ LateInv(c)'
  BY <1>2, <1>3, <1>4, <1>5 DEF MergeInv, LateInv, Named
<1>7. JobIds(c)' = JobIds(c)
  BY <1>5 DEF JobIds
<1>8. PollInv(c)'
  BY <1>3, <1>4, <1>5, <1>7 DEF PollInv
<1>9. ToldInv(c)'
  BY <1>3, <1>4, <1>5, <1>7 DEF ToldInv, Truth, Named
<1> QED BY <1>4, <1>5, <1>6, <1>8, <1>9, OneOnly

(* It is answered, and the server may have moved.                          *)
LEMMA Answering ==
  ASSUME TypeOK, DataInv, NEW c \in Cmds, NEW r \in Statuses, Answer(c, r),
         cmd[c].place = "sent", ~late'[c] \/ (r \in {"broken", "error"} /\ cmd[c].step = "write" /\ ~ShouldRetry(c)'),
         cmd[c].step = "poll" => job'[c] = job[c],
         MergeInv(c)',
         \A d \in Cmds : d # c =>
           /\ late'[d] = late[d] /\ job'[d] = job[d]
           /\ fresh'[d] => fresh[d] /\ doc' = doc
  PROVE  DataInv'
<1> DEFINE s == [cmd[c] EXCEPT !.place = "answered", !.status = r]
<1>1. cmd[c] \in States /\ cmd' = [cmd EXCEPT ![c] = s]
  BY DEF TypeOK, Answer
<1>2. /\ s.place = "answered" /\ s.status = r /\ s.step = cmd[c].step
      /\ s.saw = cmd[c].saw /\ s.todo = cmd[c].todo
  BY <1>1 DEF States
<1> HIDE DEF s
<1>3. cmd'[c] = s /\ Only(c)
  BY <1>1 DEF TypeOK, Only
<1>4. LateInv(c)' /\ ToldInv(c)'
  BY <1>2, <1>3 DEF LateInv, ToldInv, Done
<1>5. PollInv(c)'
  <2>1. PollInv(c)
    BY DEF DataInv
  <2>2. cmd[c].step = "poll" => JobIds(c)' = JobIds(c)
    BY DEF JobIds
  <2> QED BY <1>2, <1>3, <2>1, <2>2 DEF PollInv
<1> QED BY <1>3, <1>4, <1>5, OneOnly

-----------------------------------------------------------------------------
(* The steps.                                                              *)

LEMMA StartData ==
  ASSUME TypeOK, DataInv, NEW c \in Cmds, Start(c) \/ RefuseLocally(c)
  PROVE  DataInv'
<1>0. cmd[c] \in States /\ cmd[c].call \in Calls /\ LateInv(c) /\ PollInv(c)
  BY DEF TypeOK, States, DataInv
<1>1. CASE Start(c)
  <2> DEFINE s == [cmd[c] EXCEPT !.call.check = "none", !.place = "sent",
                                 !.step = First(cmd[c].script)]
  <2>1. [cmd[c].call EXCEPT !.check = "none"] \in Calls
    BY <1>0 DEF Calls
  <2>2. First(cmd[c].script) \in {"read", "write"}
    BY DEF First
  <2>3. s \in States
    BY <1>0, <2>1, <2>2, Values DEF States
  <2>4. /\ s.place = "sent" /\ s.step # "poll" /\ Named(s) = Named(cmd[c])
        /\ s.seen = cmd[c].seen /\ s.saw = cmd[c].saw
    BY <1>0, <2>2 DEF States, Calls, Named
  <2>5. cmd' = [cmd EXCEPT ![c] = s] /\ cmd[c].place = "idle" /\ ServerStays
    BY <1>1 DEF Start
  <2> HIDE DEF s
  <2>6. ~late[c] /\ cmd[c].step # "poll"
    BY <1>0, <2>5 DEF LateInv, PollInv
  <2> QED BY <2>3, <2>4, <2>5, <2>6, Sending
<1>2. CASE RefuseLocally(c)
  <2>1. Finish(c, "USAGE") /\ ServerStays /\ Truth(c, "USAGE")
    BY <1>2 DEF RefuseLocally, Truth
  <2> QED BY <2>1, Finishing DEF Exits
<1> QED BY <1>1, <1>2

LEMMA ResendData ==
  ASSUME TypeOK, DataInv, NEW c \in Cmds, Retry(c) \/ Renew(c)
  PROVE  DataInv'
<1>0. cmd[c] \in States /\ LateInv(c) /\ PollInv(c)
  BY DEF TypeOK, DataInv
<1>1. /\ cmd[c].place = "answered" /\ ServerStays
      /\ cmd[c].status \in {"limited", "error", "denied"}
  BY DEF Retry, Renew, Answered, Renews, ShouldRetry
<1>2. ~late[c]
  BY <1>0, <1>1 DEF LateInv, Retry, Renew, Renews
<1>3. cmd[c].step = "poll" =>
        /\ JobIds(c) # {}
        /\ \A j \in Jobs : job[c][j] # "none" => cmd[c].saw[j] # "none" \/ j \in cmd[c].todo
  BY <1>0, <1>1 DEF PollInv
<1>4. PICK s \in States :
        /\ cmd' = [cmd EXCEPT ![c] = s] /\ s.place = "sent" /\ Named(s) = Named(cmd[c])
        /\ s.seen = cmd[c].seen /\ s.saw = cmd[c].saw /\ s.todo = cmd[c].todo
        /\ s.step = "poll" <=> cmd[c].step = "poll"
  <2>1. CASE Retry(c)
    <3> DEFINE t == [cmd[c] EXCEPT !.place = "sent", !.attempt = @ + 1]
    <3>1. cmd[c].attempt + 1 \in 0..MaxRetries
      BY <1>0, <2>1, CommandsAssumption DEF Retry, ShouldRetry, States
    <3>2. t \in States
      BY <1>0, <3>1, Values DEF States
    <3>3. /\ t.place = "sent" /\ Named(t) = Named(cmd[c])
          /\ t.seen = cmd[c].seen /\ t.saw = cmd[c].saw /\ t.todo = cmd[c].todo
          /\ t.step = cmd[c].step
      BY <1>0 DEF States, Named
    <3>4. cmd' = [cmd EXCEPT ![c] = t]
      BY <2>1 DEF Retry
    <3> HIDE DEF t
    <3> QED BY <3>2, <3>3, <3>4
  <2>2. CASE Renew(c)
    <3> DEFINE step == IF cmd[c].step = "poll" THEN "poll" ELSE First(cmd[c].script)
               t == [cmd[c] EXCEPT !.place = "sent", !.renewed = TRUE, !.attempt = 0,
                                   !.step = step]
    <3>1. step \in {"read", "write", "poll"} /\ (step = "poll" <=> cmd[c].step = "poll")
      BY <1>0 DEF First, States
    <3>2. cmd' = [cmd EXCEPT ![c] = t]
      BY <2>2 DEF Renew
    <3> HIDE DEF step
    <3>3. t \in States
      BY <1>0, <3>1, Values DEF States
    <3>4. /\ t.place = "sent" /\ Named(t) = Named(cmd[c])
          /\ t.seen = cmd[c].seen /\ t.saw = cmd[c].saw /\ t.todo = cmd[c].todo
          /\ t.step = step
      BY <1>0 DEF States, Named
    <3> HIDE DEF t
    <3> QED BY <3>1, <3>2, <3>3, <3>4
  <2> QED BY <2>1, <2>2
<1> QED BY <1>1, <1>2, <1>3, <1>4, Sending

LEMMA FailData ==
  ASSUME TypeOK, DataInv, NEW c \in Cmds, Fail(c) \/ RenewFails(c)
  PROVE  DataInv'
<1>0. cmd[c] \in States
  BY DEF TypeOK
<1>1. PICK code \in Exits : Finish(c, code) /\ ServerStays /\ code \notin Success
  <2>1. CASE Fail(c)
    <3>1. cmd[c].status \in NotRun \cup Unknown
      BY <1>0, <2>1 DEF Fail, States, Statuses
    <3>2. ExitOf(cmd[c].status) \in Exits \ Success
      BY <3>1 DEF ExitOf, Exits, Success, NotRun, Unknown
    <3> QED BY <2>1, <3>2 DEF Fail
  <2>2. CASE RenewFails(c)
    BY <2>2 DEF RenewFails, Exits, Success
  <2> QED BY <2>1, <2>2
<1>2. Truth(c, code)
  BY <1>1 DEF Truth, Success
<1> QED BY <1>1, <1>2, Finishing

(* The exit code of a round in which every job has been looked at, and the *)
(* time was up if one is still running.                                    *)
LEMMA OutcomeTrue ==
  ASSUME TypeOK, NEW c \in Cmds, PollInv(c), cmd[c].step = "poll", cmd[c].place = "answered",
         cmd[c].todo = {}, Pending(c) = {} \/ cmd[c].expired
  PROVE  Truth(c, Outcome(c))
<1> DEFINE saw == {cmd[c].saw[j] : j \in Jobs} \ {"none"}
           now == {job[c][j] : j \in JobIds(c)}
<1>1. \A j \in Jobs :
        /\ cmd[c].saw[j] # "none" <=> job[c][j] # "none"
        /\ cmd[c].saw[j] \in FinalJob => job[c][j] = cmd[c].saw[j]
        /\ cmd[c].saw[j] \in {"none", "running"} \cup FinalJob
  BY DEF PollInv, TypeOK, States, JobStates
<1>2. JobIds(c) = {j \in Jobs : cmd[c].saw[j] # "none"} /\ JobIds(c) # {}
  BY <1>1 DEF JobIds, PollInv
<1>3. saw \subseteq {"running"} \cup FinalJob /\ saw # {}
  BY <1>1, <1>2
<1>4. "running" \notin saw => now = saw
  <2> SUFFICES ASSUME "running" \notin saw
               PROVE  \A j \in JobIds(c) : job[c][j] = cmd[c].saw[j]
    BY <1>2
  <2> QED BY <1>1, <1>2
<1>5. "running" \in saw => cmd[c].expired
  BY DEF Pending
<1>6. Outcome(c) = "STILL_RUNNING" => "running" \in saw
  BY DEF Outcome
<1>7. Outcome(c) = "NOTHING_STORED" => saw = {"empty"}
  BY DEF Outcome
<1>8. Outcome(c) = "OK" =>
        /\ "running" \notin saw /\ saw \cap {"failed", "cancelled"} = {} /\ "lost" \notin saw
        /\ saw = {"empty"} => cmd[c].call.body = "form"
  BY DEF Outcome
<1>9. Outcome(c) = "OK" => saw \subseteq {"completed", "empty"} /\ "running" \notin saw
  BY <1>3, <1>8 DEF FinalJob
<1> HIDE DEF saw
<1>10. Outcome(c) = "OK" /\ cmd[c].call.body # "form" => "completed" \in saw
  BY <1>3, <1>8, <1>9
<1>11. Outcome(c) = "NOTHING_STORED" => now = {"empty"}
  BY <1>4, <1>7
<1>12. Outcome(c) = "OK" => now \subseteq {"completed", "empty"}
  BY <1>4, <1>9
<1>13. Outcome(c) = "OK" /\ cmd[c].call.body # "form" => "completed" \in now
  BY <1>4, <1>9, <1>10
<1> HIDE DEF now
<1> QED BY <1>5, <1>6, <1>11, <1>12, <1>13 DEF Truth, now

LEMMA SucceedData ==
  ASSUME TypeOK, DataInv, NEW c \in Cmds, Succeed(c)
  PROVE  DataInv'
<1>0. cmd[c] \in States /\ LateInv(c) /\ PollInv(c)
  BY DEF TypeOK, DataInv
<1>1. /\ cmd[c].place = "answered" /\ cmd[c].status \in Good /\ ServerStays
  BY DEF Succeed, Answered
<1>2. ~late[c]
  BY <1>0, <1>1 DEF LateInv, Good
<1>3. ASSUME NEW step \in {"write", "poll"}, NEW todo \in SUBSET Jobs, Proceed(c, step, todo),
             cmd[c].step = "poll" => step = "poll",
             step = "poll" => JobIds(c) # {},
             step = "poll" =>
               \A j \in Jobs : job[c][j] # "none" => cmd[c].saw[j] # "none" \/ j \in todo
      PROVE  DataInv'
  <2> DEFINE renewed == cmd[c].renewed /\ step = "write"
             s == [cmd[c] EXCEPT !.place = "sent", !.step = step, !.attempt = 0, !.todo = todo,
                                 !.renewed = renewed]
  <2>1. cmd' = [cmd EXCEPT ![c] = s] /\ renewed \in BOOLEAN
    BY <1>3 DEF Proceed
  <2> HIDE DEF renewed
  <2>2. s \in States
    BY <1>0, <2>1, Values DEF States
  <2>3. /\ s.place = "sent" /\ s.step = step /\ s.todo = todo
        /\ Named(s) = Named(cmd[c]) /\ s.seen = cmd[c].seen /\ s.saw = cmd[c].saw
    BY <1>0 DEF States, Named
  <2> HIDE DEF s
  <2> QED BY <1>1, <1>2, <1>3, <2>1, <2>2, <2>3, Sending
<1>4. JobIds(c) \in SUBSET Jobs /\ Pending(c) \in SUBSET Jobs /\ cmd[c].todo \in SUBSET Jobs
  BY <1>0 DEF JobIds, Pending, States
<1>5. CASE cmd[c].step = "read"
  <2>1. Proceed(c, "write", {})
    BY <1>5 DEF Succeed
  <2> QED BY <1>3, <1>5, <2>1
<1>6. CASE cmd[c].step = "write"
  <2>1. \/ Proceed(c, "poll", JobIds(c)) /\ JobIds(c) # {}
        \/ Finish(c, "NOTHING_STORED") \/ Finish(c, "OK")
    BY <1>6 DEF Succeed
  <2>2. CASE Proceed(c, "poll", JobIds(c)) /\ JobIds(c) # {}
    BY <1>3, <1>4, <2>2 DEF JobIds
  <2> QED BY <1>1, <1>6, <2>1, <2>2, Finishing DEF Exits
<1>7. CASE cmd[c].step = "poll"
  <2>1. /\ JobIds(c) # {}
        /\ \A j \in Jobs : job[c][j] # "none" => cmd[c].saw[j] # "none" \/ j \in cmd[c].todo
    BY <1>0, <1>1, <1>7 DEF PollInv
  <2>2. CASE cmd[c].todo # {}
    <3>1. Proceed(c, "poll", cmd[c].todo)
      BY <1>7, <2>2 DEF Succeed
    <3> QED BY <1>3, <1>4, <2>1, <3>1
  <2>3. CASE cmd[c].todo = {} /\ Pending(c) # {} /\ ~cmd[c].expired
    <3>1. Proceed(c, "poll", Pending(c))
      BY <1>7, <2>3 DEF Succeed
    <3> QED BY <1>3, <1>4, <2>1, <2>3, <3>1
  <2>4. CASE cmd[c].todo = {} /\ (Pending(c) = {} \/ cmd[c].expired)
    <3>1. Finish(c, Outcome(c))
      BY <1>7, <2>4 DEF Succeed
    <3>2. Truth(c, Outcome(c))
      BY <1>0, <1>1, <1>7, <2>4, OutcomeTrue
    <3>3. Outcome(c) \in Exits
      BY DEF Outcome, Exits
    <3> QED BY <1>1, <3>1, <3>2, <3>3, Finishing
  <2> QED BY <2>2, <2>3, <2>4
<1> QED BY <1>0, <1>5, <1>6, <1>7 DEF States

LEMMA ExpireData ==
  ASSUME TypeOK, DataInv, NEW c \in Cmds, Expire(c)
  PROVE  DataInv'
<1> DEFINE s == [cmd[c] EXCEPT !.expired = TRUE]
<1>1. /\ cmd[c] \in States /\ ServerStays /\ cmd' = [cmd EXCEPT ![c] = s]
      /\ cmd[c].place # "done"
  BY DEF TypeOK, Expire
<1>2. /\ s.place = cmd[c].place /\ s.step = cmd[c].step /\ Named(s) = Named(cmd[c])
      /\ s.status = cmd[c].status /\ s.seen = cmd[c].seen /\ s.saw = cmd[c].saw
      /\ s.todo = cmd[c].todo /\ s.attempt = cmd[c].attempt /\ s.call = cmd[c].call
  BY <1>1 DEF States, Named
<1> HIDE DEF s
<1>3. cmd'[c] = s /\ Only(c)
  BY <1>1 DEF TypeOK, Only
<1>4. UNCHANGED <<doc, late, job, fresh>> /\ MergeInv(c) /\ LateInv(c) /\ PollInv(c)
  BY <1>1 DEF ServerStays, DataInv
<1>5. MergeInv(c)' /\ LateInv(c)' /\ ToldInv(c)'
  BY <1>1, <1>2, <1>3, <1>4 DEF MergeInv, LateInv, ShouldRetry, Message, ToldInv, Done, Named
<1>6. JobIds(c)' = JobIds(c)
  BY <1>4 DEF JobIds
<1>7. PollInv(c)'
  BY <1>2, <1>3, <1>4, <1>6 DEF PollInv
<1> QED BY <1>3, <1>4, <1>5, <1>7, OneOnly

LEMMA ShowRecordData ==
  ASSUME TypeOK, DataInv, NEW c \in Cmds, ShowRecord(c)
  PROVE  DataInv'
<1> DEFINE s == [cmd[c] EXCEPT !.place = "answered", !.status = "ok", !.seen = doc]
<1>1. /\ cmd[c] \in States /\ cmd' = [cmd EXCEPT ![c] = s]
      /\ cmd[c].place = "sent" /\ cmd[c].step = "read"
      /\ UNCHANGED <<doc, late, job>> /\ fresh' = [fresh EXCEPT ![c] = TRUE]
  BY DEF TypeOK, ShowRecord
<1>2. /\ s.place = "answered" /\ s.step = cmd[c].step /\ s.seen = doc /\ s.saw = cmd[c].saw
  BY <1>1 DEF States
<1> HIDE DEF s
<1>3. cmd'[c] = s /\ Only(c) /\ \A d \in Cmds : d # c => fresh'[d] = fresh[d]
  BY <1>1 DEF TypeOK, Only
<1>4. LateInv(c) /\ PollInv(c)
  BY DEF DataInv
<1>5. ~late'[c]
  BY <1>1, <1>4 DEF LateInv
<1>6. MergeInv(c)' /\ LateInv(c)' /\ ToldInv(c)' /\ PollInv(c)'
  BY <1>1, <1>2, <1>3, <1>4, <1>5 DEF MergeInv, LateInv, ToldInv, PollInv, Done
<1> QED BY <1>1, <1>3, <1>6, OneOnly

LEMMA ShowJobData ==
  ASSUME TypeOK, DataInv, NEW c \in Cmds, ShowJob(c)
  PROVE  DataInv'
<1>0. /\ cmd[c] \in States /\ LateInv(c) /\ PollInv(c) /\ MergeInv(c)
      /\ cmd[c].place = "sent" /\ cmd[c].step = "poll" /\ ServerStays
  BY DEF TypeOK, DataInv, ShowJob
<1>1. PICK j \in cmd[c].todo :
        cmd' = [cmd EXCEPT ![c].place = "answered", ![c].status = "ok",
                           ![c].saw[j] = job[c][j], ![c].todo = @ \ {j}]
  BY DEF ShowJob
<1> DEFINE saw == [cmd[c].saw EXCEPT ![j] = job[c][j]]
           todo == cmd[c].todo \ {j}
           s == [cmd[c] EXCEPT !.place = "answered", !.status = "ok", !.saw = saw, !.todo = todo]
<1>2. cmd' = [cmd EXCEPT ![c] = s]
  BY <1>0, <1>1 DEF TypeOK, States
<1>3. j \in Jobs /\ saw[j] = job[c][j] /\ \A k \in Jobs \ {j} : saw[k] = cmd[c].saw[k]
  BY <1>0 DEF States
<1>4. todo = cmd[c].todo \ {j}
  OBVIOUS
<1> HIDE DEF saw, todo
<1>5. /\ s.place = "answered" /\ s.step = "poll" /\ Named(s) = Named(cmd[c])
      /\ s.seen = cmd[c].seen /\ s.saw = saw /\ s.todo = todo
  BY <1>0 DEF States, Named
<1> HIDE DEF s
<1>6. cmd'[c] = s /\ Only(c)
  BY <1>2 DEF TypeOK, Only
<1>7. UNCHANGED <<doc, late, job, fresh>> /\ ~late[c]
  BY <1>0 DEF ServerStays, LateInv
<1>8. MergeInv(c)' /\ LateInv(c)' /\ ToldInv(c)'
  BY <1>0, <1>5, <1>6, <1>7 DEF MergeInv, LateInv, ToldInv, Done, Named
<1>9. JobIds(c)' = JobIds(c) /\ JobIds(c) # {}
  BY <1>0, <1>7 DEF JobIds, PollInv
<1>10. \A k \in Jobs :
         /\ saw[k] # "none" => job[c][k] # "none"
         /\ saw[k] \in FinalJob => job[c][k] = saw[k]
         /\ job[c][k] # "none" => saw[k] # "none" \/ k \in todo
  BY <1>0, <1>3, <1>4 DEF PollInv
<1>11. PollInv(c)'
  BY <1>5, <1>6, <1>7, <1>9, <1>10 DEF PollInv
<1> QED BY <1>6, <1>7, <1>8, <1>11, OneOnly

LEMMA UnansweredData ==
  ASSUME TypeOK, DataInv, NEW c \in Cmds, Refuse(c) \/ Lose(c)
  PROVE  DataInv'
<1>0. /\ cmd[c] \in States /\ LateInv(c) /\ MergeInv(c) /\ cmd[c].place = "sent"
      /\ UNCHANGED <<doc, job, fresh>>
  BY DEF TypeOK, DataInv, Refuse, Lose, ServerStays
<1>1. PICK r \in Statuses :
        /\ Answer(c, r)
        /\ ~late'[c] \/ (r \in {"broken", "error"} /\ cmd[c].step = "write" /\ ~ShouldRetry(c)')
        /\ \A d \in Cmds : d # c => late'[d] = late[d]
  <2>1. CASE Refuse(c)
    BY <1>0, <2>1 DEF Refuse, ServerStays, LateInv, Statuses, Unknown
  <2>2. CASE Lose(c)
    <3>1. PICK r \in Unknown, l \in BOOLEAN :
            /\ Answer(c, r) /\ late' = [late EXCEPT ![c] = l]
            /\ l => r # "cut" /\ ~ShouldRetry(c)' /\ cmd[c].step = "write"
      BY <2>2 DEF Lose
    <3>2. late'[c] = l /\ \A d \in Cmds : d # c => late'[d] = late[d]
      BY <3>1 DEF TypeOK
    <3> QED BY <3>1, <3>2 DEF Statuses, Unknown
  <2> QED BY <2>1, <2>2
<1>2. /\ Named(cmd'[c]) = Named(cmd[c]) /\ cmd'[c].seen = cmd[c].seen
  BY <1>0, <1>1 DEF Answer, TypeOK, States, Named
<1>3. MergeInv(c)'
  BY <1>0, <1>2 DEF MergeInv, Named
<1> QED BY <1>0, <1>1, <1>3, Answering

(* The write of a merge leaves the other fields as they were read.         *)
LEMMA WritesBack ==
  ASSUME TypeOK, NEW c \in Cmds, MergeInv(c), Apply(c),
         cmd[c].script = "merge", fresh[c], late[c] \/ cmd[c].place # "done"
  PROVE  \A f \in Fields \ {cmd[c].field} : doc'[f] = doc[f] /\ doc'[f] = cmd[c].seen[f]
<1>1. \A f \in Fields \ {cmd[c].field} : cmd[c].seen[f] = doc[f]
  BY DEF MergeInv
<1>2. CASE OnRecord(cmd[c].call)
  <2>1. doc' = [cmd[c].seen EXCEPT ![cmd[c].field] = c]
    BY <1>2 DEF Apply, Written
  <2>2. cmd[c].seen \in [Fields -> Cmds \cup {Null}]
    BY DEF TypeOK, States, Records
  <2> QED BY <1>1, <2>1, <2>2
<1>3. CASE ~OnRecord(cmd[c].call)
  BY <1>1, <1>3 DEF Apply
<1> QED BY <1>2, <1>3

LEMMA ExecuteData ==
  ASSUME TypeOK, DataInv, NEW c \in Cmds, Execute(c) \/ ExecuteLate(c)
  PROVE  DataInv'
<1>0. /\ cmd[c] \in States /\ LateInv(c) /\ MergeInv(c) /\ PollInv(c) /\ Apply(c)
  BY DEF TypeOK, DataInv, Execute, ExecuteLate
<1>1. \A d \in Cmds : d # c =>
        job'[d] = job[d] /\ (fresh'[d] => fresh[d] /\ doc' = doc)
  <2>1. \A d \in Cmds : d # c => job'[d] = job[d]
    BY <1>0 DEF Apply, TypeOK
  <2>2. \A d \in Cmds : d # c => (fresh'[d] => fresh[d] /\ doc' = doc)
    BY <1>0 DEF Apply
  <2> QED BY <2>1, <2>2
<1>2. fresh'[c] => fresh[c]
  BY <1>0 DEF Apply
<1>3. CASE Execute(c)
  <2>1. cmd[c].place = "sent" /\ cmd[c].step = "write" /\ late' = late /\ ~late[c]
    BY <1>0, <1>3 DEF Execute, LateInv
  <2>2. PICK r \in Statuses : Answer(c, r)
    BY <1>3 DEF Execute, Statuses, Good
  <2>3. Named(cmd'[c]) = Named(cmd[c]) /\ cmd'[c].seen = cmd[c].seen
    BY <1>0, <2>2 DEF Answer, TypeOK, States, Named
  <2>4. MergeInv(c)'
    <3> SUFFICES ASSUME cmd'[c].script = "merge", fresh'[c]
                 PROVE  \A f \in Fields \ {cmd'[c].field} : cmd'[c].seen[f] = doc'[f]
      BY DEF MergeInv
    <3>1. cmd[c].script = "merge" /\ fresh[c]
      BY <1>2, <2>3 DEF Named
    <3>2. cmd'[c].field = cmd[c].field
      BY <2>3 DEF Named
    <3> QED BY <1>0, <2>1, <2>3, <3>1, <3>2, WritesBack
  <2> QED BY <1>1, <2>1, <2>2, <2>4, Answering
<1>4. CASE ExecuteLate(c)
  <2>1. late[c] /\ late' = [late EXCEPT ![c] = FALSE] /\ cmd' = cmd /\ cmd[c].step = "write"
    BY <1>0, <1>4 DEF ExecuteLate, LateInv
  <2>2. ~late'[c] /\ Only(c) /\ \A d \in Cmds : d # c => late'[d] = late[d]
    BY <2>1 DEF TypeOK, Only
  <2>3. MergeInv(c)'
    <3> SUFFICES ASSUME cmd[c].script = "merge", fresh'[c]
                 PROVE  \A f \in Fields \ {cmd[c].field} : cmd[c].seen[f] = doc'[f]
      BY <2>1 DEF MergeInv
    <3> QED BY <1>0, <1>2, <2>1, WritesBack
  <2>4. LateInv(c)' /\ PollInv(c)' /\ ToldInv(c)'
    BY <1>0, <2>1, <2>2 DEF LateInv, PollInv, ToldInv
  <2> QED BY <1>1, <2>2, <2>3, <2>4, OneOnly
<1> QED BY <1>3, <1>4

LEMMA SettleData ==
  ASSUME TypeOK, DataInv, NEW c \in Cmds, Settle(c)
  PROVE  DataInv'
<1>1. PICK j \in Jobs, end \in FinalJob :
        job[c][j] = "running" /\ job' = [job EXCEPT ![c][j] = end]
  BY DEF Settle
<1>2. UNCHANGED <<cmd, doc, late, fresh>> /\ Only(c)
  BY DEF Settle, Only
<1>3. /\ job'[c][j] = end /\ end \notin {"none", "running"}
      /\ \A k \in Jobs : k # j => job'[c][k] = job[c][k]
      /\ \A d \in Cmds : d # c => job'[d] = job[d]
  BY <1>1 DEF TypeOK, FinalJob
<1>4. MergeInv(c)' /\ LateInv(c)'
  BY <1>2 DEF DataInv, MergeInv, LateInv, ShouldRetry, Message
<1>5. JobIds(c)' = JobIds(c) /\ j \in JobIds(c)
  BY <1>1, <1>3 DEF JobIds
<1>6. PollInv(c)'
  <2>1. PollInv(c)
    BY DEF DataInv
  <2>2. cmd[c].step = "poll" /\ cmd[c].place # "done" => cmd[c].saw[j] \notin FinalJob
    BY <1>1, <2>1 DEF PollInv, FinalJob
  <2>3. cmd[c].step = "poll" /\ cmd[c].place # "done" =>
          \A k \in Jobs :
            /\ cmd[c].saw[k] # "none" => job'[c][k] # "none"
            /\ cmd[c].saw[k] \in FinalJob => job'[c][k] = cmd[c].saw[k]
            /\ job'[c][k] # "none" => cmd[c].saw[k] # "none" \/ k \in cmd[c].todo
    BY <1>1, <1>3, <2>1, <2>2 DEF PollInv
  <2> QED BY <1>2, <1>5, <2>1, <2>3 DEF PollInv
(* Nothing settles after an answer that everything has.                    *)
<1>7. ToldInv(c)'
  <2> SUFFICES ASSUME Done(c), cmd[c].step = "poll"
               PROVE  Truth(c, cmd[c].exit)'
    BY <1>2 DEF ToldInv, Done
  <2>1. Truth(c, cmd[c].exit)
    BY DEF DataInv, ToldInv
  <2>2. "running" \in {job[c][k] : k \in JobIds(c)}
    BY <1>1, <1>5
  <2>3. cmd[c].exit # "OK" /\ cmd[c].exit # "NOTHING_STORED"
    BY <2>1, <2>2 DEF Truth
  <2> QED BY <1>2, <2>1, <2>3 DEF Truth
<1> QED BY <1>2, <1>3, <1>4, <1>6, <1>7, OneOnly

-----------------------------------------------------------------------------
LEMMA DataInvariant == Spec => []DataInv
<1>1. Init => DataInv
  <2> SUFFICES ASSUME Init, NEW c \in Cmds
               PROVE  MergeInv(c) /\ LateInv(c) /\ PollInv(c) /\ ToldInv(c)
    BY DEF DataInv
  <2>1. cmd[c].place = "idle" /\ cmd[c].step = "write" /\ cmd[c].saw = NoJob
    BY DEF Init
  <2>2. ~late[c] /\ ~fresh[c]
    BY DEF Init
  <2> QED BY <2>1, <2>2 DEF MergeInv, LateInv, PollInv, ToldInv, Done
<1>2. TypeOK /\ DataInv /\ [Next]_vars => DataInv'
  <2> SUFFICES ASSUME TypeOK, DataInv, [Next]_vars PROVE DataInv'
    OBVIOUS
  <2>1. ASSUME NEW c \in Cmds, Work(c) PROVE DataInv'
    BY <2>1, ResendData, SucceedData, FailData DEF Work
  <2>2. ASSUME NEW c \in Cmds, Serve(c) PROVE DataInv'
    BY <2>2, UnansweredData, ExecuteData, ShowRecordData, ShowJobData DEF Serve
  <2>3. CASE UNCHANGED vars
    BY <2>3 DEF vars, DataInv, MergeInv, LateInv, ShouldRetry, Message, PollInv, ToldInv, Truth,
                Done, JobIds
  <2> QED BY <2>1, <2>2, <2>3, StartData, ExecuteData, SettleData, ExpireData DEF Next
<1> QED BY <1>1, <1>2, CommandsTypeCorrect, PTL DEF Spec

(* The exit code of a wait says what became of the jobs, whatever was      *)
(* retried, renewed or still running when the time was up (cli/jobs.py).   *)
THEOREM WaitTells == Spec => []WaitTellsTheTruth
<1>1. DataInv => WaitTellsTheTruth
  BY DEF DataInv, ToldInv, Truth, WaitTellsTheTruth
<1> QED BY <1>1, DataInvariant, PTL

(* A `set` or `edit` that nobody has interfered with changes only the      *)
(* fields it names, however late it is executed (resources.py 611).        *)
THEOREM KeepsOthers == Spec => SetKeepsOthers
<1> DEFINE Keeps(c) ==
      /\ cmd[c].script = "merge" /\ fresh[c] /\ doc' # doc
      /\ cmd'[c] # cmd[c] \/ late'[c] # late[c]
      => \A f \in Fields \ {cmd[c].field} : doc'[f] = doc[f]
<1>1. TypeOK /\ DataInv /\ [Next]_vars => [\A c \in Cmds : Keeps(c)]_vars
  <2> SUFFICES ASSUME TypeOK, DataInv, Next, doc' # doc, NEW c \in Cmds,
                      cmd[c].script = "merge", fresh[c],
                      cmd'[c] # cmd[c] \/ late'[c] # late[c]
               PROVE  \A f \in Fields \ {cmd[c].field} : doc'[f] = doc[f]
    BY DEF vars
  <2>1. PICK d \in Cmds : Execute(d) \/ ExecuteLate(d)
    BY DEF Next, Work, Serve, Start, RefuseLocally, Retry, Succeed, Fail, Renew, RenewFails, Refuse,
           ShowRecord, ShowJob, Lose, Settle, Expire, ServerStays
  <2>2. d = c
    BY <2>1 DEF Execute, ExecuteLate, Answer, TypeOK
  <2>3. Apply(c) /\ (late[c] \/ cmd[c].place # "done") /\ MergeInv(c)
    BY <2>1, <2>2 DEF Execute, ExecuteLate, DataInv
  <2> QED BY <2>3, WritesBack
<1> QED BY <1>1, CommandsTypeCorrect, DataInvariant, PTL DEF Spec, SetKeepsOthers

-----------------------------------------------------------------------------
(* The delivery of a write.  Every step is one of three kinds; idle: what  *)
(* has not started has left nothing behind.                                *)
IdleInv == \A c \in Cmds : cmd[c].place = "idle" => ran[c] = 0 /\ ~late[c]

Goes(c) ==
  /\ ~Done(c) /\ ~Done(c)' /\ ran' = ran
  /\ cmd'[c].place = "idle" => cmd[c].place = "idle" /\ late'[c] = late[c]

Ends(c) ==
  /\ ~Done(c) /\ Done(c)' /\ UNCHANGED <<ran, late>>
  /\ cmd'[c].exit = "USAGE" => cmd[c].place = "idle"

Runs(c) ==
  /\ ran'[c] = Count(ran[c])
  /\ \/ /\ cmd[c].place = "sent" /\ cmd[c].step = "write" /\ cmd'[c].place = "answered"
        /\ late'[c] = late[c]
     \/ late[c] /\ cmd' = cmd /\ ~late'[c]

Alone(c) ==
  /\ Only(c) /\ cmd'[c].call.verb = cmd[c].call.verb
  /\ \A d \in Cmds : d # c => ran'[d] = ran[d] /\ late'[d] = late[d]

LEMMA Resends ==
  ASSUME TypeOK, NEW c \in Cmds, Start(c) \/ Retry(c) \/ Renew(c) \/ ShowRecord(c) \/ ShowJob(c)
  PROVE  Alone(c) /\ Goes(c)
<1>0. cmd \in [Cmds -> States] /\ cmd[c] \in States /\ cmd[c].call \in Calls
  BY DEF TypeOK, States
<1>1. cmd[c].place # "done" /\ ran' = ran /\ late' = late
  BY DEF Start, Retry, Renew, Answered, ShowRecord, ShowJob, ServerStays
<1>2. Only(c)
  BY <1>0 DEF Start, Retry, Renew, ShowRecord, ShowJob, Only
<1>3. cmd'[c].place \in {"sent", "answered"} /\ cmd'[c].call.verb = cmd[c].call.verb
  <2>1. CASE Start(c)
    BY <1>0, <2>1 DEF Start, States, Calls
  <2>2. CASE Retry(c)
    BY <1>0, <2>2 DEF Retry, States
  <2>3. CASE Renew(c)
    BY <1>0, <2>3 DEF Renew, States
  <2>4. CASE ShowRecord(c)
    BY <1>0, <2>4 DEF ShowRecord, States
  <2>5. CASE ShowJob(c)
    <3>1. PICK j \in cmd[c].todo :
            cmd' = [cmd EXCEPT ![c].place = "answered", ![c].status = "ok",
                               ![c].saw[j] = job[c][j], ![c].todo = @ \ {j}]
      BY <2>5 DEF ShowJob
    <3> DEFINE saw == [cmd[c].saw EXCEPT ![j] = job[c][j]]
               s == [cmd[c] EXCEPT !.place = "answered", !.status = "ok", !.saw = saw,
                                   !.todo = @ \ {j}]
    <3>2. cmd' = [cmd EXCEPT ![c] = s]
      BY <1>0, <3>1 DEF States
    <3> HIDE DEF saw
    <3>3. s.place = "answered" /\ s.call = cmd[c].call
      BY <1>0 DEF States
    <3> HIDE DEF s
    <3> QED BY <1>0, <3>2, <3>3
  <2> QED BY <2>1, <2>2, <2>3, <2>4, <2>5
<1> QED BY <1>1, <1>2, <1>3 DEF Alone, Goes, Done

LEMMA Ending ==
  ASSUME TypeOK, NEW c \in Cmds, NEW code \in Exits, Finish(c, code), ServerStays, ~Done(c),
         code = "USAGE" => cmd[c].place = "idle"
  PROVE  Alone(c) /\ Ends(c)
  BY Finished DEF Alone, Ends, Done, ServerStays

LEMMA Stops ==
  ASSUME TypeOK, NEW c \in Cmds, RefuseLocally(c) \/ Fail(c) \/ RenewFails(c)
  PROVE  Alone(c) /\ Ends(c)
<1>1. CASE RefuseLocally(c)
  BY <1>1, Ending DEF RefuseLocally, Exits, Done
<1>2. CASE Fail(c)
  <2>1. ExitOf(cmd[c].status) \in Exits \ {"USAGE"}
    BY DEF ExitOf, Exits
  <2> QED BY <1>2, <2>1, Ending DEF Fail, Answered, Done
<1>3. CASE RenewFails(c)
  BY <1>3, Ending DEF RenewFails, Answered, Exits, Done
<1> QED BY <1>1, <1>2, <1>3

LEMMA Continues ==
  ASSUME TypeOK, NEW c \in Cmds, Succeed(c)
  PROVE  Alone(c) /\ (Goes(c) \/ Ends(c))
<1>0. cmd[c] \in States /\ cmd[c].place = "answered" /\ ServerStays
  BY DEF TypeOK, Succeed, Answered
<1>1. \/ \E step \in {"write", "poll"}, todo \in SUBSET Jobs : Proceed(c, step, todo)
      \/ \E code \in Exits \ {"USAGE"} : Finish(c, code)
  <2>1. Outcome(c) \in Exits \ {"USAGE"}
    BY DEF Outcome, Exits
  <2>2. JobIds(c) \in SUBSET Jobs /\ Pending(c) \in SUBSET Jobs /\ cmd[c].todo \in SUBSET Jobs
    BY <1>0 DEF JobIds, Pending, States
  <2>3. \/ Proceed(c, "write", {}) \/ Proceed(c, "poll", JobIds(c))
        \/ Proceed(c, "poll", cmd[c].todo) \/ Proceed(c, "poll", Pending(c))
        \/ Finish(c, Outcome(c)) \/ Finish(c, "NOTHING_STORED") \/ Finish(c, "OK")
    BY DEF Succeed
  <2> QED BY <2>1, <2>2, <2>3 DEF Exits
<1>2. ASSUME NEW step \in {"write", "poll"}, NEW todo \in SUBSET Jobs, Proceed(c, step, todo)
      PROVE  Alone(c) /\ Goes(c)
  BY <1>0, <1>2, Proceeds DEF Alone, Goes, Done, ServerStays
<1>3. ASSUME NEW code \in Exits \ {"USAGE"}, Finish(c, code)
      PROVE  Alone(c) /\ Ends(c)
  BY <1>0, <1>3, Ending DEF Done
<1> QED BY <1>1, <1>2, <1>3

LEMMA Fails ==
  ASSUME TypeOK, NEW c \in Cmds, Refuse(c) \/ Lose(c)
  PROVE  Alone(c) /\ Goes(c)
<1>1. PICK s \in Statuses : Answer(c, s)
  BY DEF Refuse, Lose, Statuses, Unknown
<1>2. /\ Only(c) /\ cmd'[c].place = "answered" /\ cmd'[c].call = cmd[c].call
  BY <1>1, Answers
<1>3. cmd[c].place = "sent" /\ ran' = ran /\ \A d \in Cmds : d # c => late'[d] = late[d]
  BY DEF Refuse, Lose, ServerStays, TypeOK
<1> QED BY <1>2, <1>3 DEF Alone, Goes, Done

LEMMA Executes ==
  ASSUME TypeOK, NEW c \in Cmds, Execute(c) \/ ExecuteLate(c)
  PROVE  Alone(c) /\ Runs(c)
<1>1. ran'[c] = Count(ran[c]) /\ \A d \in Cmds : d # c => ran'[d] = ran[d]
  BY Applied DEF Execute, ExecuteLate
<1>2. CASE Execute(c)
  <2>1. PICK s \in Statuses : Answer(c, s)
    BY <1>2 DEF Execute, Statuses, Good, Unknown
  <2>2. Only(c) /\ cmd'[c].place = "answered" /\ cmd'[c].call = cmd[c].call
    BY <2>1, Answers
  <2> QED BY <1>1, <1>2, <2>2 DEF Execute, Alone, Runs
<1>3. CASE ExecuteLate(c)
  BY <1>1, <1>3 DEF ExecuteLate, Alone, Only, Runs, TypeOK
<1> QED BY <1>2, <1>3

LEMMA Waits ==
  ASSUME TypeOK, NEW c \in Cmds, Expire(c)
  PROVE  Alone(c) /\ Goes(c)
<1>0. cmd \in [Cmds -> States] /\ cmd[c] \in States
  BY DEF TypeOK
<1>1. Only(c) /\ cmd'[c].place = cmd[c].place /\ cmd'[c].call = cmd[c].call
  BY <1>0 DEF Expire, Only, States
<1> QED BY <1>1 DEF Expire, ServerStays, Alone, Goes, Done

LEMMA Kinds ==
  ASSUME TypeOK, [Next]_vars
  PROVE  \/ UNCHANGED <<cmd, ran, late>>
         \/ \E c \in Cmds : Alone(c) /\ (Goes(c) \/ Ends(c) \/ Runs(c))
<1>1. ASSUME NEW c \in Cmds, Work(c) \/ Serve(c)
      PROVE  Alone(c) /\ (Goes(c) \/ Ends(c) \/ Runs(c))
  BY <1>1, Resends, Stops, Continues, Fails, Executes DEF Work, Serve
<1>2. ASSUME NEW c \in Cmds, Settle(c) PROVE UNCHANGED <<cmd, ran, late>>
  BY <1>2 DEF Settle
<1> QED BY <1>1, <1>2, Resends, Stops, Executes, Waits DEF Next, vars

LEMMA IdleInvariant == Spec => []IdleInv
<1>1. Init => IdleInv
  BY DEF Init, IdleInv
<1>2. TypeOK /\ IdleInv /\ [Next]_vars => IdleInv'
  <2> SUFFICES ASSUME TypeOK, IdleInv, [Next]_vars PROVE IdleInv'
    OBVIOUS
  <2>1. CASE UNCHANGED <<cmd, ran, late>>
    BY <2>1 DEF IdleInv
  <2>2. ASSUME NEW c \in Cmds, Alone(c), Goes(c) \/ Ends(c) \/ Runs(c) PROVE IdleInv'
    BY <2>2 DEF IdleInv, Alone, Only, Goes, Ends, Runs, Done
  <2> QED BY <2>1, <2>2, Kinds
<1> QED BY <1>1, <1>2, CommandsTypeCorrect, PTL DEF Spec

-----------------------------------------------------------------------------
(* The fate of one write, and what its owner is told.                      *)
FateOf(c) ==
  IF ran[c] = 0 THEN IF Done(c) /\ ~late[c] THEN "void" ELSE "open"
  ELSE IF Repeated(c) THEN "twice" ELSE "done"

WordOf(c) ==
  IF ~Done(c) THEN "none"
  ELSE IF cmd[c].step = "poll" \/ cmd[c].exit \in Success THEN "yes"
  ELSE IF cmd[c].exit = "USAGE" \/ (Once(c) /\ cmd[c].exit \in Failure) THEN "no"
  ELSE "unknown"

LEMMA OneFate ==
  ASSUME NEW c \in Cmds, Alone(c)
  PROVE  /\ Fate' = [Fate EXCEPT ![c] = FateOf(c)'] /\ Word' = [Word EXCEPT ![c] = WordOf(c)']
         /\ Fate[c] = FateOf(c) /\ Word[c] = WordOf(c)
<1>1. Fate = [d \in Cmds |-> FateOf(d)] /\ Word = [d \in Cmds |-> WordOf(d)]
  <2>1. Fate = [d \in Cmds |-> FateOf(d)]
    BY Zenon DEF Fate, FateOf
  <2>2. Word = [d \in Cmds |-> WordOf(d)]
    BY Zenon DEF Word, WordOf, Success, Failure
  <2> QED BY <2>1, <2>2
<1>2. Fate' = [d \in Cmds |-> FateOf(d)'] /\ Word' = [d \in Cmds |-> WordOf(d)']
  <2>1. Fate' = [d \in Cmds |-> FateOf(d)']
    BY Zenon DEF Fate, FateOf
  <2>2. Word' = [d \in Cmds |-> WordOf(d)']
    BY Zenon DEF Word, WordOf, Success, Failure
  <2> QED BY <2>1, <2>2
<1>3. \A d \in Cmds : d # c => FateOf(d)' = FateOf(d) /\ WordOf(d)' = WordOf(d)
  BY DEF Alone, Only, FateOf, WordOf, Repeated, Once, Done
<1> HIDE DEF FateOf, WordOf
<1> QED BY <1>1, <1>2, <1>3

LEMMA NoRepeats ==
  ASSUME CommandsInv, NEW c \in Cmds
  PROVE  ~Repeated(c) /\ FateOf(c) \in {"open", "done", "void"}
<1>1. ~Repeated(c)
  BY DEF CommandsInv, OnceInv, Repeated, Many
<1> QED BY <1>1 DEF FateOf

LEMMA GoingFate ==
  ASSUME CommandsInv, CommandsInv', NEW c \in Cmds, Alone(c), Goes(c)
  PROVE  UNCHANGED <<Fate, Word>>
<1>1. FateOf(c)' = FateOf(c) /\ WordOf(c)' = WordOf(c)
  BY DEF Goes, Alone, FateOf, WordOf, Repeated, Once
<1>2. Fate' = [Fate EXCEPT ![c] = Fate[c]] /\ Word' = [Word EXCEPT ![c] = Word[c]]
  BY <1>1, OneFate
<1>3. Fate' = Fate
  BY <1>2 DEF Fate
<1>4. Word' = Word
  BY <1>2 DEF Word
<1> QED BY <1>3, <1>4

LEMMA RunningFate ==
  ASSUME CommandsInv, CommandsInv', NEW c \in Cmds, Alone(c), Runs(c)
  PROVE  UNCHANGED <<Fate, Word>> \/ Deliveries!Execute(c)
<1>1. WordOf(c)' = WordOf(c)
  BY DEF Runs, WordOf, Done, Once
<1>2. FateOf(c)' = "done"
  <2>1. ran'[c] # 0 /\ ~Repeated(c)'
    BY NoRepeats DEF Runs, Count, Many, CommandsInv, OnceInv, Repeated
  <2> QED BY <2>1 DEF FateOf
<1>3. FateOf(c) \in {"open", "done"}
  BY NoRepeats DEF Runs, FateOf, Done
<1>4. UNCHANGED Word
  <2>1. Word' = [Word EXCEPT ![c] = Word[c]]
    BY <1>1, OneFate
  <2> QED BY <2>1 DEF Word
<1>5. CASE FateOf(c) = "open"
  BY <1>2, <1>4, <1>5, OneFate DEF Deliveries!Execute
<1>6. CASE FateOf(c) = "done"
  <2>1. Fate' = [Fate EXCEPT ![c] = Fate[c]]
    BY <1>2, <1>6, OneFate
  <2> QED BY <1>4, <2>1 DEF Fate
<1> QED BY <1>3, <1>5, <1>6

LEMMA EndingFate ==
  ASSUME CommandsInv, CommandsInv', IdleInv, NEW c \in Cmds, Alone(c), Ends(c)
  PROVE  Deliveries!Tell(c)
<1>1. WordOf(c) = "none" /\ WordOf(c)' \in {"yes", "no", "unknown"}
  BY DEF Ends, WordOf
<1>2. FateOf(c)' # FateOf(c) => FateOf(c) = "open" /\ FateOf(c)' = "void"
  BY NoRepeats DEF Ends, Alone, FateOf, Repeated, Once
<1>3. WordOf(c)' = "yes" => FateOf(c)' = "done"
  <2>1. WordOf(c)' = "yes" => Known(c)'
    BY DEF WordOf, Known, Done
  <2>2. Known(c)' => ran'[c] # 0
    BY DEF CommandsInv, OnceInv
  <2>3. ~Repeated(c)'
    BY NoRepeats DEF CommandsInv, OnceInv, Repeated, Many
  <2> QED BY <2>1, <2>2, <2>3 DEF FateOf
<1>4. WordOf(c)' = "no" => FateOf(c)' = "void"
  <2>1. CASE cmd'[c].exit = "USAGE"
    BY <2>1 DEF Ends, IdleInv, FateOf
  <2>2. CASE Once(c)' /\ cmd'[c].exit \in Failure /\ cmd'[c].step # "poll"
    <3>1. cmd'[c].step \in {"read", "write", "poll"} /\ cmd'[c].place = "done"
      BY DEF CommandsInv, TypeOK, States, Ends, Done
    <3>2. Pure(c)'
      BY <2>2, <3>1 DEF Pure
    <3> QED BY <2>2, <3>2 DEF CommandsInv, OnceInv, FateOf, Ends
  <2> QED BY <2>1, <2>2 DEF WordOf
<1>5. FateOf(c)' \in {"open", "done", "void"}
  BY <1>2, NoRepeats
<1> QED BY <1>1, <1>2, <1>3, <1>4, <1>5, OneFate DEF Deliveries!Tell

(* However a command is retried, renewed, cut off or executed late, it is  *)
(* one delivery, and its exit code is true for good (client.py 239,        *)
(* exits.py).                                                              *)
THEOREM DeliversOnce == Spec => OneDelivery
<1>1. Init => Deliveries!DInit
  <2> SUFFICES ASSUME Init PROVE Deliveries!DInit
    OBVIOUS
  <2>1. \A c \in Cmds : ~Done(c) /\ ran[c] = 0
    BY DEF Init, Done
  <2> QED BY <2>1 DEF Fate, Word, Deliveries!DInit
<1>2. CommandsInv /\ CommandsInv' /\ IdleInv /\ [Next]_vars => [Deliveries!DNext]_<<Fate, Word>>
  <2> SUFFICES ASSUME CommandsInv, CommandsInv', IdleInv, [Next]_vars
               PROVE  Deliveries!DNext \/ UNCHANGED <<Fate, Word>>
    OBVIOUS
  <2>1. CASE UNCHANGED <<cmd, ran, late>>
    BY <2>1 DEF Fate, Word, Repeated, Once, Done
  <2>2. ASSUME NEW c \in Cmds, Alone(c), Goes(c) \/ Ends(c) \/ Runs(c)
        PROVE  Deliveries!DNext \/ UNCHANGED <<Fate, Word>>
    BY <2>2, GoingFate, RunningFate, EndingFate DEF Deliveries!DNext
  <2> QED BY <2>1, <2>2, Kinds DEF CommandsInv
<1> QED BY <1>1, <1>2, CommandsInvariant, IdleInvariant, PTL
  DEF Spec, OneDelivery, Deliveries!DSpec, Deliveries!dvars

-----------------------------------------------------------------------------
(* The way to the end.  A step that leaves less to do makes one component  *)
(* smaller and none before it different.                                   *)
LEMMA Smaller ==
  ASSUME NEW r, NEW s, NEW k \in 1..8, r[k] < s[k], \A i \in 1..8 : i < k => r[i] = s[i]
  PROVE  Less(r, s)
<1>1. \A i \in 1..(k - 1) : r[i] = s[i]
  OBVIOUS
<1> QED BY <1>1 DEF Less

Components(d) ==
  /\ Left(d)[1] = Phase(d) /\ Left(d)[2] = Flag(~d.expired)
  /\ Left(d)[3] = IF d.step = "poll" THEN Cardinality(d.todo) ELSE 0
  /\ Left(d)[4] = Flag(d.step = "poll" /\ d.place = "answered" /\ d.status \in Good)
  /\ Left(d)[5] = Flag(d.renewable /\ ~d.renewed) /\ Left(d)[6] = Flag(d.step = "read")
  /\ Left(d)[7] = MaxRetries - d.attempt /\ Left(d)[8] = Flag(d.place = "sent")

LEMMA Parts == ASSUME NEW d PROVE Components(d)
  BY DEF Components, Left

(* Everything left is a number: it cannot become less for ever.            *)
LEMMA Grounded ==
  ASSUME NEW d \in States, NEW i \in 1..8
  PROVE  Left(d)[i] \in Nat
<1>1. Phase(d) \in Nat /\ \A b \in BOOLEAN : Flag(b) \in Nat
  BY DEF Phase, Flag
<1>2. Left(d)[3] \in Nat
  <2>1. IsFiniteSet(d.todo)
    BY CommandsAssumption, FS_Subset DEF States
  <2>2. Cardinality(d.todo) \in Nat
    BY <2>1, FS_CardinalityType
  <2> QED BY <2>2, Parts DEF Components
<1>3. Left(d)[7] \in Nat
  <2>1. d.attempt \in 0..MaxRetries
    BY DEF States
  <2> QED BY <2>1, Parts, CommandsAssumption DEF Components
<1>4. \A k \in {2, 4, 5, 6, 8} : Left(d)[k] \in Nat
  BY <1>1, Parts DEF Components, Flag
<1>5. Left(d)[1] \in Nat
  BY <1>1, Parts DEF Components
<1> QED BY <1>2, <1>3, <1>4, <1>5

(* The end itself.                                                         *)
LEMMA EndsLeft ==
  ASSUME NEW d \in States, NEW e \in States, d.place # "done", e.place = "done"
  PROVE  Less(Left(e), Left(d))
<1>1. Phase(e) = 0 /\ Phase(d) > 0
  BY DEF Phase
<1>2. Left(e)[1] < Left(d)[1]
  BY <1>1, Parts DEF Components
<1> QED BY <1>2, Smaller

(* An answer that leaves the polls as they are.                            *)
LEMMA AnsweredLeft ==
  ASSUME NEW d \in States, NEW e \in States, d.place = "sent", e.place = "answered",
         e.step = d.step, e.expired = d.expired, e.todo = d.todo, e.renewable = d.renewable,
         e.renewed = d.renewed, e.attempt = d.attempt,
         d.step = "poll" => e.status \notin Good
  PROVE  Less(Left(e), Left(d))
<1>1. Phase(e) = Phase(d)
  BY DEF Phase
<1>2. Left(e)[4] = Left(d)[4]
  BY Parts DEF Components, Flag
<1>3. \A i \in 1..7 : Left(e)[i] = Left(d)[i]
  BY <1>1, <1>2, Parts DEF Components
<1>4. Left(e)[8] < Left(d)[8]
  BY Parts DEF Components, Flag
<1> QED BY <1>3, <1>4, Smaller

(* The same request once more.                                             *)
LEMMA RetriedLeft ==
  ASSUME NEW d \in States, NEW e \in States, d.place = "answered", e.place = "sent",
         e.step = d.step, e.expired = d.expired, e.todo = d.todo, e.renewable = d.renewable,
         e.renewed = d.renewed, e.attempt = d.attempt + 1, d.status \notin Good
  PROVE  Less(Left(e), Left(d))
<1>1. Phase(e) = Phase(d)
  BY DEF Phase
<1>2. Left(e)[4] = Left(d)[4]
  BY Parts DEF Components, Flag
<1>3. \A i \in 1..6 : Left(e)[i] = Left(d)[i]
  BY <1>1, <1>2, Parts DEF Components
<1>4. Left(e)[7] < Left(d)[7]
  <2>1. d.attempt \in Int /\ MaxRetries \in Int
    BY CommandsAssumption DEF States
  <2> QED BY <2>1, Parts DEF Components
<1> QED BY <1>3, <1>4, Smaller

(* From the first request again, with a renewed token.                     *)
LEMMA RenewedLeft ==
  ASSUME NEW d \in States, NEW e \in States, d.place = "answered", e.place = "sent",
         e.step = "poll" <=> d.step = "poll", e.expired = d.expired, e.todo = d.todo,
         d.renewable, ~d.renewed, e.renewed, d.status \notin Good
  PROVE  Less(Left(e), Left(d))
<1>1. Phase(e) = Phase(d)
  BY DEF Phase
<1>2. Left(e)[4] = Left(d)[4]
  BY Parts DEF Components, Flag
<1>3. \A i \in 1..4 : Left(e)[i] = Left(d)[i]
  BY <1>1, <1>2, Parts DEF Components
<1>4. Left(e)[5] < Left(d)[5]
  BY Parts DEF Components, Flag
<1> QED BY <1>3, <1>4, Smaller

(* The time is up.                                                         *)
LEMMA ExpiredLeft ==
  ASSUME NEW d \in States, NEW e \in States, e.place = d.place, e.step = d.step,
         ~d.expired, e.expired
  PROVE  Less(Left(e), Left(d))
<1>1. Left(e)[1] = Left(d)[1]
  BY Parts DEF Components, Phase
<1>2. Left(e)[2] < Left(d)[2]
  BY Parts DEF Components, Flag
<1> QED BY <1>1, <1>2, Smaller

(* The first request, and that of the first poll.                          *)
LEMMA AdvancedLeft ==
  ASSUME NEW d \in States, NEW e \in States, e.place = "sent",
         \/ d.place = "idle"
         \/ d.place = "answered" /\ d.step # "poll" /\ e.step = "poll"
  PROVE  Less(Left(e), Left(d))
<1>1. Left(e)[1] < Left(d)[1]
  BY Parts DEF Components, Phase
<1> QED BY <1>1, Smaller

(* The write of a merge after its read.                                    *)
LEMMA ReadLeft ==
  ASSUME NEW d \in States, NEW e \in States, d.place = "answered", e.place = "sent",
         d.step = "read", e.step = "write", e.expired = d.expired, e.renewable = d.renewable,
         e.renewed = d.renewed
  PROVE  Less(Left(e), Left(d))
<1>1. Left(e)[1] = Left(d)[1] /\ Left(e)[4] = Left(d)[4]
  BY Parts DEF Components, Phase, Flag
<1>2. \A i \in 1..5 : Left(e)[i] = Left(d)[i]
  BY <1>1, Parts DEF Components
<1>3. Left(e)[6] < Left(d)[6]
  BY Parts DEF Components, Flag
<1> QED BY <1>2, <1>3, Smaller

(* The next poll of the round, and its answer.                             *)
LEMMA PollLeft ==
  ASSUME NEW d \in States, NEW e \in States, d.place = "answered", e.place = "sent",
         d.status \in Good, d.step = "poll", e.step = "poll", e.expired = d.expired,
         e.todo = d.todo
  PROVE  Less(Left(e), Left(d))
<1>1. Left(e)[1] = Left(d)[1]
  BY Parts DEF Components, Phase
<1>2. \A i \in 1..3 : Left(e)[i] = Left(d)[i]
  BY <1>1, Parts DEF Components
<1>3. Left(e)[4] < Left(d)[4]
  BY Parts DEF Components, Flag
<1> QED BY <1>2, <1>3, Smaller

LEMMA OneFewer ==
  ASSUME NEW todo \in SUBSET Jobs, NEW j \in todo
  PROVE  Cardinality(todo) \in Nat /\ Cardinality(todo \ {j}) = Cardinality(todo) - 1
<1>1. IsFiniteSet(todo)
  BY CommandsAssumption, FS_Subset
<1>2. Cardinality(todo) \in Nat
  BY <1>1, FS_CardinalityType
<1>3. Cardinality(todo \ {j}) = Cardinality(todo) - 1
  BY <1>1, FS_RemoveElement
<1> QED BY <1>2, <1>3

LEMMA ShownLeft ==
  ASSUME NEW d \in States, NEW e \in States, d.place = "sent", e.place = "answered",
         d.step = "poll", e.step = "poll", e.expired = d.expired, NEW n \in Nat,
         Cardinality(d.todo) = n, Cardinality(e.todo) = n - 1
  PROVE  Less(Left(e), Left(d))
<1>1. Left(e)[1] = Left(d)[1] /\ Left(e)[2] = Left(d)[2]
  BY Parts DEF Components, Phase
<1>2. Left(e)[3] < Left(d)[3]
  BY Parts DEF Components
<1> QED BY <1>1, <1>2, Smaller

-----------------------------------------------------------------------------
(* The steps.                                                              *)
Nearer(c) == Only(c) /\ (Less(Left(cmd'[c]), Left(cmd[c])) \/ NewRound(c))

LEMMA FinishNearer ==
  ASSUME TypeOK, NEW c \in Cmds, NEW code \in Exits, Finish(c, code), ~Done(c)
  PROVE  Nearer(c)
<1>1. cmd[c] \in States /\ cmd'[c] \in States /\ cmd'[c].place = "done" /\ Only(c)
  BY Finished DEF TypeOK
<1> QED BY <1>1, EndsLeft DEF Nearer, Done

LEMMA StopNearer ==
  ASSUME TypeOK, NEW c \in Cmds, RefuseLocally(c) \/ Fail(c) \/ RenewFails(c)
  PROVE  Nearer(c)
<1>1. ~Done(c) /\ \E code \in Exits : Finish(c, code)
  <2>1. ExitOf(cmd[c].status) \in Exits
    BY DEF ExitOf, Exits
  <2>2. ~Done(c)
    BY DEF RefuseLocally, Fail, RenewFails, Answered, Done
  <2>3. \/ Finish(c, "USAGE") \/ Finish(c, ExitOf(cmd[c].status))
        \/ Finish(c, "AUTH") \/ Finish(c, "UNAVAILABLE") \/ Finish(c, "FAILED")
    BY DEF RefuseLocally, Fail, RenewFails
  <2> QED BY <2>1, <2>2, <2>3 DEF Exits
<1> QED BY <1>1, FinishNearer

LEMMA AnswerNearer ==
  ASSUME TypeOK, NEW c \in Cmds, NEW r \in Statuses, Answer(c, r), cmd[c].place = "sent",
         cmd[c].step = "poll" => r \notin Good
  PROVE  Nearer(c)
<1> DEFINE s == [cmd[c] EXCEPT !.place = "answered", !.status = r]
<1>1. cmd[c] \in States /\ cmd' = [cmd EXCEPT ![c] = s]
  BY DEF TypeOK, Answer
<1>2. s \in States
  BY <1>1, Values DEF States
<1>3. Less(Left(s), Left(cmd[c]))
  <2>1. /\ s.place = "answered" /\ s.step = cmd[c].step /\ s.expired = cmd[c].expired
        /\ s.todo = cmd[c].todo /\ s.renewable = cmd[c].renewable /\ s.renewed = cmd[c].renewed
        /\ s.attempt = cmd[c].attempt /\ s.status = r
    BY <1>1 DEF States
  <2> HIDE DEF s
  <2> QED BY <1>1, <1>2, <2>1, AnsweredLeft
<1> HIDE DEF s
<1> QED BY <1>1, <1>2, <1>3, Becomes DEF Nearer

LEMMA ServeNearer ==
  ASSUME TypeOK, NEW c \in Cmds, Refuse(c) \/ Execute(c) \/ Lose(c)
  PROVE  Nearer(c)
<1>1. cmd[c].place = "sent"
  BY DEF Refuse, Execute, Lose
<1>2. \E r \in Statuses : Answer(c, r) /\ (cmd[c].step = "poll" => r \notin Good)
  BY DEF Refuse, Execute, Lose, Statuses, Good, NotRun, Unknown
<1> QED BY <1>1, <1>2, AnswerNearer

LEMMA ShowNearer ==
  ASSUME TypeOK, NEW c \in Cmds, ShowRecord(c) \/ ShowJob(c)
  PROVE  Nearer(c)
<1>0. cmd[c] \in States
  BY DEF TypeOK
<1>1. CASE ShowRecord(c)
  <2> DEFINE s == [cmd[c] EXCEPT !.place = "answered", !.status = "ok", !.seen = doc]
  <2>1. cmd' = [cmd EXCEPT ![c] = s] /\ cmd[c].place = "sent" /\ cmd[c].step = "read"
    BY <1>1 DEF ShowRecord
  <2>2. s \in States
    BY <1>0, Values DEF States, TypeOK
  <2>3. /\ s.place = "answered" /\ s.step = cmd[c].step /\ s.expired = cmd[c].expired
        /\ s.todo = cmd[c].todo /\ s.renewable = cmd[c].renewable /\ s.renewed = cmd[c].renewed
        /\ s.attempt = cmd[c].attempt
    BY <1>0 DEF States
  <2> HIDE DEF s
  <2> QED BY <1>0, <2>1, <2>2, <2>3, Becomes, AnsweredLeft DEF Nearer
<1>2. CASE ShowJob(c)
  <2>1. PICK j \in cmd[c].todo :
          cmd' = [cmd EXCEPT ![c].place = "answered", ![c].status = "ok",
                             ![c].saw[j] = job[c][j], ![c].todo = @ \ {j}]
    BY <1>2 DEF ShowJob
  <2> DEFINE saw == [cmd[c].saw EXCEPT ![j] = job[c][j]]
             todo == cmd[c].todo \ {j}
             s == [cmd[c] EXCEPT !.place = "answered", !.status = "ok", !.saw = saw, !.todo = todo]
  <2>2. cmd' = [cmd EXCEPT ![c] = s]
    BY <1>0, <2>1 DEF TypeOK, States
  <2>3. saw \in [Jobs -> JobStates] /\ todo \in SUBSET Jobs
    BY <1>0 DEF States, TypeOK
  <2> HIDE DEF saw
  <2>4. s \in States
    BY <1>0, <2>3, Values DEF States
  <2>5. /\ s.place = "answered" /\ s.step = cmd[c].step /\ s.expired = cmd[c].expired
        /\ s.todo = cmd[c].todo \ {j}
    BY <1>0 DEF States
  <2>6. cmd[c].place = "sent" /\ cmd[c].step = "poll" /\ cmd[c].todo \in SUBSET Jobs
    BY <1>0, <1>2 DEF ShowJob, States
  <2>7. Cardinality(cmd[c].todo) \in Nat /\ Cardinality(s.todo) = Cardinality(cmd[c].todo) - 1
    BY <2>5, <2>6, OneFewer, Zenon
  <2> HIDE DEF s
  <2>8. Less(Left(s), Left(cmd[c]))
    BY <1>0, <2>4, <2>5, <2>6, <2>7, ShownLeft
  <2> QED BY <2>2, <2>4, <2>8, Becomes DEF Nearer
<1> QED BY <1>1, <1>2

LEMMA ResendNearer ==
  ASSUME TypeOK, NEW c \in Cmds, Start(c) \/ Retry(c) \/ Renew(c)
  PROVE  Nearer(c)
<1>0. cmd[c] \in States /\ cmd[c].call \in Calls
  BY DEF TypeOK, States
<1>1. CASE Start(c)
  <2> DEFINE s == [cmd[c] EXCEPT !.call.check = "none", !.place = "sent",
                                 !.step = First(cmd[c].script)]
  <2>1. cmd' = [cmd EXCEPT ![c] = s] /\ cmd[c].place = "idle"
    BY <1>1 DEF Start
  <2>2. [cmd[c].call EXCEPT !.check = "none"] \in Calls /\ First(cmd[c].script) \in {"read", "write"}
    BY <1>0 DEF Calls, First
  <2>3. s \in States
    BY <1>0, <2>2, Values DEF States
  <2>4. s.place = "sent"
    BY <1>0 DEF States
  <2> HIDE DEF s
  <2> QED BY <1>0, <2>1, <2>3, <2>4, Becomes, AdvancedLeft DEF Nearer
<1>2. CASE Retry(c)
  <2> DEFINE s == [cmd[c] EXCEPT !.place = "sent", !.attempt = @ + 1]
  <2>1. /\ cmd' = [cmd EXCEPT ![c] = s] /\ cmd[c].place = "answered"
        /\ cmd[c].status \notin Good /\ cmd[c].attempt < MaxRetries
    BY <1>2 DEF Retry, ShouldRetry, Good
  <2>2. cmd[c].attempt + 1 \in 0..MaxRetries
    BY <1>0, <2>1, CommandsAssumption DEF States
  <2>3. s \in States
    BY <1>0, <2>2, Values DEF States
  <2>4. /\ s.place = "sent" /\ s.step = cmd[c].step /\ s.expired = cmd[c].expired
        /\ s.todo = cmd[c].todo /\ s.renewable = cmd[c].renewable /\ s.renewed = cmd[c].renewed
        /\ s.attempt = cmd[c].attempt + 1
    BY <1>0 DEF States
  <2> HIDE DEF s
  <2> QED BY <1>0, <2>1, <2>3, <2>4, Becomes, RetriedLeft DEF Nearer
<1>3. CASE Renew(c)
  <2> DEFINE step == IF cmd[c].step = "poll" THEN "poll" ELSE First(cmd[c].script)
             s == [cmd[c] EXCEPT !.place = "sent", !.renewed = TRUE, !.attempt = 0, !.step = step]
  <2>1. /\ cmd' = [cmd EXCEPT ![c] = s] /\ cmd[c].place = "answered"
        /\ cmd[c].status \notin Good /\ cmd[c].renewable /\ ~cmd[c].renewed
    BY <1>3 DEF Renew, Answered, Renews, Good
  <2>2. step \in {"read", "write", "poll"} /\ (step = "poll" <=> cmd[c].step = "poll")
    BY <1>0 DEF First, States
  <2> HIDE DEF step
  <2>3. s \in States
    BY <1>0, <2>2, Values DEF States
  <2>4. /\ s.place = "sent" /\ s.step = step /\ s.expired = cmd[c].expired
        /\ s.todo = cmd[c].todo /\ s.renewed
    BY <1>0 DEF States
  <2> HIDE DEF s
  <2> QED BY <1>0, <2>1, <2>2, <2>3, <2>4, Becomes, RenewedLeft DEF Nearer
<1> QED BY <1>1, <1>2, <1>3

LEMMA ExpireNearer ==
  ASSUME TypeOK, NEW c \in Cmds, Expire(c)
  PROVE  Nearer(c)
<1> DEFINE s == [cmd[c] EXCEPT !.expired = TRUE]
<1>1. cmd[c] \in States /\ cmd' = [cmd EXCEPT ![c] = s] /\ ~cmd[c].expired
  BY DEF TypeOK, Expire
<1>2. s \in States /\ s.place = cmd[c].place /\ s.step = cmd[c].step /\ s.expired
  BY <1>1 DEF States
<1> HIDE DEF s
<1> QED BY <1>1, <1>2, Becomes, ExpiredLeft DEF Nearer

LEMMA SucceedNearer ==
  ASSUME TypeOK, NEW c \in Cmds, Succeed(c)
  PROVE  Nearer(c)
<1>0. cmd[c] \in States /\ cmd[c].place = "answered" /\ cmd[c].status \in Good
  BY DEF TypeOK, Succeed, Answered
<1>1. ASSUME NEW code \in Exits, Finish(c, code) PROVE Nearer(c)
  BY <1>0, <1>1, FinishNearer DEF Done
<1>2. ASSUME NEW step \in {"write", "poll"}, NEW todo \in SUBSET Jobs, Proceed(c, step, todo),
             \/ cmd[c].step = "read" /\ step = "write"
             \/ cmd[c].step = "write" /\ step = "poll"
             \/ cmd[c].step = "poll" /\ step = "poll" /\ todo = cmd[c].todo
             \/ /\ cmd[c].step = "poll" /\ cmd[c].todo = {} /\ ~cmd[c].expired
                /\ todo = Pending(c) /\ Pending(c) # {}
      PROVE  Nearer(c)
  <2> DEFINE renewed == cmd[c].renewed /\ step = "write"
             s == [cmd[c] EXCEPT !.place = "sent", !.step = step, !.attempt = 0, !.todo = todo,
                                 !.renewed = renewed]
  <2>1. cmd' = [cmd EXCEPT ![c] = s]
    BY <1>2 DEF Proceed
  <2>2. renewed \in BOOLEAN /\ (step = "write" => renewed = cmd[c].renewed)
    BY <1>0 DEF States
  <2> HIDE DEF renewed
  <2>3. s \in States
    BY <1>0, <2>2, Values DEF States
  <2>4. /\ s.place = "sent" /\ s.step = step /\ s.expired = cmd[c].expired /\ s.todo = todo
        /\ s.renewable = cmd[c].renewable /\ s.renewed = renewed
    BY <1>0 DEF States
  <2> HIDE DEF s
  <2>5. cmd'[c] = s /\ Only(c)
    BY <2>1, <2>3, Becomes
  <2>6. CASE cmd[c].step = "read" /\ step = "write"
    BY <1>0, <2>2, <2>3, <2>4, <2>5, <2>6, ReadLeft DEF Nearer
  <2>7. CASE cmd[c].step = "write" /\ step = "poll"
    BY <1>0, <2>3, <2>4, <2>5, <2>7, AdvancedLeft DEF Nearer
  <2>8. CASE cmd[c].step = "poll" /\ step = "poll" /\ todo = cmd[c].todo
    BY <1>0, <2>3, <2>4, <2>5, <2>8, PollLeft DEF Nearer
  <2>9. CASE /\ cmd[c].step = "poll" /\ cmd[c].todo = {} /\ ~cmd[c].expired
             /\ todo = Pending(c) /\ Pending(c) # {}
    BY <2>4, <2>5, <2>9 DEF Nearer, NewRound
  <2> QED BY <1>2, <2>6, <2>7, <2>8, <2>9
<1>3. JobIds(c) \in SUBSET Jobs /\ Pending(c) \in SUBSET Jobs /\ cmd[c].todo \in SUBSET Jobs
  BY <1>0 DEF JobIds, Pending, States
<1>4. CASE cmd[c].step = "read"
  <2>1. Proceed(c, "write", {})
    BY <1>4 DEF Succeed
  <2> QED BY <1>2, <1>4, <2>1
<1>5. CASE cmd[c].step = "write"
  <2>1. Proceed(c, "poll", JobIds(c)) \/ Finish(c, "NOTHING_STORED") \/ Finish(c, "OK")
    BY <1>5 DEF Succeed
  <2> QED BY <1>1, <1>2, <1>3, <1>5, <2>1 DEF Exits
<1>6. CASE cmd[c].step = "poll"
  <2>1. Outcome(c) \in Exits
    BY DEF Outcome, Exits
  <2>2. \/ Proceed(c, "poll", cmd[c].todo)
        \/ /\ Proceed(c, "poll", Pending(c))
           /\ cmd[c].todo = {} /\ Pending(c) # {} /\ ~cmd[c].expired
        \/ Finish(c, Outcome(c)) \/ Finish(c, "NOTHING_STORED") \/ Finish(c, "OK")
    BY <1>6 DEF Succeed
  <2> QED BY <1>1, <1>2, <1>3, <1>6, <2>1, <2>2 DEF Exits
<1> QED BY <1>0, <1>4, <1>5, <1>6 DEF States

(* Retries, the one renewal, the polls of a round and the requests of a    *)
(* script are used up one after another, for any number of retries and any *)
(* jobs; only jobs that still run are polled again before the time is up   *)
(* (memory.py 238).                                                        *)
THEOREM UsedUp == Spec => LeavesLess
<1> DEFINE Spends(c) == cmd'[c] # cmd[c] => Less(Left(cmd'[c]), Left(cmd[c])) \/ NewRound(c)
<1>1. TypeOK /\ [Next]_vars => [\A c \in Cmds : Spends(c)]_vars
  <2> SUFFICES ASSUME TypeOK, Next, NEW c \in Cmds PROVE Spends(c)
    BY DEF vars
  <2>1. ASSUME NEW d \in Cmds, Nearer(d) PROVE Spends(c)
    BY <2>1 DEF Nearer, Only
  <2>2. ASSUME NEW d \in Cmds, ExecuteLate(d) \/ Settle(d) PROVE Spends(c)
    BY <2>2 DEF ExecuteLate, Settle
  <2>3. ASSUME NEW d \in Cmds, Work(d) PROVE Nearer(d)
    BY <2>3, ResendNearer, SucceedNearer, StopNearer DEF Work
  <2>4. ASSUME NEW d \in Cmds, Serve(d) PROVE Nearer(d)
    BY <2>4, ServeNearer, ShowNearer DEF Serve
  <2> QED BY <2>1, <2>2, <2>3, <2>4, ResendNearer, StopNearer, ExpireNearer DEF Next
<1> QED BY <1>1, CommandsTypeCorrect, PTL DEF Spec, LeavesLess

=============================================================================
