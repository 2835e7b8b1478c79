---------------------------- MODULE CredentialLock ----------------------------
(***************************************************************************)
(* The lock of one credential file, system call by system call:            *)
(* anona/cli/tokens.py `_node_lock` and `credential_lock`, and             *)
(* typescript/src/cli/tokens.ts `withLock`.                                *)
(*                                                                         *)
(* Two schemes are layered.  Everybody creates `<file>.nodelock` with      *)
(* O_EXCL and unlinks it afterwards; Python then also takes an flock on    *)
(* `<file>.lock`.  A waiter that finds the lock file older than the        *)
(* staleness limit takes its owner for dead and unlinks it.  The stat and  *)
(* the unlink are two system calls, and neither the unlink of a waiter nor *)
(* the one of a release looks at whose file it removes.                    *)
(*                                                                         *)
(* Each member of Procs is one acquisition by one process.  Time is a      *)
(* count of ticks: Stale and Timeout are the two limits in that unit.      *)
(***************************************************************************)
EXTENDS Naturals, FiniteSets

CONSTANTS
  Procs,      \* acquisitions, each by a process of its own
  Python,     \* those made by the Python package
  Nobody,     \* owner of no lock file, holder of no flock
  Stale,      \* NODELOCK_STALE_SECONDS, lockTuning.staleMs
  Timeout,    \* NODELOCK_TIMEOUT_SECONDS, lockTuning.acquireTimeoutMs
  MaxDeaths,  \* bound: how many processes are killed or fail over a lock file
  Stalls      \* may a live owner keep its lock file past the staleness limit?

ASSUME LockAssumption ==
  /\ Python \subseteq Procs
  /\ Nobody \notin Procs
  /\ Stale \in Nat
  /\ Timeout \in Nat
  /\ MaxDeaths \in Nat
  /\ Stalls \in BOOLEAN

VARIABLES
  owner,      \* who created the lock file that exists now, or Nobody
  age,        \* ticks since it was created, counted up to Stale + 1
  flock,      \* the process holding the flock on `<file>.lock`, or Nobody
  pc,         \* where each acquisition is
  waited,     \* ticks each has been waiting, counted up to Timeout + 1
  stolen      \* history: a lock file was removed from under a live owner

vars == <<owner, age, flock, pc, waited, stolen>>

(* Definitions marked "Mutant" are deliberately broken variants of the one *)
(* that follows them.  No specification uses them: they are put in its     *)
(* place to see that a property notices.                                   *)

(* "open", "stat", "unlink" and "sleep" are the waiting loop; "flock" is   *)
(* Python's second lock; "critical" is the body of the `with`; "release"   *)
(* is between the body and the final unlink; "failed" is an error of the   *)
(* file system that leaves the lock file behind a process that lives on.   *)
Waiting == {"open", "stat", "unlink", "sleep"}
Relying == {"flock", "critical", "release"}
Over    == {"done", "gaveup", "dead", "failed"}

TypeOK ==
  /\ owner  \in Procs \cup {Nobody}
  /\ age    \in 0..(Stale + 1)
  /\ flock  \in Procs \cup {Nobody}
  /\ flock  # Nobody => pc[flock] = "critical"
  /\ pc     \in [Procs -> {"new"} \cup Waiting \cup Relying \cup Over]
  /\ waited \in [Procs -> 0..(Timeout + 1)]
  /\ stolen \in BOOLEAN

Init ==
  /\ owner  = Nobody
  /\ age    = 0
  /\ flock  = Nobody
  /\ pc     = [p \in Procs |-> "new"]
  /\ waited = [p \in Procs |-> 0]
  /\ stolen = FALSE

At(p, l)   == pc[p] = l
Goto(p, l) == pc' = [pc EXCEPT ![p] = l]

NoFile  == owner = Nobody

Left(p) == pc[p] \in {"dead", "failed"}
MayFail == Cardinality({p \in Procs : Left(p)}) < MaxDeaths

\* Mutant: takes an owner for dead one tick early.
StaleEarly == age >= Stale
IsStale == age > Stale

(* Unlinking never looks at the owner.  It is a theft when the file it     *)
(* removes is one another live process counts on.                          *)
RemoveFile(p) ==
  /\ owner'  = Nobody
  /\ age'    = 0
  /\ stolen' = (stolen \/ \E q \in Procs \ {p} : owner = q /\ pc[q] \in Relying)

-----------------------------------------------------------------------------
Start(p) ==
  /\ At(p, "new")
  /\ Goto(p, "open")
  /\ UNCHANGED <<owner, age, flock, waited, stolen>>

\* Mutant: O_EXCL forgotten.
CreateAnyway(p) ==
  /\ At(p, "open")
  /\ owner' = p
  /\ age' = 0
  /\ Goto(p, IF p \in Python THEN "flock" ELSE "critical")
  /\ UNCHANGED <<flock, waited, stolen>>

\* Mutant: Python relies on the lock file alone.
CreateWithoutFlock(p) ==
  /\ At(p, "open")
  /\ NoFile
  /\ owner' = p
  /\ age' = 0
  /\ Goto(p, "critical")
  /\ UNCHANGED <<flock, waited, stolen>>

(* O_CREAT | O_EXCL: create the file, or learn that there is one.          *)
Create(p) ==
  /\ At(p, "open")
  /\ NoFile
  /\ owner' = p
  /\ age' = 0
  /\ Goto(p, IF p \in Python THEN "flock" ELSE "critical")
  /\ UNCHANGED <<flock, waited, stolen>>

(* The file is there, but writing or closing it fails: that raises before  *)
(* the `try` that would unlink it.                                         *)
CreateFails(p) ==
  /\ At(p, "open")
  /\ NoFile /\ MayFail
  /\ owner' = p
  /\ age' = 0
  /\ Goto(p, "failed")
  /\ UNCHANGED <<flock, waited, stolen>>

Exists(p) ==
  /\ At(p, "open")
  /\ ~NoFile
  /\ Goto(p, "stat")
  /\ UNCHANGED <<owner, age, flock, waited, stolen>>

(* The stat decides: gone (open again at once), stale (unlink it), out of  *)
(* time (raise), or sleep.  The clock is only looked at when the file is   *)
(* there and not stale.                                                    *)
StatGone(p) ==
  /\ At(p, "stat")
  /\ NoFile
  /\ Goto(p, "open")
  /\ UNCHANGED <<owner, age, flock, waited, stolen>>

\* Mutant: no stale recovery, so an abandoned file is polled for ever.
PollStale(p) ==
  /\ At(p, "stat")
  /\ ~NoFile
  /\ IsStale
  /\ Goto(p, "open")
  /\ UNCHANGED <<owner, age, flock, waited, stolen>>

StatStale(p) ==
  /\ At(p, "stat")
  /\ ~NoFile
  /\ IsStale
  /\ Goto(p, "unlink")
  /\ UNCHANGED <<owner, age, flock, waited, stolen>>

StatBusy(p) ==
  /\ At(p, "stat")
  /\ ~NoFile
  /\ ~IsStale
  /\ Goto(p, IF waited[p] > Timeout THEN "gaveup" ELSE "sleep")
  /\ UNCHANGED <<owner, age, flock, waited, stolen>>

Wake(p) ==
  /\ At(p, "sleep")
  /\ Goto(p, "open")
  /\ UNCHANGED <<owner, age, flock, waited, stolen>>

(* Stale recovery.  Finding nothing to unlink is not an error either.      *)
TakeOver(p) ==
  /\ At(p, "unlink")
  /\ RemoveFile(p)
  /\ Goto(p, "open")
  /\ UNCHANGED <<flock, waited>>

(* The unlink fails for another reason: Python raises; Node takes it for a *)
(* file that was released, and tries again without a look at the clock.    *)
TakeOverFails(p) ==
  /\ At(p, "unlink")
  /\ Goto(p, IF p \in Python THEN "gaveup" ELSE "open")
  /\ UNCHANGED <<owner, age, flock, waited, stolen>>

Flock(p) ==
  /\ At(p, "flock")
  /\ flock = Nobody
  /\ flock' = p
  /\ Goto(p, "critical")
  /\ UNCHANGED <<owner, age, waited, stolen>>

\* Mutant: `<file>.lock` stays open after the body.
FinishHoldingFlock(p) ==
  /\ At(p, "critical")
  /\ Goto(p, "release")
  /\ UNCHANGED <<owner, age, flock, waited, stolen>>

(* The body returns or raises; closing `<file>.lock` drops the flock.      *)
Finish(p) ==
  /\ At(p, "critical")
  /\ flock' = IF flock = p THEN Nobody ELSE flock
  /\ Goto(p, "release")
  /\ UNCHANGED <<owner, age, waited, stolen>>

Release(p) ==
  /\ At(p, "release")
  /\ RemoveFile(p)
  /\ Goto(p, "done")
  /\ UNCHANGED <<flock, waited>>

(* So may the last unlink: Python raises, Node does not mind.              *)
ReleaseFails(p) ==
  /\ At(p, "release") /\ MayFail
  /\ Goto(p, "failed")
  /\ UNCHANGED <<owner, age, flock, waited, stolen>>

(* Killed: the system drops the flock, the lock file stays behind.         *)
Die(p) ==
  /\ pc[p] \in Waiting \cup Relying
  /\ MayFail
  /\ flock' = IF flock = p THEN Nobody ELSE flock
  /\ Goto(p, "dead")
  /\ UNCHANGED <<owner, age, waited, stolen>>

(* Time passes.  Without Stalls a live owner is done before its file can   *)
(* be mistaken for an abandoned one.                                       *)
MayAge == \A p \in Procs : owner = p => Stalls \/ Left(p) \/ age < Stale

Tick ==
  /\ MayAge
  /\ age' = IF NoFile \/ IsStale THEN age ELSE age + 1
  /\ waited' = [p \in Procs |->
                  IF pc[p] \in Waiting /\ waited[p] <= Timeout
                    THEN waited[p] + 1 ELSE waited[p]]
  /\ UNCHANGED <<owner, flock, pc, stolen>>

Step(p) ==
  \/ Create(p) \/ CreateFails(p) \/ Exists(p)
  \/ StatGone(p) \/ StatStale(p) \/ StatBusy(p)
  \/ Wake(p) \/ TakeOver(p) \/ TakeOverFails(p)
  \/ Flock(p) \/ Finish(p) \/ Release(p) \/ ReleaseFails(p)

Next ==
  \/ \E p \in Procs : Start(p) \/ Step(p) \/ Die(p)
  \/ Tick

Spec == Init /\ [][Next]_vars

(* A process that is neither killed nor finished keeps executing, and the  *)
(* clock runs.  The kernel hands a contended flock to each waiter in turn, *)
(* and unlinking a stale file does not fail each time it is tried: a Node  *)
(* process would try it for ever.                                          *)
Fairness ==
  /\ \A p \in Procs : WF_vars(Step(p))
  /\ \A p \in Python : SF_vars(Flock(p))
  /\ \A p \in Procs \ Python : SF_vars(TakeOver(p))
  /\ WF_vars(Tick)

FairSpec == Spec /\ Fairness

==============================================================================
