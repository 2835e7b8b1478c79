-------------------------- MODULE CredentialLockProps --------------------------
(***************************************************************************)
(* What the layered lock of a credential file guarantees, and the abstract *)
(* lock it implements.                                                     *)
(***************************************************************************)
EXTENDS CredentialLock

InSection == {p \in Procs : pc[p] = "critical"}

Mutex == INSTANCE CredentialMutex WITH holders <- InSection

(* Two processes are inside `credential_lock` together only once a lock    *)
(* file has been unlinked from under a live owner, and never two Python    *)
(* ones: the flock still keeps those apart (tokens.py 104-122).            *)
ExclusiveUntilStolen == Mutex!Exclusive

(* While owners finish within the staleness limit, a lock file is removed  *)
(* from under a live owner only if some process was killed, or was refused *)
(* by the file system, and left its own behind: waiting alone, in any      *)
(* number and any order, never costs an owner its lock.                    *)
NoTheftWithoutDeath ==
  ~Stalls /\ stolen => \E p \in Procs : Left(p)

(* Every step is one the abstract lock allows, or none at all.             *)
Implements == Mutex!MSpec

(* Whoever starts waiting gets the lock and is done with it, gives up,     *)
(* fails or is killed: no order of deaths, takeovers and releases leaves a process  *)
(* polling or blocked for ever.                                            *)
EveryWaitEnds ==
  \A p \in Procs : pc[p] = "open" ~> pc[p] \in Over

(* What the docstring of `credential_lock` says: "Exclusive access to the  *)
(* credential file, shared with the Node CLI" (tokens.py 106).             *)
MutualExclusion == \A p, q \in InSection : p = q

==============================================================================
