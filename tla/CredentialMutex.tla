--------------------------- MODULE CredentialMutex ---------------------------
(***************************************************************************)
(* What the lock of one credential file promises to the code that runs     *)
(* under it (tokens.credential_lock in Python, withCredentialLock in Node):*)
(* one process at a time, until a lock file is unlinked from under a       *)
(* process that still relies on it.  From then on only Python processes    *)
(* still exclude one another, through the flock they hold as well.         *)
(*                                                                         *)
(* CredentialLock implements this specification with its lock files;       *)
(* TokenRefresh and Session are built on it.                               *)
(***************************************************************************)

CONSTANTS
  Procs,    \* the processes that ever want the lock
  Python    \* those of Procs that run the Python package; the rest run Node

VARIABLES
  holders,  \* the processes running under the lock
  stolen    \* has a lock file ever been removed from under a live owner?

mvars == <<holders, stolen>>

MInit ==
  /\ holders = {}
  /\ stolen = FALSE

Admits(p) ==
  \/ holders = {}
  \/ /\ stolen
     /\ p \in Python => holders \cap Python = {}

Enter(p) ==
  /\ p \notin holders
  /\ Admits(p)
  /\ holders' = holders \cup {p}
  /\ UNCHANGED stolen

\* Leaving covers returning, raising and dying: all three end the section.
Leave(p) ==
  /\ p \in holders
  /\ holders' = holders \ {p}
  /\ UNCHANGED stolen

Steal ==
  /\ stolen' = TRUE
  /\ UNCHANGED holders

MNext == \/ \E p \in Procs : Enter(p) \/ Leave(p)
         \/ Steal

MSpec == MInit /\ [][MNext]_mvars

-----------------------------------------------------------------------------
(* Nobody shares the section before a theft, and no two Python processes   *)
(* ever do.                                                                *)
Exclusive ==
  \A p, q \in holders : p # q => /\ stolen
                                 /\ ~(p \in Python /\ q \in Python)

==============================================================================
