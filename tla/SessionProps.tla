------------------------------ MODULE SessionProps ------------------------------
(***************************************************************************)
(* What login, logout and start keep true of the MCP credential file while *)
(* they run beside one another and beside the callers that refresh it.     *)
(***************************************************************************)
EXTENDS Session, TokenRefreshProps

(* The token of a live profile leaves the file only by a forced logout or  *)
(* a login at another deployment (whether the user was told so is          *)
(* PlainLoginKeeps).  Login, refresh and logout may overlap freely;        *)
(* `start` must not have run beside another command.                       *)
ProfileKept ==
  \A t \in kept : profile[t] = "live" /\ t \notin discarded /\ ~raced /\ ~stolen
                    => Stored(file) = t

(* What the comment in `run_start` takes for granted: "a second profile    *)
(* would orphan the first one's memories" (temp.py 71), so that a profile  *)
(* once saved is never replaced by another.                                *)
StartNeverOrphans ==
  \A t \in kept : profile[t] = "live" /\ t \notin discarded /\ ~stolen
                    => Stored(file) = t

(* What plain `login` tells a user who holds a live profile of another     *)
(* deployment, that it "is kept" (main.py 1068-1074), because the          *)
(* "command-line approval leaves the MCP file alone, so nothing in it is   *)
(* lost" (main.py 1065): none of its steps takes that profile away.        *)
PlainLoginKeeps ==
  [][\A c \in Commands :
       /\ job[c].kind = "login" /\ job'[c] # job[c]
       /\ ~SameBase(file, job[c].base) /\ LiveTemp(file) # NoTemp
       => Stored(file') = Stored(file)]_allVars

(* A login that logout has deleted never comes back: not by a refresh that *)
(* was under way, not by a second login's save, not by carrying.           *)
LogoutSticks ==
  SignedIn(file) /\ file.fam \in loggedOut => stolen

(* A refresh saves over the very login and profile it started from: the    *)
(* approval or the deletion of another process is never overwritten.       *)
RefreshKeepsLogin ==
  [][\A p \in Callers :
       pc[p] = "save" /\ file' # file /\ ~stolen /\ ~raced /\ (pc'[p] = "release")
         => /\ SignedIn(file) /\ file.fam = file'.fam
            /\ file.carried = file'.carried]_allVars

(* A stored login can always be renewed: the refresh token in the file is  *)
(* the one the server has not burned, unless its successor is on its way   *)
(* to the file or was lost (a request of that login was abandoned).  A     *)
(* login, a logout or a `start` that rewrites the file while a refresh is  *)
(* under way does not strand it.                                           *)
StoredIsCurrent ==
  SignedIn(file) /\ ~stolen =>
    \/ file.gen = serverGen[file.fam]
    \/ file.fam \in abandoned
    \/ \E p \in Callers : Pending(p) /\ cred[p].fam = file.fam

(* A stored token is filed under the deployment that issued it, and so is  *)
(* a carried profile: no login, carry or refresh, racing or not, retags    *)
(* one deployment's token with another's base URL.                         *)
FiledAtItsDeployment ==
  /\ SignedIn(file) => issuedAt[file.fam] = file.carried.base
  /\ Stored(file) # NoTemp => madeAt[Stored(file)] = file.carried.base

==============================================================================
