---------------------------- MODULE RenewableLogin ----------------------------
(***************************************************************************)
(* What one stored login is to those who use it, whatever happens beneath: *)
(* a numbered pair of tokens on disk that is replaced only by its          *)
(* successor.  The server issues a successor only while the pair on disk   *)
(* is the newest there is, one process saves it, and what a caller is      *)
(* given is the pair on disk at that moment.  Only a mishap (an answer     *)
(* that is never saved) can leave the server ahead for good.               *)
(*                                                                         *)
(* TokenRefresh implements this specification.                             *)
(***************************************************************************)
EXTENDS Naturals

CONSTANTS
  Callers,  \* those who ask for a token
  NoToken

VARIABLES
  stage,    \* of the newest pair: "settled" (on disk), "issued", "stranded"
  stored,   \* the number of the pair on disk
  given,    \* the number of the token each caller went away with
  lost      \* has an answer ever been given up?

lvars == <<stage, stored, given, lost>>

LInit ==
  /\ stage = "settled" /\ stored = 0 /\ lost = FALSE
  /\ given = [c \in Callers |-> NoToken]

Issue ==
  /\ stage = "settled" /\ stage' = "issued"
  /\ UNCHANGED <<stored, given, lost>>

\* Saved and then returned: the two are one step to everybody else.
Commit(c) ==
  /\ stage = "issued" /\ stage' = "settled"
  /\ stored' = stored + 1
  /\ given' = [given EXCEPT ![c] = stored']
  /\ UNCHANGED lost

Give(c) ==
  /\ given' = [given EXCEPT ![c] = stored]
  /\ UNCHANGED <<stage, stored, lost>>

Drop(c) ==
  /\ given' = [given EXCEPT ![c] = NoToken]
  /\ UNCHANGED <<stage, stored, lost>>

\* From "stranded" nothing leads back but a new login.
Mishap ==
  /\ lost' = TRUE
  /\ stage' \in {stage, "stranded"}
  /\ \A c \in Callers : given'[c] \in {given[c], NoToken}
  /\ given' \in [Callers -> Nat \cup {NoToken}]
  /\ UNCHANGED stored

LNext == \/ \E c \in Callers : Commit(c) \/ Give(c) \/ Drop(c)
         \/ Issue \/ Mishap

LSpec == LInit /\ [][LNext]_lvars

==============================================================================
