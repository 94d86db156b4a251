------------------------------- MODULE Roster -------------------------------
(***************************************************************************)
(* What the control plane promises about a client, whatever goroutine does *)
(* the work: an ID is admitted once; audio is taken away only from a       *)
(* client that is no longer a member; an ID retires once, when it is       *)
(* neither a member nor in the audience, and stays out for good; a client  *)
(* that is dismissed does retire.                                          *)
(*                                                                         *)
(* The audience may gain a client that was dismissed while it was joining, *)
(* which is why tuning in does not require membership.                     *)
(***************************************************************************)
CONSTANT Clients

VARIABLES
  known,     \* IDs handed out
  member,    \* clients the session lists
  audience,  \* clients audio is sent to
  retired    \* IDs the server has finished with

vars == <<known, member, audience, retired>>

Init == known = {} /\ member = {} /\ audience = {} /\ retired = {}

Admit(c) ==
  /\ c \notin known
  /\ known' = known \cup {c}
  /\ member' = member \cup {c}
  /\ UNCHANGED <<audience, retired>>

TuneIn(c) ==
  /\ c \in known \ (retired \cup audience)
  /\ audience' = audience \cup {c}
  /\ UNCHANGED <<known, member, retired>>

Dismiss(c) ==
  /\ c \in member
  /\ member' = member \ {c}
  /\ UNCHANGED <<known, audience, retired>>

TuneOut(c) ==
  /\ c \in audience \ member
  /\ audience' = audience \ {c}
  /\ UNCHANGED <<known, member, retired>>

Retire(c) ==
  /\ c \in known \ (member \cup audience \cup retired)
  /\ retired' = retired \cup {c}
  /\ UNCHANGED <<known, member, audience>>

Next == \E c \in Clients :
          Admit(c) \/ TuneIn(c) \/ Dismiss(c) \/ TuneOut(c) \/ Retire(c)

Safe == Init /\ [][Next]_vars

\* Every dismissed client retires in the end.
Spec == Safe /\ \A c \in Clients : WF_vars(TuneOut(c)) /\ WF_vars(Retire(c))
=============================================================================
