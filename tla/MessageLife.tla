---------------------------- MODULE MessageLife ----------------------------
(***************************************************************************)
(* What the conversation promises about one outgoing message, whatever     *)
(* workers, webhooks and retries do underneath: one send at a time, until  *)
(* one is known to have been taken; WhatsApp gets a further copy only when *)
(* its answer to the former was lost; from then on the status moves        *)
(* forward or fails and the message never waits again.                     *)
(***************************************************************************)
EXTENDS Naturals

CONSTANT Messages

VARIABLES
    shown,   \* the status staff see in the conversation
    place,   \* here: to be sent, as far as anybody knows; sent: WhatsApp's
             \* answer is on its way to be recorded; known: it is on record
    copies   \* how often WhatsApp took the message

lifeVars == <<shown, place, copies>>

Statuses == {"none", "queued", "accepted", "sent", "delivered", "read", "failed"}

Rank(s) ==
    CASE s = "accepted" -> 1 [] s = "sent" -> 2 [] s = "delivered" -> 3 [] s = "read" -> 4
      [] OTHER -> 0

LifeInit ==
    /\ shown = [m \in Messages |-> "none"]
    /\ place = [m \in Messages |-> "here"]
    /\ copies = [m \in Messages |-> 0]

Wait(m) ==
    /\ place[m] = "here"
    /\ shown[m] \in {"none", "failed"}
    /\ shown' = [shown EXCEPT ![m] = "queued"]
    /\ UNCHANGED <<place, copies>>

Send(m) ==
    /\ place[m] = "here"
    /\ shown[m] = "queued"
    /\ place' = [place EXCEPT ![m] = "sent"]
    /\ copies' = [copies EXCEPT ![m] = copies[m] + 1]
    /\ UNCHANGED shown

\* WhatsApp took it and the answer was lost at once.
SendUnheard(m) ==
    /\ place[m] = "here"
    /\ shown[m] = "queued"
    /\ copies' = [copies EXCEPT ![m] = copies[m] + 1]
    /\ UNCHANGED <<shown, place>>

\* The answer is lost before it is recorded: the message is to be sent again.
Lose(m) ==
    /\ place[m] = "sent"
    /\ place' = [place EXCEPT ![m] = "here"]
    /\ UNCHANGED <<shown, copies>>

Hear(m) ==
    /\ place[m] = "sent"
    /\ place' = [place EXCEPT ![m] = "known"]
    /\ shown' = [shown EXCEPT ![m] = "accepted"]
    /\ UNCHANGED copies

Progress(m, s) ==
    /\ place[m] = "known"
    /\ shown[m] # "failed"
    /\ Rank(s) > Rank(shown[m])
    /\ shown' = [shown EXCEPT ![m] = s]
    /\ UNCHANGED <<place, copies>>

\* A send given up, or a failed delivery of what WhatsApp took.
Fail(m) ==
    /\ place[m] # "sent"
    /\ shown[m] # "none"
    /\ shown' = [shown EXCEPT ![m] = "failed"]
    /\ UNCHANGED <<place, copies>>

LifeNext ==
    \E m \in Messages :
       \/ Wait(m) \/ Send(m) \/ SendUnheard(m) \/ Lose(m) \/ Hear(m) \/ Fail(m)
       \/ \E s \in Statuses : Progress(m, s)

LifeSpec == LifeInit /\ [][LifeNext]_lifeVars
=============================================================================
