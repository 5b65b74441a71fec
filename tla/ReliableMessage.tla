-------------------------- MODULE ReliableMessage --------------------------
(***************************************************************************)
(* What the sender of a text message is promised, with nothing said of     *)
(* packets, retries or windows.  A message is submitted once; while it is  *)
(* "sending" or "failed" it may still arrive; it is "acked" only after it  *)
(* has arrived, and that verdict is final.  "failed" is not final: the     *)
(* program keeps the message and may still get it through.  "refused" is:  *)
(* the message never leaves.                                               *)
(***************************************************************************)
CONSTANT Messages

VARIABLES status,   \* per message: "none", "sending", "failed", "acked" or "refused"
          arrived   \* the messages shown at their destination

avars == <<status, arrived>>

Init == /\ status = [m \in Messages |-> "none"]
        /\ arrived = {}

Submit(m) ==
  /\ status[m] = "none"
  /\ \E verdict \in {"sending", "failed", "refused"} :
        status' = [status EXCEPT ![m] = verdict]
  /\ UNCHANGED arrived

Arrive(m) ==
  /\ status[m] \in {"sending", "failed", "acked"}
  /\ arrived' = arrived \cup {m}
  /\ UNCHANGED status

\* Several messages may run out of retries in the same pass of the main loop.
GiveUp(S) ==
  /\ \A m \in S : status[m] \in {"sending", "failed"}
  /\ status' = [m \in Messages |-> IF m \in S THEN "failed" ELSE status[m]]
  /\ UNCHANGED arrived

Confirm(m) ==
  /\ m \in arrived
  /\ status[m] \in {"sending", "failed"}
  /\ status' = [status EXCEPT ![m] = "acked"]
  /\ UNCHANGED arrived

Next == \/ \E m \in Messages : Submit(m) \/ Arrive(m) \/ Confirm(m)
        \/ \E S \in SUBSET Messages : GiveUp(S)

Spec == Init /\ [][Next]_avars
=============================================================================
