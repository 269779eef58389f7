---------------------------- MODULE ReportQueue -----------------------------
(***************************************************************************)
(* What the access point's local database promises about the reports       *)
(* stored in it: they are handed to the MQTT server in the order they were *)
(* stored, each at least once, and one is forgotten only after it has been *)
(* handed over.  Reports are numbered as they are stored.                  *)
(***************************************************************************)
EXTENDS Naturals, Sequences

VARIABLES
  next,     \* the number of the next report
  pending,  \* the reports still to be handed over
  handed    \* every hand-over, in order

Init == next = 1 /\ pending = {} /\ handed = <<>>

Store ==
  /\ next' = next + 1
  /\ pending' = pending \cup {next}
  /\ UNCHANGED handed

Oldest(r) == r \in pending /\ \A s \in pending : r <= s

HandOver ==
  /\ \E r \in pending : Oldest(r) /\ handed' = Append(handed, r)
  /\ UNCHANGED <<next, pending>>

Settle ==
  /\ \E r \in pending :
       /\ Oldest(r)
       /\ \E k \in DOMAIN handed : handed[k] = r
       /\ pending' = pending \ {r}
  /\ UNCHANGED <<next, handed>>

Next == Store \/ HandOver \/ Settle

Spec == Init /\ [][Next]_<<next, pending, handed>>
=============================================================================
