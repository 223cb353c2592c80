------------------------- MODULE DurabilityContract -------------------------
(***************************************************************************)
(* What the durability tracker promises, without its tasks, channels and   *)
(* locks: while the clients measure, writes are accepted; once a write is  *)
(* durable its latency is sampled, once; the drain ends either with every  *)
(* accepted write sampled or with a failure.                               *)
(***************************************************************************)
EXTENDS Naturals

CONSTANT Numbers \* the sequence numbers the database assigns



VARIABLES accepted, \* sequence numbers of the writes accepted so far
          sampled,  \* those whose durability latency has been recorded
          frontier, \* the database's durable frontier
          outcome   \* measuring, draining, covered, failed

vars == <<accepted, sampled, frontier, outcome>>

Init == accepted = {} /\ sampled = {} /\ frontier = 0 /\ outcome = "measuring"

Accept == /\ outcome = "measuring"
          /\ \E s \in Numbers \ accepted : accepted' = accepted \union {s}
          /\ UNCHANGED <<sampled, frontier, outcome>>

Advance == /\ frontier' \in Numbers /\ frontier' > frontier
           /\ UNCHANGED <<accepted, sampled, outcome>>

Sample == /\ outcome \in {"measuring", "draining"}
          /\ \E s \in accepted \ sampled :
               s <= frontier /\ sampled' = sampled \union {s}
          /\ UNCHANGED <<accepted, frontier, outcome>>

Drain == /\ outcome = "measuring" /\ outcome' = "draining"
         /\ UNCHANGED <<accepted, sampled, frontier>>

Cover == /\ outcome = "draining" /\ sampled = accepted
         /\ outcome' = "covered"
         /\ UNCHANGED <<accepted, sampled, frontier>>

Fail == /\ outcome \in {"measuring", "draining"} /\ outcome' = "failed"
        /\ UNCHANGED <<accepted, sampled, frontier>>

Next == Accept \/ Advance \/ Sample \/ Drain \/ Cover \/ Fail

Spec == Init /\ [][Next]_vars
=============================================================================
