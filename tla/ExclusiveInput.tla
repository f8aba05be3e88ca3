-------------------------- MODULE ExclusiveInput --------------------------
(***************************************************************************)
(* What the control plane promises of every phone: input has one owner at  *)
(* a time.  Abstract: it says who has input in flight on a phone, nothing  *)
(* of claims, modes or leases.                                             *)
(***************************************************************************)
CONSTANTS Phones, Parties

VARIABLE driving  \* phone -> the parties whose input is in flight

Init == driving = [d \in Phones |-> {}]

\* A party begins only on a phone nobody is driving.
Begin(d, p) == driving[d] = {} /\ driving' = [driving EXCEPT ![d] = {p}]

\* The input in flight has settled.
End(d) == driving[d] # {} /\ driving' = [driving EXCEPT ![d] = {}]

Next == \E d \in Phones : End(d) \/ \E p \in Parties : Begin(d, p)

Spec == Init /\ [][Next]_driving
=============================================================================
