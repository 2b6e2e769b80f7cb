------------------------------ MODULE OnceOnly ------------------------------
(***************************************************************************)
(* What the submission protocol promises a caller, per economic order and   *)
(* without journal, processes, crashes or clock: an order is transmitted at *)
(* most once, only while it is open, is settled only after it was           *)
(* transmitted, and a new order of an account waits until nothing of that   *)
(* account is open.                                                        *)
(***************************************************************************)
EXTENDS Naturals

CONSTANTS EconKeys, Accounts, KeyAccount

VARIABLES phase, sent

Init ==
  /\ phase = [e \in EconKeys |-> "new"]
  /\ sent = [e \in EconKeys |-> 0]

Claim(e) ==
  /\ phase[e] = "new"
  /\ \A f \in EconKeys : KeyAccount[f] = KeyAccount[e] => phase[f] # "open"
  /\ phase' = [phase EXCEPT ![e] = "open"]
  /\ UNCHANGED sent

Transmit(e) ==
  /\ phase[e] = "open"
  /\ sent[e] = 0
  /\ sent' = [sent EXCEPT ![e] = 1]
  /\ UNCHANGED phase

Settle(e) ==
  /\ phase[e] = "open"
  /\ sent[e] = 1
  /\ phase' = [phase EXCEPT ![e] = "settled"]
  /\ UNCHANGED sent

\* A cancel, a replacement or a late transport answer makes it ambiguous again.
Reopen(e) ==
  /\ phase[e] = "settled"
  /\ phase' = [phase EXCEPT ![e] = "open"]
  /\ UNCHANGED sent

Next == \E e \in EconKeys : Claim(e) \/ Transmit(e) \/ Settle(e) \/ Reopen(e)

Spec == Init /\ [][Next]_<<phase, sent>>
=============================================================================
