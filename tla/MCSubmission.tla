---------------------------- MODULE MCSubmission ----------------------------
(* Small instances of Submission.  Three requests of one account: the first *)
(* two are the same economic order under two client ids, and the third is   *)
(* another order that claims the second one's client id.                    *)
EXTENDS Submission, TLC

CONSTANTS p1, p2, r1, r2, r3, c1, c2, e1, e2, a1

MCClientOf == r1 :> c1 @@ r2 :> c2 @@ r3 :> c2
MCEconOf == r1 :> e1 @@ r2 :> e1 @@ r3 :> e2
MCKeyAccount == [e \in {e1, e2} |-> a1]

MCOneClient == r1 :> c1
MCOneEcon == r1 :> e1

ProcSymmetry == Permutations({p1, p2})
=============================================================================
