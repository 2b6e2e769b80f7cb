------------------------------ MODULE TaxLots ------------------------------
(***************************************************************************)
(* The tax lots of one account and instrument (ledger/tax_lots.py).        *)
(*                                                                         *)
(* A lot is [id, quantity, at, rank].  `at` is the instant its purchase    *)
(* was observed: its timing row and, by the day, its acquisition date.     *)
(* `rank` orders the lots of one day: the code orders them by lot_id, a    *)
(* hash of a random identifier, so the rank is arbitrary but fixed.        *)
(* A disposal is [lot, by, quantity, at].                                  *)
(***************************************************************************)
EXTENDS Integers, FiniteSets, FiniteSetsExt

CONSTANT Day        \* instants in one calendar day

ASSUME DayAssumption == Day \in Nat \ {0}

DayOf(at) == at \div Day

Total(xs) == SumFunction([x \in xs |-> x.quantity])

Positive(n) == IF n > 0 THEN n ELSE 0

(* lots(as_of): the lots known at an instant, *)
Visible(lots, at) == {l \in lots : l.at <= at}

(* and what is left of one, counting the disposals known at that instant. *)
Left(disposals, l, at) ==
    l.quantity - Total({d \in disposals : d.lot = l.id /\ d.at <= at})

(* Bug: ORDER BY lot_id alone. *)
PrecedesById(k, l) == k.rank < l.rank

(* ORDER BY acquisition_date, lot_id. *)
Precedes(k, l) ==
    \/ DayOf(k.at) < DayOf(l.at)
    \/ DayOf(k.at) = DayOf(l.at) /\ k.rank < l.rank

(* What the lots visible at an instant still offer: a lot with nothing     *)
(* left, or less than nothing, offers nothing.                             *)
Offered(disposals, ls, at) ==
    SumFunction([l \in ls |-> Positive(Left(disposals, l, at))])

(* dispose_fifo takes a quantity from the visible lots in order: from each *)
(* what it offers, as far as the lots before it did not suffice.           *)
Taken(lots, disposals, l, quantity, at) ==
    LET visible == Visible(lots, at)
        before == Offered(disposals, {k \in visible : Precedes(k, l)}, at)
    IN  Min({Positive(Left(disposals, l, at)), Positive(quantity - before)})

(* It refuses a quantity the visible lots do not cover. *)
Covered(lots, disposals, quantity, at) ==
    Offered(disposals, Visible(lots, at), at) >= quantity

Disposed(lots, disposals, delta, quantity, at) ==
    {[lot |-> l.id, by |-> delta, quantity |-> Taken(lots, disposals, l, quantity, at),
      at |-> at] :
        l \in {k \in Visible(lots, at) : Taken(lots, disposals, k, quantity, at) > 0}}
=============================================================================
