------------------------------ MODULE Weights -------------------------------
(***************************************************************************)
(* The weighted draw with stock of util/weight.go: a builder collects the  *)
(* items, Build sums their ratios, and a draw takes one from the stock of  *)
(* the item it hits.                                                       *)
(*                                                                         *)
(* An item is [ratio, amount]; a negative amount is an unlimited stock.    *)
(* The sum is an int32: IntSpan values around zero.                        *)
(***************************************************************************)
EXTENDS Integers, Sequences, SequencesExt, FiniteSets

CONSTANT IntSpan    \* 2^32

Int32(n) == ((n + IntSpan \div 2) % IntSpan) - IntSpan \div 2

\* An item whose stock is used up weighs nothing.
Ratio(it) == IF it.amount = 0 THEN 0 ELSE it.ratio

\* AddWeight ignores a ratio that is not positive.
AddWeight(items, it) == IF it.ratio <= 0 THEN items ELSE Append(items, it)

Build(added) ==
    LET items == FoldLeft(AddWeight, <<>>, added) IN
    [items |-> items,
     total |-> FoldLeft(LAMBDA sum, it : Int32(sum + Ratio(it)), 0, items)]

\* The index of the item that the random number r hits; 0 is nil.
OnlyRoll(w, r) ==
    LET Below(i) == FoldLeft(LAMBDA sum, it : sum + Ratio(it), 0, SubSeq(w.items, 1, i))
    IN  SelectInSeq([i \in DOMAIN w.items |-> i], LAMBDA i : r < Below(i))

\* Mutant of UpdateItemStock: the last one taken leaves the sum as it was.
UpdateStockOnly(w, i) ==
    IF w.items[i].amount <= 0 THEN w
    ELSE [w EXCEPT !.items[i].amount = @ - 1]

\* Hit takes one of a limited stock; whoever takes the last one takes the
\* item's ratio out of the sum.
UpdateItemStock(w, i) ==
    IF w.items[i].amount <= 0 THEN w
    ELSE [items |-> [w.items EXCEPT ![i].amount = @ - 1],
          total |-> IF w.items[i].amount = 1
                    THEN Int32(w.total - w.items[i].ratio) ELSE w.total]

\* Roll draws with a random number below the sum.  When OnlyRoll returns nil
\* the type assertion of UpdateItemStock panics and nothing changes.
Roll(w, random) ==
    LET hit == IF w.total <= 0 THEN 0 ELSE OnlyRoll(w, random % w.total)
    IN  IF hit = 0 THEN w ELSE UpdateItemStock(w, hit)

\* The weight after a builder's items and a number of draws.
Rolled(added, randoms) == FoldLeft(Roll, Build(added), randoms)
=============================================================================
