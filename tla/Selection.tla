------------------------------- MODULE Selection -------------------------------
(***************************************************************************)
(* Loops over a list that skip some of its entries and append something    *)
(* for each of the others, in order.  The loop is written as a recursive   *)
(* function, so that what it yields can be proved and not only checked.    *)
(***************************************************************************)
EXTENDS Naturals, Sequences, FiniteSets

\* What the loop over seq has appended after n of its turns.
Turns(seq, keep) ==
    LET upTo[n \in 0 .. Len(seq)] ==
            IF n = 0 THEN <<>>
            ELSE IF n \in keep THEN Append(upTo[n - 1], seq[n])
            ELSE upTo[n - 1]
    IN  upTo

\* The entries of seq at the positions to be kept.
Kept(seq, keep) == Turns(seq, keep)[Len(seq)]

\* How many of the first k positions are kept.
CountUpTo(keep, k) == Cardinality({j \in 1 .. k : j \in keep})

IsSequence(x) == x \in Seq({x[k] : k \in DOMAIN x})
=============================================================================
