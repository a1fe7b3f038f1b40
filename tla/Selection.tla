------------------------------ MODULE Selection ------------------------------
(***************************************************************************)
(* Selecting from a sequence: SelectSeq with a set for the test, so that   *)
(* what it returns can be proved (SelectionProofs).                        *)
(***************************************************************************)
EXTENDS Integers, Sequences

\* The elements of a sequence that are wanted, in their order.
Selected(records, wanted) ==
    LET upTo[i \in 0..Len(records)] ==
            IF i = 0 THEN <<>>
            ELSE IF records[i] \in wanted THEN Append(upTo[i - 1], records[i]) ELSE upTo[i - 1]
    IN  upTo[Len(records)]
=============================================================================
