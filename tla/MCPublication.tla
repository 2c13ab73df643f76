---------------------------- MODULE MCPublication ----------------------------
(* Two shards, and the ways publish is called: with a README, filtered    *)
(* and bound to a receipt, without a commit.                              *)
EXTENDS Publication

MCOrder == <<"manifest", "producer", "t1", "t2">>
Options(f, by, r, c, p) == [filtered |-> f, producer |-> by, readme |-> r, commit |-> c, push |-> p]
MCRuns == {Options(FALSE, None, TRUE, TRUE, TRUE),   \* publish --readme --push
           Options(TRUE, "ci", FALSE, TRUE, TRUE),   \* a filtered publisher with receipts
           Options(FALSE, None, FALSE, FALSE, FALSE), \* publish --no-commit
           Options(TRUE, "ci", FALSE, FALSE, TRUE)}  \* publish --no-commit --push
=============================================================================
