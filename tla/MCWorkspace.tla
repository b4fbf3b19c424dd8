---------------------------- MODULE MCWorkspace ----------------------------
(* Two agents; one file that both commits have, one that only the older    *)
(* has.                                                                    *)
EXTENDS Workspace

MCTexts == {<<"new">>, <<"old", "old">>}
MCCommits == [name \in {"HEAD", "HEAD~1"} |->
                [file \in Files |-> IF file = "main" THEN <<"old">>
                                    ELSE IF name = "HEAD" THEN Absent ELSE <<"new">>]]
=============================================================================
