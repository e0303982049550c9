----------------------------- MODULE MCDesktop -----------------------------
(***************************************************************************)
(* First processes started with the file named by a flag, by a variable,   *)
(* by the file form of the variable, or not at all.                        *)
(***************************************************************************)
EXTENDS Desktop

Launch(flag, var, path, direct, mount) ==
    [flag |-> flag, var |-> var, file |-> path, direct |-> direct, mount |-> mount]

ByFlag == Launch(TRUE, FALSE, FALSE, 0, FALSE)
ByVariable == Launch(FALSE, TRUE, FALSE, 7, TRUE)
ByFile == Launch(FALSE, FALSE, TRUE, 0, TRUE)
Plain == Launch(FALSE, FALSE, FALSE, 0, TRUE)

AllLaunches == {ByFlag, ByVariable, ByFile, Plain}
AllContents == {"one", "other", "two", "central", "bad"}
=============================================================================
