---------------------------- MODULE MCUpdatePass ----------------------------
(* Instances of UpdatePass for TLC.                                        *)
EXTENDS UpdatePass, TLC

Allow(passes, adds, edits, deletes, troubles) ==
  [pass |-> passes, add |-> adds, edit |-> edits, delete |-> deletes, trouble |-> troubles]

\* Two texts that differ in what is indexed, and one that differs from the
\* first only in its frontmatter.
Texts == {"a", "a2", "b"}
HashOf == [t \in Texts |-> IF t = "b" THEN "hb" ELSE "ha"]

\* Without the frontmatter.
TwoTexts == {"a", "b"}
HashOfTwo == [t \in TwoTexts |-> IF t = "b" THEN "hb" ELSE "ha"]

AloneBudget  == Allow(3, 0, 1, 1, 1)
SharedBudget == Allow(2, 1, 1, 1, 0)
RestoreBudget == Allow(3, 0, 1, 1, 0)

Symmetric == Permutations(File)
=============================================================================
