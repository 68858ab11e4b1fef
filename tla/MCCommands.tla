----------------------------- MODULE MCCommands -----------------------------
(* An instance of CatalogAndDaemon for TLC: one tree, a few lists of commands. *)
EXTENDS CatalogAndDaemon

\* Processes, pids and the daemon's commands are interchangeable.
Symmetric == Permutations(Proc) \cup Permutations(Pid) \cup Permutations(Cmd)

Deep      == <<"notes", "deep.md">>
Top       == <<"top.md">>
Dotted    == <<"notes", ".obsidian", "a.md">>
DotFile   == <<".draft.md">>
Vendored  == <<"vendor", "notes", "b.md">>
DotVendor == <<".obsidian", "vendor", "c.md">>
Garbled   == <<"bytes", "d.md">>
Linked    == <<"notes", "link.md">>
Untracked == <<"notes", "untracked.md">>
Big       == <<"big.md">>
Skipped   == <<"skipped.md">>
Script    == <<"script.rs">>

Tree == {Deep, Top, Dotted, DotFile, Vendored, DotVendor, Garbled, Linked,
         Untracked, Big, Skipped, Script}

Nothing == [k \in Kinds |-> 0]

MCHidden    == {".obsidian", ".draft.md"}
MCBuiltin   == {"vendor"}
MCNotUtf8   == {"bytes"}
MCOutside   == {Linked}
MCUnmasked  == {Script}
MCIgnored   == {Skipped}
MCLarge     == {Big}
MCUntracked == {Untracked}
MCFlags     == {[hidden |-> TRUE, gitignore |-> FALSE], [hidden |-> FALSE, gitignore |-> TRUE]}
MCDirs      == {<<>>, <<"notes">>}

MCBudgets == {
  [Nothing EXCEPT !["add"] = 1, !["rename"] = 3, !["death"] = 1],
  [Nothing EXCEPT !["add"] = 1, !["remove"] = 1, !["context"] = 2],
  [Nothing EXCEPT !["add"] = 1, !["rename"] = 1, !["context"] = 2],
  [Nothing EXCEPT !["add"] = 2, !["remove"] = 1, !["rename"] = 1, !["context"] = 1, !["death"] = 1],
  [Nothing EXCEPT !["add"] = 2, !["rename"] = 1, !["set"] = 1, !["switch"] = 1]}

\* A removal killed on its way, and the name added again.
MCAgain == {[Nothing EXCEPT !["add"] = 2, !["remove"] = 1, !["context"] = 1, !["death"] = 1]}
=============================================================================
