----------------------------- MODULE EvidenceSteps -----------------------------
(* What the main of a qualification script does, one step after another.  A   *)
(* step that cannot go on ends the run: with SKIP, FAIL, SystemExit or an      *)
(* exception, which leave the same behind.                                     *)
EXTENDS Sequences

\* Directories: refuse one that exists; make one, exist_ok; make a new one.
Fresh(dir) == [op |-> "fresh", dir |-> dir]
Dir(dir) == [op |-> "dir", dir |-> dir]
NewDir(dir) == [op |-> "newdir", dir |-> dir]

\* The outside: what a thing must be, that it is used, what it is made.
Needs(item, versions) == [op |-> "needs", item |-> item, versions |-> versions]
Uses(item) == [op |-> "uses", item |-> item]
Becomes(item, version) == [op |-> "becomes", item |-> item, version |-> version]

\* Tools that end the run when they fail, and measurements that do not: what
\* came out wrong is only recorded.
Tools(names) == [op |-> "tools", names |-> names]
Probes(names) == [op |-> "probes", names |-> names]

\* Files of earlier runs: read, with a status that is asked for, or against a
\* digest that only a whole file of pinned origin has.
Reads(dir, file) == [op |-> "reads", path |-> <<dir, file>>]
Expects(dir, file, says) == [op |-> "expects", path |-> <<dir, file>>, says |-> says]
Verifies(dir, file) == [op |-> "verifies", path |-> <<dir, file>>]

\* A tool that writes a file bit by bit, and the steps left out where the file
\* is there already or where a condition on the measurements does not hold.
Captures(dir, file) == [op |-> "captures", dir |-> dir, path |-> <<dir, file>>]
Unless(dir, file, steps) == [op |-> "unless", path |-> <<dir, file>>, over |-> steps]
Perhaps(steps) == [op |-> "perhaps", over |-> steps]

\* Candidates are measured on held-out data (outputs of the original weights on
\* them, computed earlier, tell nothing of a candidate); something is chosen by
\* what data say.
Opens(data) == [op |-> "opens", data |-> data]
Chooses(data) == [op |-> "chooses", data |-> data]

\* Files written one after another, with what their status says.
Writes(dir, files, says) == [op |-> "writes", dir |-> dir, files |-> files, says |-> says]

=============================================================================
