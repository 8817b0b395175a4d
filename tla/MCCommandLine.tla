--------------------------- MODULE MCCommandLine ---------------------------
(***************************************************************************)
(* Words that are options, paths and numbers; files with and without rules.*)
(***************************************************************************)
EXTENDS CommandLine

MCWord == {"-j", "-i", "-o", "rule.abbr", "dependence.mk", "0", "1", "99"}
MCPath == {"rule.abbr", "dependence.mk", "-o"}
MCContents == {"rules", "bad rules"}
MCNumber(w) == CASE w = "1" -> 1 [] w = "99" -> 99 [] OTHER -> 0
MCResult(c) == CASE c = "rules" -> "make" [] OTHER -> Error
=============================================================================
