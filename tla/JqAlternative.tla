--------------------------- MODULE JqAlternative ----------------------------
(***************************************************************************)
(* `jq -r '.field // true'`, by which the shell scripts of the server mean *)
(* "true if the field is missing".  jq takes the right side for a field    *)
(* that is false as well, so a test of the result for "false" fails for    *)
(* every document: FalseIsMissing = TRUE, which is what runs.  It guards   *)
(* the entry of the worker (install_echoes_service.sh:382) and packaging   *)
(* (package_results.sh:105 and 171), and keeps everything behind them from *)
(* ever running.  With FALSE these guards read the field, as they are      *)
(* meant to, and what is behind them can be examined too.                  *)
(***************************************************************************)
CONSTANT FalseIsMissing

ASSUME JqAssumption == FalseIsMissing \in BOOLEAN

OrTrue(field) == field \/ FalseIsMissing
=============================================================================
