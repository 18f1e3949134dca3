----------------------------- MODULE MCTabPipeline -----------------------------
(* Two technologies and two verdicts, one of which is flagged. *)
EXTENDS TabPipeline
CONSTANTS t1, t2, ok, bad
MCTechs == {t1, t2}
MCVerdicts == {ok, bad}
MCFlagged == {bad}
================================================================================
