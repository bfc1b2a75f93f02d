---------------------------- MODULE MCOldViewer ----------------------------
(* A job with a WARC and a JSON file in one item and a copy of the JSON file *)
(* in another, a run that was aborted, and a file from the days before jobs  *)
(* had identifiers, whose JSON text does not parse.                          *)
EXTENDS OldViewer

Named(i, id, t, a, x, p) ==
  [item |-> i, ident |-> id, time |-> t, aborted |-> a, extension |-> x, parses |-> p]

MCDay == <<1, 1>>
MCFile == {Named(1, 7, 1, FALSE, "json", TRUE), Named(2, 7, 1, FALSE, "json", TRUE),
           Named(1, 7, 1, TRUE, "warc.gz", TRUE), Named(2, None, 9, FALSE, "json", FALSE)}
=============================================================================
