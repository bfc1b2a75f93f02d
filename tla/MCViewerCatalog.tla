--------------------------- MODULE MCViewerCatalog ---------------------------
(* A job with a JSON file in one item and a copy of it in another, a job with *)
(* a JSON file that does not parse or does not exist, and a file whose name   *)
(* means nothing.                                                             *)
EXTENDS ViewerCatalog

MCItem == {1, 2}
MCFile == 1..4
MCJob  == {1, 2}
MCItemOf == <<1, 1, 2, 2>>
MCJobOf  == <<1, None, 1, 2>>
MCKindOf == <<"json", "other", "json", "json">>
MCJson   == <<"ok", "ok", "ok", "bad">>

=============================================================================
