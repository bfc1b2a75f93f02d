-------------------------- MODULE MCFinishedFiles --------------------------
(* Small instances of FinishedFiles for TLC. *)
EXTENDS FinishedFiles, TLC

CONSTANTS u1, u2

S3 == {"S3_URL", "IA_COLLECTION", "IA_ITEM_TITLE", "IA_AUTH", "IA_ACCESS"}

\* Complete, and without the prefix that the start does not check for; the
\* environment of rsync is the first one without Throttled.
MCEnvironments == {S3 \cup {"IA_ITEM_PREFIX"}, S3}
=============================================================================
