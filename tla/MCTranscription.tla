--------------------------- MODULE MCTranscription ----------------------------
(* Transcription for TLC: one call handed over and tried again, and another *)
(* behind it, through channels of one place.                               *)
EXTENDS Transcription

CONSTANTS a, b, upload, retry, other

MCCallOf(j) == IF j = other THEN b ELSE a
=============================================================================
