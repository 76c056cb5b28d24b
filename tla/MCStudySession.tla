--------------------------- MODULE MCStudySession ---------------------------
(* The constants are numbers, given in the .cfg.                           *)
EXTENDS StudySession
=============================================================================
