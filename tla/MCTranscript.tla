---------------------------- MODULE MCTranscript ----------------------------
(***************************************************************************)
(* The transcript mirror of one session; its bounds are in the .cfg.       *)
(***************************************************************************)
EXTENDS TranscriptMirror
=============================================================================
