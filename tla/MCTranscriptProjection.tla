----------------------- MODULE MCTranscriptProjection ------------------------
(* TranscriptProjection for TLC: the approvals are strings.                   *)
EXTENDS TranscriptProjection

TwoApprovals == {"a1", "a2"}
=============================================================================
