----------------------------- MODULE MCTranscript -----------------------------
EXTENDS TranscriptWriter
=============================================================================
