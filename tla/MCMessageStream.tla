-------------------------- MODULE MCMessageStream --------------------------
EXTENDS MessageStream
=============================================================================
