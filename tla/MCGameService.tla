--------------------------- MODULE MCGameService ---------------------------
EXTENDS GameService
=============================================================================
