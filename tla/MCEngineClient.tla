--------------------------- MODULE MCEngineClient ---------------------------
EXTENDS EngineClient
CONSTANT client
=============================================================================
