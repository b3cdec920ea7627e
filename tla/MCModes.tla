------------------------------- MODULE MCModes -------------------------------
EXTENDS ModeManager
=============================================================================
