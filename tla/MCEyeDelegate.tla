---------------------------- MODULE MCEyeDelegate ----------------------------
EXTENDS EyeDelegate
=============================================================================
