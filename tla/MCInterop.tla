----------------------------- MODULE MCInterop -----------------------------
EXTENDS Interop
=============================================================================
