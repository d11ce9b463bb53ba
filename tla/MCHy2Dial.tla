----------------------------- MODULE MCHy2Dial -----------------------------
EXTENDS Hy2Dial
=============================================================================
