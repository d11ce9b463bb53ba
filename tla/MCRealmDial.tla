----------------------------- MODULE MCRealmDial -----------------------------
EXTENDS RealmDial
=============================================================================
