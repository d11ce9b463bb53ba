--------------------------- MODULE MCURLTestGroup ---------------------------
EXTENDS URLTestGroup
Nodes2 == <<"a", "b">>
=============================================================================
