---------------------------- MODULE MCQueryPages ----------------------------
EXTENDS QueryPages
=============================================================================
