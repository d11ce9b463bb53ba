----------------------------- MODULE MCDNSCache -----------------------------
EXTENDS DNSCache
=============================================================================
