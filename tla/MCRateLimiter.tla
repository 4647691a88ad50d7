--------------------------- MODULE MCRateLimiter ---------------------------
EXTENDS RateLimiter

Symmetric == Permutations(Ips)
=============================================================================
