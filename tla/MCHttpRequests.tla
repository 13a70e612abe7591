--------------------------- MODULE MCHttpRequests ---------------------------
EXTENDS HttpRequests, TLC

\* No action and no invariant names a request.
Symmetry == Permutations(Request)
=============================================================================
