------------------------------- MODULE MCCsrf -------------------------------
\* Model checking of CsrfAuthority: issues are interchangeable.
EXTENDS CsrfAuthority, TLC

Symmetry == Permutations(Issuers)
=============================================================================
