-------------------------- MODULE MCSubscriptions --------------------------
EXTENDS Subscriptions, TLC
\* Clients are interchangeable, and so are channels.
Symmetry == Permutations(Clients) \cup Permutations(Chans)
=============================================================================
