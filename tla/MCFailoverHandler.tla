------------------------- MODULE MCFailoverHandler -------------------------
EXTENDS FailoverHandler
CONSTANTS a, b
\* One service with two instances; the same while discovery removes and adds an
\* instance or loses all of them.
OneService == {<<a, b>>}
LostService == {<<a, b>>, <<>>}
ChangingService == {<<a, b>>, <<b>>, <<>>}
=============================================================================
