------------------------ MODULE MCInterceptedRequest ------------------------
EXTENDS InterceptedRequest

\* Two loads; ranges: the whole response, and its last byte.
MCFirsts == {NoRange, Size - 1}
=============================================================================
