--------------------------- MODULE MCDeployments ---------------------------
EXTENDS Deployments

CONSTANTS d1, d2

\* The second definition lacks a handler of the first.
OneWay == {<<d1, d2>>}
=============================================================================
