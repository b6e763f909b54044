--------------------------- MODULE MCEnforcement ---------------------------
EXTENDS Enforcement
\* The user is in the map with one of two uids, or not.
MCMapFiles == [Users -> {0, 7}]
=============================================================================
