----------------------------- MODULE MCEventHub -----------------------------
\* One page: the hub keeps a subscriber, a queue and callbacks of its own for
\* each page, so that the pages of a run share nothing but the log.
EXTENDS EventHub

CONSTANT tab

OneTab == {tab}
=============================================================================
