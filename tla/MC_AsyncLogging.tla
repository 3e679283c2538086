-------------------------- MODULE MC_AsyncLogging --------------------------
EXTENDS AsyncLogging
=============================================================================
