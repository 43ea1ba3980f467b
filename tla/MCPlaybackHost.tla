--------------------------- MODULE MCPlaybackHost ---------------------------
EXTENDS PlaybackHost
=============================================================================
