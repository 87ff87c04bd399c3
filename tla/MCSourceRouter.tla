---------------------------- MODULE MCSourceRouter ----------------------------
EXTENDS SourceRouter

MCServices == AllServices \ {"SoundCloud"}
MCSavedAtStart == {{}, Services}
===============================================================================
