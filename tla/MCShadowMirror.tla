---------------------------- MODULE MCShadowMirror ----------------------------
EXTENDS ShadowMirror, TLC
==============================================================================
