----------------------------- MODULE MCOneShot -----------------------------
\* OneShot for TLC: any command, and then a chat, as when it is said again.
EXTENDS OneShot, TLC

MCKinds == <<Sends \cup Commands, {"chat"}>>
=============================================================================
