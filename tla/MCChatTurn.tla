----------------------------- MODULE MCChatTurn -----------------------------
\* Instances of ChatTurn for TLC.
EXTENDS ChatTurn, TLC

\* Requests are interchangeable; used for invariants only.
RequestSymmetry == Permutations(Sends)
=============================================================================
