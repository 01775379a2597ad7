--------------------------- MODULE MCBrowserClients ---------------------------
(* BrowserClients with two channels, and passes that are alike.              *)
EXTENDS BrowserClients, TLC

CONSTANTS p1, p2, p3, edge, chrome

MCChannels == <<edge, chrome>>
Symmetry == Permutations(Pass)
=============================================================================
