--------------------------- MODULE MCBrowserSessions ---------------------------
(* Instances of BrowserSessions for TLC. *)
EXTENDS BrowserSessions, TLC
Symmetry == Permutations(Browsers) \cup Permutations(Processes) \cup Permutations(Scopes)
=============================================================================
