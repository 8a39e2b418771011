--------------------------- MODULE BrowserNetwork ---------------------------
(* What the parts of a console page share: navigator.onLine.  The browser  *)
(* raises its online and offline events in the same task as it changes.    *)
EXTENDS Naturals, FiniteSets

CONSTANT None

VARIABLE online
=============================================================================
