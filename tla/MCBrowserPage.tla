--------------------------- MODULE MCBrowserPage ---------------------------
EXTENDS BrowserPage
=============================================================================
