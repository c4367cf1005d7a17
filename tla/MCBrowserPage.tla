--------------------------- MODULE MCBrowserPage ----------------------------
(* A small instance of BrowserPage for TLC. *)
EXTENDS BrowserPage, TLC

\* Boundary bytes, and bits that straddle digits.
MCRoots == { <<255, 255>>, <<90, 165>> }
\* The first and the last digit.
MCMisread == { 0, 31 }
\* The terminal, a forward, and the ends of the header's number.
MCChannels == { 0, Base^2 + 1, Base^4 - 1 }
MCHostReads == { 4 }
\* With a MaxPayloadLen of 32: just within it when sealed, beyond it only then, and beyond it.
MCPastes == { 4, 5, 33 }
MCGrids == { <<80, 24>>, <<200, 50>> }
MCWindows == { <<300, 200>>, <<1600, 440>> }
=============================================================================
