----------------------------- MODULE MCScanEntries -----------------------------
(***************************************************************************)
(* Documents of any length, nested up to four deep, over the two names the *)
(* scanner looks for and one it does not.                                  *)
(***************************************************************************)
EXTENDS ScanEntries

SomeStrings == {"log", "entries", "comment"}
===============================================================================
