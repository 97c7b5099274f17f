--------------------------- MODULE MCLimitedReader ---------------------------
(* Sources shorter than the limit, of the limit, and longer.               *)
EXTENDS LimitedReader

MCSources == [length : 0 .. Limit + 3, ending : Endings]
=============================================================================
