--------------------------- MODULE MCArxivPolite ----------------------------
(* Values for the model checker.                                           *)
EXTENDS ArxivPolite

(* _BACKOFF_SCHEDULE_SEC, in seconds.                                       *)
TenThirty == <<10, 30>>
=============================================================================
