----------------------------- MODULE MCWorkshop -----------------------------
(* Labs 24 to 26: two producers and two consumers, queues of two places *)
EXTENDS Workshop
=============================================================================
