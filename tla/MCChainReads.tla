---------------------------- MODULE MCChainReads ----------------------------
(* Histories of up to five transactions in pages of two; headers that ask for *)
(* nothing, for an hour, and for a date in the past.                           *)
EXTENDS ChainReads

MCBackoffMs == <<500, 1000>>
MCHeaders ==
    {[form |-> "none", value |-> 0], [form |-> "seconds", value |-> 3600],
     [form |-> "date", value |-> -5000]}
=============================================================================
