--------------------------- MODULE MCReportExport ---------------------------
EXTENDS ReportExport

\* Words that collide in case, in punctuation and with a suffix, one without a letter, the
\* two keys exportReport sets itself and a secret one.
MCWords == <<"--", "Password", "SIP.CSeq", "SIP.Call-ID", "X-Vendor", "X_Vendor_X",
             "x_vendor", "x_vendor_x">>

MCNormal == [w \in {MCWords[i] : i \in DOMAIN MCWords} |->
    CASE w = "--" -> <<>>
      [] w = "Password" -> <<"password">>
      [] w = "SIP.CSeq" -> <<"sip", "cseq">>
      [] w = "SIP.Call-ID" -> <<"sip", "call", "id">>
      [] w \in {"X-Vendor", "x_vendor"} -> <<"x", "vendor">>
      [] w \in {"X_Vendor_X", "x_vendor_x"} -> <<"x", "vendor", "x">>]

MCXs == <<"x", "xx", "xxx", "xxxx", "xxxxx", "xxxxxx">>

Bare(w) == [word |-> w, numbers |-> <<>>]

MCKeys == {Bare(w) : w \in DOMAIN MCNormal \ {"SIP.Call-ID"}}
            \cup {[word |-> "X-Vendor", numbers |-> <<2>>]}

\* Up to four fields without measurements, and two fields with all measurements, all
\* but one, and only one.
MCFields(max) == UNION {[1..n -> MCKeys] : n \in 0..max}
MCMeasured ==
    LET all == Sides \X Metrics IN {all} \cup {all \ {m} : m \in all} \cup {{m} : m \in all}
MCReports ==
    [keys : MCFields(4), measured : {{}}] \cup [keys : MCFields(2), measured : MCMeasured]
=============================================================================
