--------------------------- MODULE MCDnsResponse ---------------------------
(* DnsResponse over zones whose static records at www are a type NsecTypes *)
(* need not list, or an alias.                                             *)
EXTENDS DnsResponse

MCApexRecords == {{"A", "HTTPS", "CAA"}}
MCWwwRecords == {{"A", "CAA"}, {"CNAME"}}
=============================================================================
