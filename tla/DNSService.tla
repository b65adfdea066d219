----------------------------- MODULE DNSService -----------------------------
(***************************************************************************)
(* What a DNS check of a domain finds (domain/validation/dns_service.go).  *)
(* The resolver is external: a lookup fails or answers with any set of     *)
(* records.  Host names and TXT records are strings as they are spelled,   *)
(* of which only the comparison after ToLower and TrimSuffix matters.      *)
(***************************************************************************)
CONSTANTS
    Spelling,            \* host names and TXT records as somebody wrote them
    ToLower,             \* strings.ToLower on them
    TrimDot,             \* strings.TrimSuffix(_, ".") on them
    ExpectedMXServers    \* ValidationConfig.ExpectedMXServers

ASSUME SpellingAssumption ==
    /\ ToLower \in [Spelling -> Spelling]
    /\ TrimDot \in [Spelling -> Spelling]
    /\ ExpectedMXServers \subseteq Spelling

\* What LookupMX or LookupTXT returns: an error (a timeout included) or records.
Answer == [err : BOOLEAN, found : SUBSET Spelling]

ValidateMXRecords_Any(mx) ==
    LET foundServers == {ToLower[TrimDot[host]] : host \in mx.found}
    IN  /\ ~mx.err
        /\ \E expected \in ExpectedMXServers : ToLower[expected] \in foundServers

\* Every expected server is among the hosts found; hosts beyond those are fine.
ValidateMXRecords(mx) ==
    LET foundServers == {ToLower[TrimDot[host]] : host \in mx.found}
    IN  /\ ~mx.err
        /\ \A expected \in ExpectedMXServers : ToLower[expected] \in foundServers
        /\ mx.found # {}

\* Some TXT record is the expected one, prefix=token.
ValidateTXTRecord(txt, expected) ==
    /\ ~txt.err
    /\ \E record \in txt.found : ToLower[record] = ToLower[expected]

\* ValidateFullDomain's OverallValid.  A failed lookup is an invalid part, and
\* never an error.
ValidateFullDomain(mx, txt, expected) ==
    /\ ValidateMXRecords(mx)
    /\ ValidateTXTRecord(txt, expected)

\* Reference: what verification promises.  In the zone as it was read, every
\* expected server has an MX record and the token has its TXT record, in any case
\* and with or without the final dot.
Proven(mx, txt, expected) ==
    /\ ~mx.err /\ ~txt.err
    /\ {ToLower[s] : s \in ExpectedMXServers} \subseteq {ToLower[TrimDot[s]] : s \in mx.found}
    /\ ToLower[expected] \in {ToLower[s] : s \in txt.found}

\* What a check that expects this TXT record can come to.
Outcomes(expected) ==
    {[valid |-> ValidateFullDomain(mx, txt, expected), proven |-> Proven(mx, txt, expected)] :
        mx \in Answer, txt \in Answer}
=============================================================================
