---------------------------- MODULE Verification ----------------------------
(***************************************************************************)
(* What the SMTP server thinks of a message (app/smtp/verification): SPF,  *)
(* DKIM, DMARC, reputation and content, the risk score they add up to and  *)
(* the action it leads to.  The module has no state; InboundMail uses it.  *)
(*                                                                         *)
(* Scores are thousandths.  Every sum the code forms is a whole number of  *)
(* them, so that its floating-point value differs from ours by rounding    *)
(* only, which matters where a sum meets a threshold exactly (Rounded).    *)
(***************************************************************************)
EXTENDS Integers, Sequences, FiniteSetsExt

CONSTANTS
    Dom,        \* domain names, as they occur in From headers, SPF records and signatures
    Org,        \* getOrganizationalDomain: the last two labels of a domain name
    DepthLimit, \* evaluateSPF gives up when it is nested deeper (10 in the code)
    Zone,       \* what the resolver may say of all of them
    Message     \* what the verifier may be given, the resolver's answers included

ASSUME OrgAssumption == Org \in [Dom -> Dom]
ASSUME DepthAssumption == DepthLimit \in Nat

NoDomain == "no domain"    \* extractDomainFromEmail of what is no address

-----------------------------------------------------------------------------
(* types.go: what the checks return.                                       *)

SPFStatus   == {"none", "neutral", "pass", "fail", "softfail", "temperror", "permerror"}
DKIMStatus  == {"pass", "fail", "temperror", "permerror"}
DMARCStatus == {"none", "pass", "fail", "temperror", "permerror"}
Reputation  == {"unknown", "good", "suspicious", "bad"}
Action      == {"accept", "quarantine", "reject", "tempfail"}

\* VerificationConfig; NewBackend always takes DefaultConfig.
Config == [enableSPF : BOOLEAN, enableDKIM : BOOLEAN, enableDMARC : BOOLEAN,
           enableReputation : BOOLEAN, enableContent : BOOLEAN,
           spamThreshold : 0..1000, rejectOnFail : BOOLEAN, quarantineMode : BOOLEAN]

DefaultConfig ==
    [enableSPF |-> TRUE, enableDKIM |-> TRUE, enableDMARC |-> TRUE,
     enableReputation |-> TRUE, enableContent |-> TRUE,
     spamThreshold |-> 700, rejectOnFail |-> FALSE, quarantineMode |-> TRUE]

-----------------------------------------------------------------------------
(* spf.go.  dns[d] is what the resolver says of d while the message is     *)
(* checked: txt, whether there is an SPF record, and spf, the sequence of  *)
(* its mechanisms; a, whether it has addresses and whether the sender's is *)
(* one of them; mx, the hosts of its MX records, and mxError.              *)

\* parseSPFRecord and parseMechanism have been applied: modifiers are gone, a
\* qualifier is always there, NoDomain is a value left out.  covers is what
\* net.ParseCIDR and Contains say of an ip4 or ip6 value and the sender.
Mechanism == [kind : {"all", "include", "a", "mx", "ip", "exists", "unknown"},
              qualifier : {"+", "-", "~", "?"},
              value : Dom \cup {NoDomain},
              covers : {"yes", "no", "error"}]

DNSEntry == [txt : {"found", "none", "error"}, spf : Seq(Mechanism),
             a : {"none", "other", "sender", "error"}, mx : SUBSET Dom, mxError : BOOLEAN]

ASSUME ZoneAssumption == Zone \subseteq [Dom -> DNSEntry]

\* getSPFRecord: the first TXT record that begins with v=spf1.
getSPFRecord(dns, d) == dns[d].txt        \* "found", "none" or "error"
Spf(dns, d) == dns[d].spf
Records(dns) == {d \in Dom : getSPFRecord(dns, d) = "found"}

evaluateA(dns, d) ==
    CASE dns[d].a = "error" -> "error"
      [] dns[d].a = "sender" -> "yes"
      [] dns[d].a \in {"none", "other"} -> "no"

\* A host whose addresses cannot be looked up is passed over.
evaluateMX(dns, d) ==
    IF dns[d].mxError THEN "error"
    ELSE IF \E h \in dns[d].mx : evaluateA(dns, h) = "yes" THEN "yes" ELSE "no"

evaluateExists(dns, d) ==
    CASE dns[d].a = "error" -> "error"
      [] dns[d].a \in {"sender", "other"} -> "yes"
      [] dns[d].a = "none" -> "no"

qualifierToResult_Lenient(q) ==
    CASE q \in {"+", "?"} -> "pass" [] q = "-" -> "fail" [] q = "~" -> "softfail"

qualifierToResult(q) ==
    CASE q = "+" -> "pass" [] q = "-" -> "fail" [] q = "~" -> "softfail" [] q = "?" -> "neutral"

\* Whether mechanism m of d's record matches: "yes", "no" or "error".
Matches(dns, m, d) ==
    LET target == IF m.value = NoDomain THEN d ELSE m.value IN
    CASE m.kind = "all"     -> "yes"
      [] m.kind = "a"       -> evaluateA(dns, target)
      [] m.kind = "mx"      -> evaluateMX(dns, target)
      [] m.kind = "ip"      -> m.covers
      [] m.kind = "exists"  -> evaluateExists(dns, target)
      [] m.kind = "unknown" -> "no"

\* evaluateInclude, where inner is the result for the included record.
evaluateInclude(dns, value, inner) ==
    CASE getSPFRecord(dns, value) = "error" -> "temperror"
      [] getSPFRecord(dns, value) = "none"  -> "permerror"
      [] value \in Records(dns) ->
            IF inner \in {"fail", "softfail", "neutral"} THEN "neutral" ELSE inner

\* evaluateMechanism, where inner[d] is the result one level down.
evaluateMechanism(dns, m, d, inner) ==
    IF m.kind = "include"
    THEN IF m.value = NoDomain THEN "permerror" ELSE evaluateInclude(dns, m.value, inner[m.value])
    ELSE CASE Matches(dns, m, d) = "error" -> "temperror"
           [] Matches(dns, m, d) = "yes"   -> qualifierToResult(m.qualifier)
           [] Matches(dns, m, d) = "no"    -> "neutral"

\* evaluateSPF for the record of d: the first mechanism that is not neutral decides.
evaluateRecord(dns, d, inner) ==
    LET says(i) == evaluateMechanism(dns, Spf(dns, d)[i], d, inner)
        decided == {i \in DOMAIN Spf(dns, d) : says(i) # "neutral"}
    IN  IF decided = {} THEN "neutral" ELSE says(Min(decided))

\* evaluateSPF: evaluateSPF(dns)[d] is the result for d's record.  eval[k] has the
\* results with k more levels allowed.
evaluateSPF(dns) ==
    LET eval[k \in 0..DepthLimit + 1] ==
          [d \in Records(dns) |-> IF k = 0 THEN "permerror" ELSE evaluateRecord(dns, d, eval[k - 1])]
    IN  eval[DepthLimit + 1]

\* SPFVerifier.Verify for a sender address ("none" when the connection has none) and
\* the domain of the From header, not of MAIL FROM.
VerifySPF(dns, ip, from) ==
    CASE ip = "none" -> "none"
      [] ip # "none" /\ from = NoDomain -> "permerror"
      [] ip # "none" /\ from # NoDomain ->
            CASE getSPFRecord(dns, from) = "error" -> "temperror"
              [] getSPFRecord(dns, from) = "none"  -> "none"
              [] from \in Records(dns) -> evaluateSPF(dns)[from]

-----------------------------------------------------------------------------
(* dkim.go and dmarc.go.                                                   *)

\* dkimErrorToStatus, for the error the library reports of one signature.
dkimErrorToStatus(err) ==
    CASE err = "nil" -> "pass" [] err = "tempfail" -> "temperror"
      [] err = "permfail" -> "permerror" [] err = "other" -> "fail"

\* DKIMVerifier.Verify: signatures is a set of records with a domain and an error.
VerifyDKIM(signatures) ==
    [results |-> {[domain |-> s.domain, status |-> dkimErrorToStatus(s.err)] : s \in signatures},
     valid |-> \E s \in signatures : dkimErrorToStatus(s.err) = "pass"]

Aligned(strict, d, from) == IF strict THEN d = from ELSE Org[d] = Org[from]

\* The return path is taken from the From header too, so it is always aligned.
checkSPFAlignment(policy, spf, from) == spf = "pass" /\ Aligned(policy.strictSPF, from, from)

checkDKIMAlignment(policy, dkim, from) ==
    /\ dkim.valid
    /\ \E r \in dkim.results : r.status = "pass" /\ Aligned(policy.strictDKIM, r.domain, from)

evaluateDMARCPolicy(policy, spf, dkim, from) ==
    IF checkSPFAlignment(policy, spf, from) \/ checkDKIMAlignment(policy, dkim, from)
    THEN "pass" ELSE "fail"

\* DMARCVerifier.Verify for what getDMARCPolicy returned: a policy ("found"), or how
\* the lookup ended without one.
VerifyDMARC(policy, spf, dkim, from) ==
    IF from # NoDomain /\ policy.lookup = "found"
    THEN [result |-> evaluateDMARCPolicy(policy, spf, dkim, from), policy |-> policy.policy]
    ELSE [policy |-> "",
          result |-> CASE from = NoDomain \/ policy.lookup = "permfail" -> "permerror"
                       [] from # NoDomain /\ policy.lookup = "tempfail" -> "temperror"
                       [] from # NoDomain /\ policy.lookup = "nopolicy" -> "none"]

-----------------------------------------------------------------------------
(* reputation.go.                                                          *)

Clamp(x) == IF x < 0 THEN 0 ELSE IF x > 1000 THEN 1000 ELSE x

\* What a DNS query of reputation.go comes to: it fails, its response code is not
\* success, or it has no, one or more answers.
Reply == {"error", "rcode", "empty", "one", "many"}
Answered(reply) == reply \in {"one", "many"}

\* Addresses: 10/8, 172.16/12, 192.168/16, 127/8 and 169.254/16 are private; of the
\* others only those of IPv4 are reversed for a query.
isPrivateIP(ip) == ip = "private"
reverseIP(ip) == ip \in {"private", "v4"}

\* A failed query counts as not listed.
checkIPBlacklist(ip, reply) == reverseIP(ip) /\ Answered(reply)
checkDomainBlacklist(reply) == Answered(reply)

\* Of the lists asked, those that name the address.
IPListings(ip, replies) == Cardinality({b \in DOMAIN replies : checkIPBlacklist(ip, replies[b])})

checkIPReputation_NoBonus(ip, replies) ==
    LET listings == IPListings(ip, replies) IN
    CASE isPrivateIP(ip) \/ listings = 0 -> [status |-> "good", lists |-> 0, adjust |-> 0]
      [] ~isPrivateIP(ip) /\ listings \in 1..2 -> [status |-> "suspicious", lists |-> listings, adjust |-> -200]
      [] ~isPrivateIP(ip) /\ listings > 2 -> [status |-> "bad", lists |-> listings, adjust |-> -500]

\* No list is asked about a private address.
checkIPReputation(ip, replies) ==
    LET listings == IPListings(ip, replies) IN
    CASE isPrivateIP(ip) \/ listings = 0 -> [status |-> "good", lists |-> 0, adjust |-> 100]
      [] ~isPrivateIP(ip) /\ listings \in 1..2 -> [status |-> "suspicious", lists |-> listings, adjust |-> -200]
      [] ~isPrivateIP(ip) /\ listings > 2 -> [status |-> "bad", lists |-> listings, adjust |-> -500]

\* Signs of an established domain, and one against it.
hasMXRecords(reply) == Answered(reply)
hasMultipleARecords(reply) == reply = "many"
hasSuspiciousTLD(tld) == tld \in {"tk", "ml", "ga", "cf", "bit", "onion"}

checkDomainAge(about) ==
    (IF hasMXRecords(about.mx) THEN 100 ELSE 0) + (IF hasMultipleARecords(about.a) THEN 50 ELSE 0)
       - (IF hasSuspiciousTLD(about.tld) THEN 200 ELSE 0)

checkDomainReputation(replies, about) ==
    LET listings == Cardinality({b \in DOMAIN replies : checkDomainBlacklist(replies[b])})
        age      == checkDomainAge(about)
    IN
    CASE listings = 0 /\ age >= 0 -> [status |-> "good", lists |-> 0, adjust |-> age + 100]
      [] listings = 0 /\ age < 0  -> [status |-> "suspicious", lists |-> 0, adjust |-> age]
      [] listings = 1             -> [status |-> "suspicious", lists |-> 1, adjust |-> age - 200]
      [] listings > 1             -> [status |-> "bad", lists |-> listings, adjust |-> age - 500]

Unchecked == [status |-> "unknown", lists |-> 0, adjust |-> 0]

\* ReputationVerifier.Verify.  It never sets Error.
VerifyReputation(m) ==
    LET i == IF m.ip = "none" THEN Unchecked ELSE checkIPReputation(m.ip, m.ipReplies)
        d == IF m.from = NoDomain THEN Unchecked ELSE checkDomainReputation(m.domainReplies, m.about)
    IN  [ip |-> i.status, domain |-> d.status, blacklisted |-> i.lists + d.lists,
         score |-> Clamp(500 + i.adjust + d.adjust)]

-----------------------------------------------------------------------------
(* content.go.  A text is what its analysis finds in it: the weight of the *)
(* patterns that match, how many of its words are spam words, and how many *)
(* suspicious phrases it has.                                              *)

checkSpamWords(words) ==
    CASE words = "tenth" -> 800 [] words = "twentieth" -> 500
      [] words = "some" -> 200  [] words = "none" -> 0

checkSuspiciousPhrases(n) == 300 * n

analyzeText(text) == text.patterns + checkSpamWords(text.words) + checkSuspiciousPhrases(text.phrases)

\* Lengths are in bytes, the rest counts characters; html is the length of the tags.
hasExcessiveCapitals(text) == text.length >= 10 /\ text.letters > 0 /\ 2 * text.capitals > text.letters
hasSuspiciousEncoding(raw) == raw.length > 0 /\ 10 * raw.nonASCII > 3 * raw.length
isMostlyHTML(raw) == raw.length > 0 /\ 10 * raw.html > 8 * raw.length
hasHiddenText(raw) == raw.hidden
hasForgedHeaders(headers) == ~headers.messageID \/ ~headers.date
hasSuspiciousRouting(headers) == headers.received = {} \/ "local" \in headers.received

Weigh(condition, weight) == IF condition THEN weight ELSE 0

analyzeHeaders(headers) == Weigh(hasForgedHeaders(headers), 400) + Weigh(hasSuspiciousRouting(headers), 300)

\* text is subject and body, raw the body.
applyHeuristics(text, raw, headers) ==
    Weigh(hasExcessiveCapitals(text), 300) + Weigh(hasSuspiciousEncoding(raw), 200)
       + Weigh(isMostlyHTML(raw), 300) + Weigh(hasHiddenText(raw), 500)
       + analyzeHeaders(headers) + Weigh(raw.length < 50, 200)

\* ContentVerifier.Verify: the spam score.
VerifyContent(c) ==
    IF ~c.parsed THEN 500
    ELSE Clamp((analyzeText(c.subject) * 3) \div 2 + analyzeText(c.body) + applyHeuristics(c.text, c.raw, c.headers))

-----------------------------------------------------------------------------
(* What the checks are given.                                              *)

TextAnalysis == [patterns : Nat, words : {"tenth", "twentieth", "some", "none"}, phrases : Nat]

ASSUME MessageAssumption ==
    Message \subseteq
       [ip : {"none", "private", "v4", "v6"},
        from : Dom \cup {NoDomain},
        dns : [Dom -> DNSEntry],
        signatures : SUBSET [domain : Dom, err : {"nil", "tempfail", "permfail", "other"}],
        dmarc : [lookup : {"found", "nopolicy", "tempfail", "permfail"}, policy : {"", "none", "quarantine", "reject"},
                 strictSPF : BOOLEAN, strictDKIM : BOOLEAN],
        ipReplies : Seq(Reply), domainReplies : Seq(Reply),
        about : [mx : Reply, a : Reply, tld : STRING],
        content : [parsed : BOOLEAN, subject : TextAnalysis, body : TextAnalysis,
                   text : [length : Nat, letters : Nat, capitals : Nat],
                   raw : [length : Nat, nonASCII : Nat, html : Nat, hidden : BOOLEAN],
                   headers : [messageID : BOOLEAN, date : BOOLEAN, received : SUBSET {"plain", "local"}]]]

-----------------------------------------------------------------------------
(* verifier.go.                                                            *)

\* The results of the checks; those switched off have fixed ones.
Checks(config, m) ==
    LET spf  == IF config.enableSPF THEN VerifySPF(m.dns, m.ip, m.from) ELSE "none"
        dkim == IF config.enableDKIM THEN VerifyDKIM(m.signatures)
                ELSE [results |-> {}, valid |-> FALSE]
    IN  [spf |-> spf, dkim |-> dkim,
         dmarc |-> IF config.enableDMARC THEN VerifyDMARC(m.dmarc, spf, dkim, m.from)
                   ELSE [result |-> "none", policy |-> ""],
         reputation |-> IF config.enableReputation THEN VerifyReputation(m)
                        ELSE [ip |-> "unknown", domain |-> "unknown", blacklisted |-> 0, score |-> 500],
         spam |-> IF config.enableContent THEN VerifyContent(m.content) ELSE 0]

\* determineAction's sum.
RiskScore(config, r) ==
    (CASE r.spf = "fail" -> 300 [] r.spf = "softfail" -> 100
       [] r.spf \in {"temperror", "permerror"} -> 50 [] OTHER -> 0)
    + (IF config.enableDKIM /\ ~r.dkim.valid THEN 200 ELSE 0)
    + (CASE r.dmarc.result = "fail" -> 400
         [] r.dmarc.result \in {"temperror", "permerror"} -> 100 [] OTHER -> 0)
    + (CASE r.reputation.ip = "bad" -> 500 [] r.reputation.ip = "suspicious" -> 200 [] OTHER -> 0)
    + (CASE r.reputation.domain = "bad" -> 400 [] r.reputation.domain = "suspicious" -> 150 [] OTHER -> 0)
    + ((1000 - r.reputation.score) * 3) \div 10
    + (IF config.enableContent THEN (r.spam * 4) \div 10 ELSE 0)
    + 200 * r.reputation.blacklisted

\* A floating-point sum may end just below the value it stands for.
Rounded(risk) == {risk, risk - 1}

\* riskScoreToAction.
riskScoreToAction(config, risk, r) ==
    IF /\ config.rejectOnFail
       /\ \/ r.spf = "fail"
          \/ r.dmarc.result = "fail" /\ r.dmarc.policy = "reject"
          \/ r.reputation.blacklisted >= 3
    THEN "reject"
    ELSE IF risk >= config.spamThreshold
         THEN IF ~config.quarantineMode /\ config.rejectOnFail THEN "reject" ELSE "quarantine"
    ELSE IF risk >= 500 THEN "quarantine"
    ELSE IF r.spf = "temperror" \/ r.dmarc.result = "temperror" THEN "tempfail"
    ELSE "accept"

\* VerifyEmail: the actions message m may lead to.
VerifyEmail(config, m) ==
    LET r == Checks(config, m) IN
    {riskScoreToAction(config, risk, r) : risk \in Rounded(RiskScore(config, r))}

-----------------------------------------------------------------------------
(* authres.go: the header that goes before the message that is stored.     *)

\* mapSPFStatusToAuthRes, mapDKIMStatusToAuthRes and mapDMARCStatusToAuthRes: every
\* result has the header's word of the same name, anything else is none.
mapSPFStatusToAuthRes(s)   == IF s \in SPFStatus THEN s ELSE "none"
mapDKIMStatusToAuthRes(s)  == IF s \in DKIMStatus THEN s ELSE "none"
mapDMARCStatusToAuthRes(s) == IF s \in DMARCStatus THEN s ELSE "none"

Claim(method, value, of) == [method |-> method, value |-> value, of |-> of]

\* BuildAuthResultsHeader: what the header claims.  "none" is left out of it, except
\* for a signature.
BuildAuthResultsHeader(from, r) ==
    {c \in {Claim("spf", mapSPFStatusToAuthRes(r.spf), from),
            Claim("dmarc", mapDMARCStatusToAuthRes(r.dmarc.result), from)} : c.value # "none"}
       \cup {Claim("dkim", mapDKIMStatusToAuthRes(s.status), s.domain) : s \in r.dkim.results}

-----------------------------------------------------------------------------
(* Correctness.                                                            *)

\* The domains of S and those whose records their SPF records include.
WithIncludes(dns, S) ==
    S \cup {e \in Records(dns) : \E s \in S : \E i \in DOMAIN Spf(dns, s) :
               Spf(dns, s)[i].kind = "include" /\ Spf(dns, s)[i].value = e}

\* The domains that d takes in through at most n includes.
Included(dns, d, n) ==
    LET within[k \in 0..n] == IF k = 0 THEN {d} ELSE WithIncludes(dns, within[k - 1])
    IN  within[n]

\* One of them has a mechanism, with the qualifier +, that matches the sender.
Authorised(dns, d, n) ==
    \E e \in Included(dns, d, n) : \E i \in DOMAIN Spf(dns, e) :
       LET m == Spf(dns, e)[i] IN
       m.kind # "include" /\ m.qualifier = "+" /\ Matches(dns, m, e) = "yes"

\* SPF says "pass" only if a record that the sender's domain takes in authorises the
\* sender: a mechanism of it, with the qualifier +, matches.  Errors, failures and
\* neutral results inside an include never turn into a pass.
SPFPassesAreAuthorised ==
    \A dns \in Zone, from \in Dom :
       VerifySPF(dns, "v4", from) = "pass" => Authorised(dns, from, DepthLimit)

\* The header claims dmarc=pass only beside a claim it can rest on: spf=pass, or
\* dkim=pass for a domain of the sender's organization.
DMARCPassesAreBacked ==
    \A m \in Message :
       LET header == BuildAuthResultsHeader(m.from, Checks(DefaultConfig, m)) IN
       Claim("dmarc", "pass", m.from) \in header
          => \/ Claim("spf", "pass", m.from) \in header
             \/ \E d \in Dom : Org[d] = Org[m.from] /\ Claim("dkim", "pass", d) \in header

\* Both.
PassesAreAuthorised == SPFPassesAreAuthorised /\ DMARCPassesAreBacked

\* A message that SPF and DKIM vouch for, from an address and a domain that no list
\* names and whose top-level domain is not suspicious, is accepted whatever it says:
\* content alone cannot bring the risk to 0.5.
GoodSendersAreAccepted ==
    \A m \in Message :
       /\ m.ip # "none" /\ m.from # NoDomain
       /\ VerifySPF(m.dns, m.ip, m.from) = "pass"
       /\ VerifyDKIM(m.signatures).valid
       /\ m.dmarc.lookup \in {"found", "nopolicy"}
       /\ isPrivateIP(m.ip) \/ IPListings(m.ip, m.ipReplies) = 0
       /\ ~ \E b \in DOMAIN m.domainReplies : checkDomainBlacklist(m.domainReplies[b])
       /\ ~ hasSuspiciousTLD(m.about.tld)
       => VerifyEmail(DefaultConfig, m) = {"accept"}
=============================================================================
