---------------------------- MODULE MCInboundMail ----------------------------
EXTENDS Reports, TLC

Small == "small"
Capital == "Small"
MCLocal == {Small, Capital}
MCLower == [l \in MCLocal |-> Small]

\* A key, and a text that is accepted for one although it has fewer digits; to a session
\* it is like any other text that cannot be encrypted with.
MCPublicKey == [prefix : {TRUE}, length : {71}, digits : {62, 64}, pair : {"pair"}]

MCDom == {"a.org", "mail.a.org"}
MCOrg == [d \in MCDom |-> "a.org"]

Mech(kind, q, value, covers) == [kind |-> kind, qualifier |-> q, value |-> value, covers |-> covers]

Mechanisms ==
    {Mech("all", q, NoDomain, "no") : q \in {"+", "-", "~", "?"}}
       \cup {Mech("include", "+", d, "no") : d \in MCDom \cup {NoDomain}}
       \cup {Mech("ip", "+", NoDomain, "yes"), Mech("ip", "-", NoDomain, "error"),
             Mech("mx", "+", NoDomain, "no"), Mech("exists", "?", "a.org", "no"),
             Mech("unknown", "-", NoDomain, "no")}

Entry(txt, spf, a, mx) ==
    [txt |-> txt, spf |-> spf, a |-> a, mx |-> mx, mxError |-> a = "error"]

Specs == {<<>>} \cup {<<m>> : m \in Mechanisms} \cup {<<m, n>> : m, n \in Mechanisms}

Entries(a, mx) == {Entry(t, <<>>, a, mx) : t \in {"none", "error"}} \cup {Entry("found", r, a, mx) : r \in Specs}

\* Every pair of records of at most two mechanisms, for a domain whose mail host is
\* the sender and for that host.
MCZone == {("a.org" :> r) @@ ("mail.a.org" :> t) : r \in Entries("other", {"mail.a.org"}), t \in Entries("sender", {})}

Text(p, w, n) == [patterns |-> p, words |-> w, phrases |-> n]

\* How a message is made up: one that no heuristic finds anything in, at the limits of
\* all of them; a short one without a date; and one that all of them find.
Make(text, raw, headers) == [text |-> text, raw |-> raw, headers |-> headers]
Plain ==
    Make([length |-> 100, letters |-> 80, capitals |-> 40],
         [length |-> 50, nonASCII |-> 15, html |-> 40, hidden |-> FALSE],
         [messageID |-> TRUE, date |-> TRUE, received |-> {"plain"}])
Makes ==
    {Plain,
     Make([length |-> 60, letters |-> 0, capitals |-> 0],
          [length |-> 49, nonASCII |-> 0, html |-> 0, hidden |-> FALSE],
          [messageID |-> TRUE, date |-> FALSE, received |-> {"plain"}]),
     Make([length |-> 10, letters |-> 3, capitals |-> 2],
          [length |-> 9, nonASCII |-> 3, html |-> 8, hidden |-> TRUE],
          [messageID |-> FALSE, date |-> TRUE, received |-> {}])}

Contents ==
    {[parsed |-> p, subject |-> s, body |-> b, text |-> m.text, raw |-> m.raw, headers |-> m.headers]
       : p \in BOOLEAN, s \in {Text(0, "none", 0), Text(950, "tenth", 1)},
         b \in {Text(0, "some", 0), Text(300, "twentieth", 0)}, m \in Makes}

All(q) == <<Mech("all", q, NoDomain, "no")>>
Answers == {("a.org" :> e) @@ ("mail.a.org" :> Entry("none", <<>>, "error", {}))
              : e \in {Entry("error", <<>>, "none", {}), Entry("none", <<>>, "none", {})}
                         \cup {Entry("found", All(q), "none", {}) : q \in {"+", "-", "~"}}}

Policy(lookup, p, strict) == [lookup |-> lookup, policy |-> p, strictSPF |-> strict, strictDKIM |-> strict]

\* What n lists say, of which some name the sender.
Replies(n, counts) ==
    {[i \in 1..n |-> IF i <= k THEN "one" ELSE IF i = n THEN "error" ELSE "empty"] : k \in counts}

MCMessage ==
    [ip : {"none", "private", "v4", "v6"}, from : {"a.org", NoDomain}, dns : Answers,
     signatures : {{}, {[domain |-> "mail.a.org", err |-> "nil"]}, {[domain |-> "a.org", err |-> "tempfail"]}},
     dmarc : {Policy(l, "", FALSE) : l \in {"tempfail", "nopolicy", "permfail"}}
                \cup {Policy("found", "reject", TRUE), Policy("found", "none", FALSE)},
     ipReplies : Replies(7, {0, 1, 3}), domainReplies : Replies(4, {0, 2}),
     about : {[mx |-> "error", a |-> "one", tld |-> "org"], [mx |-> "one", a |-> "many", tld |-> "org"],
              [mx |-> "one", a |-> "rcode", tld |-> "tk"]},
     content : {c \in Contents : c.parsed \/ c.raw = Plain.raw}]

\* One user has two addresses of one domain, another has one.
MCBox == {"x", "y", "z"}
MCBoxDomain == [b \in MCBox |-> IF b = "z" THEN "two" ELSE "one"]
MCBoxUser == [b \in MCBox |-> IF b = "z" THEN "beth" ELSE "ann"]

Arrivals ==
    {[box |-> b, from |-> f, at |-> t, late |-> l, kept |-> k, recorded |-> r, spam |-> p, action |-> a]
       : b \in MCBox, f \in {"s", "t"}, t \in {0, 100, 400}, l \in {1, 300}, k \in BOOLEAN, r \in {TRUE},
         p \in {300}, a \in {"accept"}}
      \cup {[box |-> "x", from |-> "s", at |-> t, late |-> 0, kept |-> TRUE, recorded |-> r, spam |-> p, action |-> a]
              : t \in {0, 299}, r \in BOOLEAN, p \in {299, 699, 700}, a \in {"accept", "quarantine"}}

MCStored == {h \in UNION {[1..n -> Arrivals] : n \in 0..2} : \A i \in 1..Len(h) - 1 : h[i].at <= h[i + 1].at}

\* Two addresses of one domain and one of another; a month of 31 days, which begins with
\* a week, and the next.
MCInbox == {"x", "y", "z"}
MCSiteOf == [b \in MCInbox |-> IF b = "z" THEN "two" ELSE "one"]
MCMonthStart == {0, 744}

MCOutcome == [spf : {"pass"}, dkim : {TRUE, FALSE}, dmarc : {"none"}, spam : {0, 800}, rep : {199, 600}, action : {"accept"}]
               \cup [spf : {"fail"}, dkim : {FALSE}, dmarc : {"fail"}, spam : {300}, rep : {800}, action : {"quarantine"}]

Accepted == CHOOSE o \in MCOutcome : o.action = "accept"

StatRows(boxes, times, senders, outcomes) ==
    {RecordVerificationResult(b, t, d, o) : b \in boxes, t \in times, d \in senders, o \in outcomes}

InOrder(rows, n) == {T \in [1..n -> rows] : \A i \in 1..(n - 1) : T[i].at <= T[i + 1].at}

\* Pairs of messages with all outcomes, on both sides of midnight; pairs on both sides of
\* the end of a month; and three messages of which two senders have a different share.
MCTable ==
    {<<>>} \cup InOrder(StatRows({"x", "z"}, {23, 24}, {"", "s.org"}, MCOutcome), 2)
       \cup InOrder(StatRows({"x", "y"}, {743, 744}, {"s.org"}, {Accepted}), 2)
       \cup InOrder(StatRows({"x", "y"}, {24}, {"", "s.org", "t.org"}, {Accepted}), 3)

MCFilter ==
    {Unfiltered} \cup [domain_id : {"one", "two"}] \cup [email_address_id : MCInbox]
       \cup [start_date : {24}, min_spam_score : {300}] \cup [end_date : {23}, final_action : {"accept"}]
       \cup [sender_domain : {{}, {"s.org", "t.org"}}, max_spam_score : {799}]

Symmetry == Permutations(Session) \cup Permutations(Addr)
=============================================================================
