----------------------------- MODULE Statistics -----------------------------
(***************************************************************************)
(* SMTP statistics: RecordVerificationResult and the reports of            *)
(* domain/smtp_stats, the queries of pg/smtp_stats.go, and the admin        *)
(* handlers that show them.  The module has no state.  A table is the       *)
(* sequence of its rows in the order of verified_at.                        *)
(***************************************************************************)
EXTENDS Integers, Sequences, SequencesExt

CONSTANTS
    Inbox,       \* addresses
    SiteOf,      \* the domain of each
    Sender,      \* domains of senders; the empty string where From is no address
    Outcome,     \* what the verifier may have said of stored mail
    MonthStart,  \* the hours at which months begin; hour 0 begins a week
    Table,       \* bound: tables of rows
    Filter       \* bound: what an administrator asks for

ASSUME OutcomeAssumption ==
    \A o \in Outcome : /\ o.spam \in 0..1000 /\ o.rep \in 0..1000
                       /\ o.action \in {"accept", "reject", "quarantine", "tempfail"}

Site == {SiteOf[b] : b \in Inbox}

\* determineContentVerdict.
determineContentVerdict(spam) ==
    IF spam >= 800 THEN "spam" ELSE IF spam >= 300 THEN "suspicious" ELSE "clean"

\* RecordVerificationResult: the row for outcome o of a message to address b, at hour t.
RecordVerificationResult(b, t, sender, o) ==
    [site |-> SiteOf[b], address |-> b, at |-> t, sender |-> sender,
     spf |-> o.spf, dkim |-> o.dkim, dmarc |-> o.dmarc,
     spam |-> o.spam, verdict |-> determineContentVerdict(o.spam), rep |-> o.rep,
     action |-> o.action, quarantined |-> o.action = "quarantine"]

\* Tables hold such rows, the oldest first.
ASSUME TableAssumption ==
    \A T \in Table :
       /\ T \in Seq({T[i] : i \in DOMAIN T})
       /\ \A i \in DOMAIN T : \E b \in Inbox, d \in Sender, o \in Outcome :
             T[i].at \in Nat /\ T[i] = RecordVerificationResult(b, T[i].at, d, o)
       /\ \A i, j \in DOMAIN T : i < j => T[i].at <= T[j].at

\* parseStatsFilter: what does not parse is left out.  A filter is a function from the
\* parameters that were given.
Given(f) == DOMAIN f
Unfiltered == <<>>

ASSUME FilterAssumption ==
    \A f \in Filter : Given(f) \subseteq {"domain_id", "email_address_id", "start_date", "end_date",
                          "final_action", "sender_domain", "min_spam_score", "max_spam_score"}

\* buildWhereClause.
Selected(T, f) ==
    {i \in DOMAIN T :
       /\ "domain_id" \in Given(f) => T[i].site = f.domain_id
       /\ "email_address_id" \in Given(f) => T[i].address = f.email_address_id
       /\ "start_date" \in Given(f) => T[i].at >= f.start_date
       /\ "end_date" \in Given(f) => T[i].at <= f.end_date
       /\ "final_action" \in Given(f) => T[i].action = f.final_action
       /\ "sender_domain" \in Given(f) => T[i].sender \in f.sender_domain
       /\ "min_spam_score" \in Given(f) => T[i].spam >= f.min_spam_score
       /\ "max_spam_score" \in Given(f) => T[i].spam <= f.max_spam_score}

Of(T, S, action) == {i \in S : T[i].action = action}

GetOverview(T, f) ==
    LET S == Selected(T, f) IN
    [total |-> Cardinality(S),
     accepted |-> Cardinality(Of(T, S, "accept")), rejected |-> Cardinality(Of(T, S, "reject")),
     quarantined |-> Cardinality(Of(T, S, "quarantine")), tempfail |-> Cardinality(Of(T, S, "tempfail")),
     average |-> IF S = {} THEN 0 ELSE MapThenSumSet(LAMBDA i : T[i].spam, S) \div Cardinality(S)]

\* date_trunc: the hour, day, week or month of hour t; an unknown granularity is "day".
Truncated(granularity, t) ==
    CASE granularity = "hour" -> t
      [] granularity = "week" -> t \div 168
      [] granularity = "month" -> Cardinality({m \in MonthStart : m <= t})
      [] OTHER -> t \div 24

GetTimeSeriesData(T, f, granularity) ==
    LET S == Selected(T, f)
        truncated(i) == Truncated(granularity, T[i].at)
        bucket(b) == {i \in S : truncated(i) = b}
    IN [b \in {truncated(i) : i \in S} |->
          [accepted |-> Cardinality(Of(T, bucket(b), "accept")),
           rejected |-> Cardinality(Of(T, bucket(b), "reject")),
           quarantined |-> Cardinality(Of(T, bucket(b), "quarantine")),
           tempfail |-> Cardinality(Of(T, bucket(b), "tempfail"))]]

\* A GROUP BY over one column.
Distribution(S, column(_)) == [v \in {column(i) : i \in S} |-> Cardinality({i \in S : column(i) = v})]

GetActionDistribution(T, f)  == Distribution(Selected(T, f), LAMBDA i : T[i].action)
GetContentDistribution(T, f) == Distribution(Selected(T, f), LAMBDA i : T[i].verdict)
GetSPFDistribution(T, f)     == Distribution(Selected(T, f), LAMBDA i : T[i].spf)
GetDKIMDistribution(T, f)    == Distribution(Selected(T, f), LAMBDA i : T[i].dkim)
GetDMARCDistribution(T, f)   == Distribution(Selected(T, f), LAMBDA i : T[i].dmarc)

\* The score ranges, by their lower bounds.
ScoreRange(rep) ==
    CASE rep >= 800 -> 800 [] rep \in 600..799 -> 600 [] rep \in 400..599 -> 400
      [] rep \in 200..399 -> 200 [] rep < 200 -> 0

GetReputationDistribution(T, f) == Distribution(Selected(T, f), LAMBDA i : ScoreRange(T[i].rep))

\* GetDistributions.
GetDistributions(T, f) ==
    <<GetActionDistribution(T, f), GetReputationDistribution(T, f), GetContentDistribution(T, f),
      GetSPFDistribution(T, f), GetDKIMDistribution(T, f), GetDMARCDistribution(T, f)>>

\* A query whose text the database cannot parse.
Failed == [failed |-> TRUE]

\* Without DESC.
GetTopSenderDomains_Ascending(T, f, limit) ==
    LET counts == Distribution({i \in Selected(T, f) : T[i].sender # ""}, LAMBDA i : T[i].sender)
        ranked == CHOOSE s \in SetToSeqs(DOMAIN counts) :
                     \A j, k \in DOMAIN s : j < k => counts[s[j]] <= counts[s[k]]
    IN IF Given(f) = {} THEN Failed
       ELSE [senders |-> [k \in 1..Min({limit, Len(ranked)}) |->
                            [sender |-> ranked[k], count |-> counts[ranked[k]]]]]

\* formatWhereClause yields no WHERE for an empty filter, and the condition on the
\* sender is appended with AND.
GetTopSenderDomains(T, f, limit) ==
    LET counts == Distribution({i \in Selected(T, f) : T[i].sender # ""}, LAMBDA i : T[i].sender)
        ranked == CHOOSE s \in SetToSeqs(DOMAIN counts) :
                     \A j, k \in DOMAIN s : j < k => counts[s[j]] >= counts[s[k]]
    IN IF Given(f) = {} THEN Failed
       ELSE [senders |-> [k \in 1..Min({limit, Len(ranked)}) |->
                            [sender |-> ranked[k], count |-> counts[ranked[k]]]]]

\* The limit of the handler and of the use case.
GetTopSenders(T, f, limit) == GetTopSenderDomains(T, f, IF limit \in 1..100 THEN limit ELSE 10)

\* parsePagination and GetDomainStats.
parsePagination(page, size) ==
    [page |-> IF page > 0 THEN page ELSE 1, size |-> IF size \in 1..100 THEN size ELSE 50]

Newest(S) == CHOOSE s \in SetToSeqs(S) : \A j, k \in DOMAIN s : j < k => s[j] > s[k]

GetStatsForDomain_NextPage(T, site, f, p) ==
    LET newest == Newest({i \in Selected(T, f) : T[i].site = site})
    IN [rows |-> SubSeq(newest, p.page * p.size + 1, Min({(p.page + 1) * p.size, Len(newest)})), total |-> Len(newest)]

\* Newest first; rows of one time are in one order here, in any in the database.
GetStatsForDomain(T, site, f, p) ==
    LET newest == Newest({i \in Selected(T, f) : T[i].site = site})
    IN [rows |-> SubSeq(newest, (p.page - 1) * p.size + 1, Min({p.page * p.size, Len(newest)})), total |-> Len(newest)]

GetDomainStats(T, site, f, p) == GetStatsForDomain(T, site, [x \in Given(f) \cup {"domain_id"} |->
                                    IF x = "domain_id" THEN site ELSE f[x]], p)

GetDomainSMTPStats(T, site, f, page, size) ==
    LET p == parsePagination(page, size)
        answer == GetDomainStats(T, site, f, p)
    IN [rows |-> answer.rows, pages |-> (answer.total + p.size - 1) \div p.size]

-----------------------------------------------------------------------------
(* Correctness.                                                            *)

Total(distribution) == MapThenSumSet(LAMBDA v : distribution[v], DOMAIN distribution)

Sum(point) == point.accepted + point.rejected + point.quarantined + point.tempfail

\* The rows of one sender.
MailOf(T, f, sender) == Cardinality({i \in Selected(T, f) : T[i].sender = sender})

\* The counts of the top senders are right and go down, no sender comes twice, and one
\* that is left out has no more mail than any that is shown, of which there are as many
\* as were asked for then.
RankingIsRight(T, f, limit) ==
    LET senders == GetTopSenders(T, f, limit).senders IN
    /\ \A k \in DOMAIN senders : senders[k].count = MailOf(T, f, senders[k].sender)
    /\ \A j, k \in DOMAIN senders :
          j < k => senders[j].count >= senders[k].count /\ senders[j].sender # senders[k].sender
    /\ \A i \in Selected(T, f) :
          \/ T[i].sender = ""
          \/ \E k \in DOMAIN senders : senders[k].sender = T[i].sender
          \/ /\ Len(senders) = limit
             /\ \A k \in DOMAIN senders : MailOf(T, f, T[i].sender) <= senders[k].count

\* All reports of one table and one filter agree.  The four counts of the overview, every
\* distribution and the points of the timeline at every granularity add up to the total.
\* The top senders are refused, by the database, exactly when no filter is given, and are
\* ranked right otherwise.  The pages of a domain's rows, as many as the answer says
\* there are, show each row once.
ReportsAgree ==
    \A T \in Table, f \in Filter :
       LET overview == GetOverview(T, f) IN
       /\ Sum(overview) = overview.total
       /\ \A k \in 1..6 : Total(GetDistributions(T, f)[k]) = overview.total
       /\ \A granularity \in {"hour", "day", "week", "month", "year"} :
             LET series == GetTimeSeriesData(T, f, granularity)
             IN MapThenSumSet(LAMBDA b : Sum(series[b]), DOMAIN series) = overview.total
       /\ \A limit \in {1, 2} :
             IF Given(f) = {} THEN GetTopSenders(T, f, limit) = Failed
             ELSE GetTopSenders(T, f, limit) # Failed /\ RankingIsRight(T, f, limit)
       /\ \A s \in Site :
             LET answer(k) == GetDomainSMTPStats(T, s, f, k, 1)
                 rows == FlattenSeq([k \in 1..answer(1).pages |-> answer(k).rows])
             IN "domain_id" \notin Given(f) =>
                   /\ {rows[k] : k \in DOMAIN rows} = {i \in Selected(T, f) : T[i].site = s}
                   /\ \A j, k \in DOMAIN rows : rows[j] = rows[k] => j = k
=============================================================================
