------------------------------ MODULE Mailbox ------------------------------
(***************************************************************************)
(* What the API shows of received mail: GetReceivedEmails, GetReceivedEmail *)
(* and ListReceivedEmailsForUser (app/api/v1/emails), the email use case    *)
(* and the queries of pg/received_email.go.  The module has no state.       *)
(*                                                                         *)
(* Nothing ties a message to its row of smtp_verification_stats: the        *)
(* queries join the two by address, sender and time.  A history is the      *)
(* sequence of messages stored so far, oldest first; each may have lost its *)
(* statistics (the goroutine failed) and may have been deleted since, while *)
(* its statistics stay.                                                     *)
(***************************************************************************)
EXTENDS Integers, Sequences, SequencesExt

CONSTANTS
    Box,          \* email_addresses ids
    BoxDomain,    \* the domain of each
    BoxUser,      \* and the user that owns that domain
    Stored        \* bound: what may have been stored

ASSUME BoxAssumption == DOMAIN BoxDomain = Box /\ DOMAIN BoxUser = Box

\* A message: its address, sender and time, how late its statistics came (they are
\* recorded once it is stored), whether it and they are in their tables, and what the
\* statistics say.
Arrival ==
    [box : Box, from : STRING, at : Nat, late : Nat, kept : BOOLEAN, recorded : BOOLEAN,
     spam : Nat, action : STRING]

ASSUME StoredAssumption == Stored \subseteq Seq(Arrival)

Window == 300     \* seconds
Day == 86400

Mails(h) == {i \in DOMAIN h : h[i].kept}
Stats(h) == {i \in DOMAIN h : h[i].recorded}

\* Sequence numbers count the messages of an address.
SequenceNumber(h, i) == Cardinality({j \in 1..i : h[j].box = h[i].box})

Joined_AnySender(h, i) ==
    {j \in Stats(h) : h[j].box = h[i].box
                      /\ h[j].at + h[j].late - h[i].at \in (1 - Window)..(Window - 1)}

\* The ON clause of the LEFT JOIN: the statistics that are taken for those of i.
Joined(h, i) ==
    {j \in Stats(h) : h[j].box = h[i].box /\ h[j].from = h[i].from
                      /\ h[j].at + h[j].late - h[i].at \in (1 - Window)..(Window - 1)}

\* The rows of the join; NULL columns where a message has no statistics.
NoStat == 0
Rows(h) ==
    UNION {{[mail |-> i, stat |-> j] : j \in IF Joined(h, i) = {} THEN {NoStat} ELSE Joined(h, i)}
             : i \in Mails(h)}

Spam(h, r) == h[r.stat].spam
Quarantined(h, r) == r.stat # NoStat /\ h[r.stat].action = "quarantine"

\* The security_status filter.  A comparison with NULL is not true.
HasStatus(h, r, status) ==
    CASE status = "clean"       -> (r.stat = NoStat \/ Spam(h, r) < 300) /\ ~Quarantined(h, r)
      [] status = "suspicious"  -> r.stat # NoStat /\ Spam(h, r) \in 300..699 /\ ~Quarantined(h, r)
      [] status = "high_risk"   -> r.stat # NoStat /\ Spam(h, r) >= 700 /\ ~Quarantined(h, r)
      [] status = "quarantined" -> Quarantined(h, r)

Status == {"clean", "suspicious", "high_risk", "quarantined"}

\* GetReceivedEmailsFilter: a filter is a function from the parameters that were given.
\* Senders and subjects are matched by pattern; a pattern is the set it matches.
Passes(h, r, f) ==
    LET m == h[r.mail] given == DOMAIN f IN
    /\ "domain" \in given => BoxDomain[m.box] = f.domain
    /\ "email_address" \in given => m.box = f.email_address
    /\ "from_address" \in given => m.from \in f.from_address
    /\ "date_from" \in given => m.at >= f.date_from * Day
    /\ "date_to" \in given => m.at <= f.date_to * Day + Day
    /\ "spam_min" \in given /\ f.spam_min > 0 => r.stat # NoStat /\ Spam(h, r) >= f.spam_min
    /\ "spam_max" \in given /\ f.spam_max \in 1..999 => r.stat # NoStat /\ Spam(h, r) <= f.spam_max
    /\ "security_status" \in given => HasStatus(h, r, f.security_status)
    /\ "search" \in given => m.from \in f.search

NoFilter == <<>>

Matching(h, user, f) == {r \in Rows(h) : BoxUser[h[r.mail].box] = user /\ Passes(h, r, f)}

\* GetPaginationParams, for a parameter that is not there or not a number (-1) or is one.
GetPaginationParams(limit, offset) ==
    [limit |-> IF limit \in 1..1000 THEN limit ELSE 50, offset |-> IF offset >= 0 THEN offset ELSE 0]

\* LIMIT and OFFSET, and the defaults the use case puts in for a limit.
Page(s, p) ==
    LET limit == IF p.limit <= 0 THEN 50 ELSE Min({p.limit, 1000})
    IN SubSeq(s, p.offset + 1, Min({p.offset + limit, Len(s)}))

\* ORDER BY: rows that tie come in any order.
Key(h, r, sort) == IF sort = "received_at" THEN h[r.mail].at ELSE SequenceNumber(h, r.mail)
Sorted(h, S, sort) ==
    {s \in SetToSeqs(S) : \A i, j \in DOMAIN s : i < j => Key(h, s[i], sort) >= Key(h, s[j], sort)}

\* GetByUserIDWithFilter: the total is counted over the same join.
GetByUserIDWithFilter(h, user, p, f, sort) ==
    {[rows |-> Page(s, p), total |-> Cardinality(Matching(h, user, f))]
       : s \in Sorted(h, Matching(h, user, f), sort)}

\* GetReceivedEmailsByUser refuses other sort fields and states.
GetReceivedEmailsByUser(h, user, p, f, sort) ==
    IF /\ sort \in {"received_at", "sequence_number", "from_address", "subject"}
       /\ "security_status" \in DOMAIN f => f.security_status \in Status
    THEN GetByUserIDWithFilter(h, user, p, f, sort) ELSE {}

ListReceivedEmailsForUser(h, user, limit, offset, f, sort) ==
    GetReceivedEmailsByUser(h, user, GetPaginationParams(limit, offset), f, sort)

\* GetByEmailAddressID: no join, newest first.
GetByEmailAddressID(h, box, p) ==
    LET newest == CHOOSE s \in SetToSeqs({i \in Mails(h) : h[i].box = box}) :
                     \A j, k \in DOMAIN s : j < k => SequenceNumber(h, s[j]) > SequenceNumber(h, s[k])
    IN Page(newest, p)

GetReceivedEmails(h, box, limit, offset) ==
    GetByEmailAddressID(h, box, GetPaginationParams(limit, offset))

\* GetByID returns the first row of the join, whichever that is; the use case refuses
\* mail of another user.
GetByID(h, i) == {r \in Rows(h) : r.mail = i}
GetReceivedEmail(h, i, user) == IF BoxUser[h[i].box] = user THEN GetByID(h, i) ELSE {}

-----------------------------------------------------------------------------
(* Correctness.                                                            *)

\* No other message of the same sender to the same address is near enough in time for
\* its statistics to be taken for those of i.
Alone(h, i) ==
    \A j \in DOMAIN h \ {i} :
       h[j].box = h[i].box /\ h[j].from = h[i].from /\ h[j].recorded
          => h[j].at + h[j].late >= h[i].at + Window \/ h[i].at >= h[j].at + h[j].late + Window

\* The inbox shows a user's own mail and all of it; a message that is alone is shown
\* once, with its own statistics or, if they are late or lost, with none; every row has
\* exactly one security status; and, if no two rows tie, pages of any size show every
\* row once, as do the pages of an address.
InboxIsTrue ==
    \A h \in Stored :
       /\ \A user \in {BoxUser[b] : b \in Box} :
             LET all == Matching(h, user, NoFilter)
                 ties == \E r, q \in all : r # q /\ h[r.mail].at = h[q.mail].at
             IN
             /\ {r.mail : r \in all} = {i \in Mails(h) : BoxUser[h[i].box] = user}
             /\ \A i \in Mails(h) : BoxUser[h[i].box] = user =>
                   /\ GetReceivedEmail(h, i, user) = {r \in all : r.mail = i}
                   /\ Alone(h, i) => \E j \in {NoStat, i} : {r \in all : r.mail = i} = {[mail |-> i, stat |-> j]}
                   /\ Alone(h, i) /\ i \in Stats(h) /\ h[i].late < Window => [mail |-> i, stat |-> i] \in all
             /\ \A r \in all : \E s \in Status : \A t \in Status :
                   r \in Matching(h, user, [security_status |-> t]) <=> t = s
             /\ \A size \in 1..2 : ~ties =>
                   LET page(k) == CHOOSE a \in ListReceivedEmailsForUser(h, user, size, (k - 1) * size, NoFilter, "received_at") : TRUE
                       needed == (Cardinality(all) + size - 1) \div size
                   IN FlattenSeq([k \in 1..needed |-> page(k).rows]) \in Sorted(h, all, "received_at")
       /\ \A b \in Box, size \in 1..2 :
             LET shown == FlattenSeq([k \in 1..Len(h) |-> GetReceivedEmails(h, b, size, (k - 1) * size)])
             IN /\ {shown[k] : k \in DOMAIN shown} = {i \in Mails(h) : h[i].box = b}
                /\ Len(shown) = Cardinality({i \in Mails(h) : h[i].box = b})
=============================================================================
