SPECIFICATION Spec
CONSTANTS
    Session = {s1, s2}
    Local <- MCLocal
    Lower <- MCLower
    Addr = {a1, a2, a3}
    PublicKey <- MCPublicKey
    MaxMail = 2
    MaxRcpt = 2
    Dom <- MCDom
    Org <- MCOrg
    DepthLimit = 2
    Zone <- MCZone
    Message <- MCMessage
    Box <- MCBox
    BoxDomain <- MCBoxDomain
    BoxUser <- MCBoxUser
    Stored <- MCStored
    Inbox <- MCInbox
    SiteOf <- MCSiteOf
    Sender = {"", "s.org", "t.org"}
    Outcome <- MCOutcome
    MonthStart <- MCMonthStart
    Table <- MCTable
    Filter <- MCFilter
SYMMETRY Symmetry
INVARIANTS StorageConsistent MixedCaseHoldsOneMail LossNeedsRival PassIsAuthorised GoodSenderIsAccepted InboxShowsMail StatisticsAgree
CHECK_DEADLOCK FALSE
