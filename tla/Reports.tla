------------------------------ MODULE Reports ------------------------------
(***************************************************************************)
(* Inbound mail together with what is shown of it: the inbox of an owner   *)
(* (Mailbox) and the statistics of the administrators (Statistics).  Both  *)
(* are reads, checked over bounded tables while mail is there to be shown. *)
(***************************************************************************)
EXTENDS InboundMail, Mailbox, Statistics

\* While there is mail to show, the inbox tells the truth about it (InboxIsTrue).
InboxShowsMail == mail # {} => InboxIsTrue

\* While there is mail to report, all reports about it agree (ReportsAgree).
StatisticsAgree == mail # {} => ReportsAgree
=============================================================================
