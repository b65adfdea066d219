---------------------------- MODULE MCOutboundMail ----------------------------
(* Small instances of OutboundMail.                                          *)
EXTENDS OutboundMail
===============================================================================
