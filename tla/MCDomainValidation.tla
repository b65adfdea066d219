------------------------- MODULE MCDomainValidation -------------------------
(* Small instances of DomainValidation: host names in either case and with *)
(* or without the final dot, a token's record in either case and another.  *)
EXTENDS DomainValidation

MCSpelling == {"mail", "MAIL", "mail.", "MAIL.", "mail2", "v=t", "V=T", "v=u"}
MCToLower  == [s \in MCSpelling |-> CASE s = "MAIL"  -> "mail"
                                       [] s = "MAIL." -> "mail."
                                       [] s = "V=T"   -> "v=t"
                                       [] OTHER       -> s]
MCTrimDot  == [s \in MCSpelling |-> CASE s = "mail." -> "mail"
                                       [] s = "MAIL." -> "MAIL"
                                       [] OTHER       -> s]
MCServers  == {"mail", "mail2"}
MCRecord   == [d \in Domain |-> "v=t"]
=============================================================================
