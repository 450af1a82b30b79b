--------------------------- MODULE MCFrontendQuotes ---------------------------
(* One share under its two spellings; the feed uses the short one, so that a    *)
(* tick is written under both.                                                  *)
EXTENDS FrontendQuotes

Infy == "INFY.NS"
Short == "INFY"
BothSpellings == {Infy, Short}
NormNs == [k \in BothSpellings |-> Infy]
AllAliases == [k \in BothSpellings |-> BothSpellings]
BothKeys == [s \in {Short} |-> <<Infy, Short>>]
================================================================================
