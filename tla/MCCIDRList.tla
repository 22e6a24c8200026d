----------------------------- MODULE MCCIDRList -----------------------------
(* Instances of CIDRList for TLC. *)
EXTENDS CIDRList

\* Every kind of entry.
MCEntries == {<<e>> : e \in Entry}

\* A URL that is read once.
MCPlainEntries == {<<[kind |-> "url", cache |-> FALSE, refresh |-> FALSE]>>}
=============================================================================
