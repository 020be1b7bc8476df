----------------------------- MODULE MCFwTrial -----------------------------
(* Instances of FwTrial for TLC.                                           *)
EXTENDS FwTrial

\* ufw keeps a file per family and writes them back in this order.
UFWFiles == << "user.rules", "user6.rules" >>

\* firewalld has one zone.
Zone == << "zone" >>
=============================================================================
