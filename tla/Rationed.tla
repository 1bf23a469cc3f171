------------------------------- MODULE Rationed -------------------------------
(***************************************************************************)
(* What the site rations by a window of time: the letters of the           *)
(* newsletter to an address, which a row remembers, and the requests of a  *)
(* client and of everybody, which the process does.  They share nothing.   *)
(***************************************************************************)
EXTENDS Newsletter, RateLimit

RationedSpec == NewsletterInit /\ RateInit /\ [][NewsletterNext]_newsletterVars /\ [][RateNext]_rateVars

\* What is rationed by a window stays so under calls that arrive together: letters to an address, and requests of a client and of everybody.
WindowsHold == NewsletterTypeOK /\ OneLetterAnHour /\ RateTypeOK /\ LimitsHold
=============================================================================
