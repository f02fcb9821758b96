----------------------------- MODULE MC_Wrapper -----------------------------
(* Three country groups of one or two hostnames each, read from files of   *)
(* up to six lines over three codes; one initialization and one completion *)
(* step.                                                                   *)
EXTENDS Wrapper

MCNumCountries    == 3
MCMaxHosts        == 2
MCInitSteps       == 1
MCCompletionSteps == 1
MCCodes           == {"de", "fr", "us"}
MCMaxLines        == 6
====
