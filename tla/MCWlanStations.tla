--------------------------- MODULE MCWlanStations ---------------------------
(***************************************************************************)
(* Small instances of WlanStations.                                        *)
(***************************************************************************)
EXTENDS WlanStations

CONSTANTS a, b

TwoStas == {a, b}

\* Contexts overlap; they do not, with each kind of authentication; and a table
\* that keeps expired stations and denies legacy ones.
Overlapping == [overlap |-> TRUE, del_expire |-> TRUE, deny_legacy |-> FALSE,
                auths |-> {<<"open", 1>>}]
OneByOne == [Overlapping EXCEPT !.overlap = FALSE,
                                !.auths = {<<"open", 1>>, <<"shared", 1>>, <<"shared", 3>>}]
Sae == [OneByOne EXCEPT !.auths = {<<"sae", 1>>, <<"sae", 2>>}]
Keeping == [Overlapping EXCEPT !.overlap = FALSE, !.del_expire = FALSE, !.deny_legacy = TRUE]
Configurations == {Overlapping, OneByOne, Sae, Keeping}
=============================================================================
