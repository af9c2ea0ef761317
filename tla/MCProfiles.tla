------------------------------ MODULE MCProfiles ------------------------------
(* Two creators of one name, three files, and the requests that differ in  *)
(* what they look up and link.                                             *)
EXTENDS Profiles, TLC

CONSTANTS a, b, template

MCOrder == <<README, REQUIREMENTS, template>>

MCRequests ==
    [location : {"vendor", "custom"}, base : {"any"}, links : {{}, {REQUIREMENTS, template}}]
    \cup [location : {"vendor", "custom"}, base : {"none"}, links : {{}}]
    \cup [location : {"vendor"}, base : {"custom", "default"}, links : {Files}]

Symmetric == Permutations({a, b})

=============================================================================
