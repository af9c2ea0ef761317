---------------------------- MODULE MCActivation -----------------------------
(* Instances of Activation for TLC.                                        *)
EXTENDS Activation

CONSTANTS local, sssd, custom, f

TwoProfiles   == {local, sssd}
ThreeProfiles == {local, sssd, custom}

(* The feature f is dropped from the profiles by their second version.     *)
OneFeature == [v \in Versions |-> IF v = 0 THEN {f} ELSE {}]

(* Templates that do not parse: none, that of nsswitch.conf in a custom    *)
(* profile, the PAM files in that profile.                                 *)
AllParse    == [p \in Profiles |-> {}]
BadNsswitch == [p \in Profiles |-> IF p = custom THEN {Nsswitch} ELSE {}]
BadPam      == [p \in Profiles |-> IF p = custom THEN Rows \ {Nsswitch} ELSE {}]

Select(profile, features, force) ==
    [op |-> "select", config |-> [profile |-> profile, features |-> features],
     force |-> force]
Apply(upgrade) == [op |-> "apply", upgrade |-> upgrade]
Feature(op)    == [op |-> op, feature |-> f]

(* What one administrator does: every kind of command.                     *)
EveryCommand ==
    {Select(local, {}, TRUE), Select(sssd, {f}, FALSE), Select(custom, {}, TRUE),
     Apply(TRUE), Apply(FALSE), Feature("enable"), Feature("disable")}

(* What meets at boot and in package scripts.                              *)
Racing == {Select(local, {}, TRUE), Select(sssd, {f}, TRUE), Apply(TRUE)}

SelectCustom == {Select(custom, {}, TRUE)}

=============================================================================
