----------------------------- MODULE MCCommands ------------------------------
(* Instances of Commands for TLC.                                          *)
EXTENDS Commands

(* The second version of the package drops the features f and g.           *)
TwoVersions ==
    [v \in 0..1 |-> ("local" :> IF v = 0 THEN {"f", "g"} ELSE {"g"})
                    @@ ("sssd" :> IF v = 0 THEN {"f", "g"} ELSE {})
                    @@ ("broken" :> {})]

Configuration == <<"sssd", "f", "g">>
DefaultConfig == <<Comment, "sssd", "", "f">>

Line(command, words, root) == [name |-> command, words |-> words, root |-> root]
Root(command, words) == Line(command, words, TRUE)
User(command, words) == Line(command, words, FALSE)

(* Commands of every kind that write, with words in every order ...        *)
Changes ==
    {Root("select", <<"--backup", "g", "sssd", "g", "f", "g", "--force">>),
     Root("select", <<"@system-default", "g", "--trace">>),
     Root("select", <<"local", "--force", "--nobackup">>),
     Root("select", <<"broken", "-f">>),
     Root("apply-changes", <<"--upgrade", "--backup=before">>),
     Root("apply-changes", <<>>),
     Root("enable-feature", <<"g", "-b">>),
     Root("disable-feature", <<"f">>),
     Root("opt-out", <<>>)}

(* ... and that only read or are refused.                                  *)
Questions ==
    {User("check", <<>>), User("current", <<"--raw">>), User("is-feature-enabled", <<"f">>),
     User("requirements", <<"local", "f">>), User("requirements", <<"broken">>), User("requirements", <<"--unknown">>),
     User("test", <<"sssd", "-n">>), User("list-features", <<"@system-default">>),
     User("show", <<"@unknown">>), User("list", <<>>), User("version", <<"x">>),
     User("select", <<"sssd">>), User("select", <<"--help">>), User("frobnicate", <<>>)}

Session == Changes \cup Questions

(* Words in which the two readings could differ.                           *)
Words == {"sssd", "f", "--backup", "--backup=before", "--force", "--", "-", "--unknown", "--help"}

(* What an administrator types to set up a system and to ask about opt-out.*)
HelpLines == {Root("select", <<"sssd", "--force">>), Root("opt-out", <<"--help">>)}

(* Nothing that is typed here demands a backup in vain.                    *)
ASSUME WordsAreHeardAssumption == WordsAreHeard

(* The features of each select typed here are read in one way only.        *)
ASSUME WordsAreMeantAssumption == WordsAreMeant

=============================================================================
