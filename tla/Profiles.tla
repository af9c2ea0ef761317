------------------------------- MODULE Profiles -------------------------------
(***************************************************************************)
(* The directories of one profile name, and authselect create-profile      *)
(* (authselect_profile_create, src/src/lib/authselect_profile.c:514), which *)
(* looks a base profile up, reads it, makes a directory and fills it with  *)
(* copies and symbolic links, or cleans up when anything fails.  Creators  *)
(* are processes; nothing keeps two from creating the same profile.        *)
(*                                                                         *)
(* A text is named after the location its profile had at the beginning, an *)
(* empty one is "nothing".                                                 *)
(***************************************************************************)
EXTENDS Naturals, Sequences

CONSTANTS
    Creators,              \* processes
    Order,                 \* the files of a profile, in the order of FILES_ALL
    README, REQUIREMENTS,  \* the first two of them
    Requests,              \* what creators can be asked for
    Existing,              \* the locations that can have a profile at first
    MaxFaults              \* bound on failed system calls and crashes

Locations == {"vendor", "default", "custom"}
Files     == {Order[i] : i \in DOMAIN Order}

(* The base is given as custom/NAME, as NAME, with --base-on-default, or   *)
(* not at all.                                                             *)
BaseIds == {"custom", "any", "default", "none"}

ASSUME RequestsAssumption ==
    Requests \subseteq [location : {"vendor", "custom"}, base : BaseIds, links : SUBSET Files]
ASSUME OrderAssumption    ==
    /\ Order \in Seq(Files) /\ README \in Files
    /\ \A i, j \in DOMAIN Order : Order[i] = Order[j] => i = j
ASSUME ExistingAssumption == Existing \subseteq Locations
ASSUME FaultsAssumption   == MaxFaults \in Nat

VARIABLES
    dirs,     \* the locations that have a directory of the name
    file,     \* the files in them
    request,  \* what each creator is asked for
    creator,  \* where each creator is, and its variables
    faults    \* how many system calls may still fail

vars == <<dirs, file, request, creator, faults>>

Texts   == Locations \cup {"nothing"}
Missing == [kind |-> "missing", from |-> "nothing"]
Link(l) == [kind |-> "link", from |-> l]
Text(t) == [kind |-> "file", from |-> t]

File    == {Missing} \cup {Link(l) : l \in Locations} \cup {Text(t) : t \in Texts}
NoFiles == [f \in Files |-> Missing]

Creator == [pc : {"check", "lookup", "read", "make", "mkdir", "file", "symlink",
                  "write", "unlink", "rmdir", "done", "killed"},
            k : 1..Len(Order),                           \* the file it is at
            filepaths : BOOLEAN,                         \* whether it has their names
            base : Locations \cup {"none"},              \* where the base was found
            text : [Files -> Texts],                     \* what was read from it
            opened : Locations \cup {"none", "gone"},    \* where the open file is
            ret : {"none", "EOK", "EEXIST", "ENOENT", "EINVAL", "error"}]

Begins == [pc |-> "check", k |-> 1, filepaths |-> FALSE, base |-> "none",
           text |-> [f \in Files |-> "nothing"], opened |-> "none", ret |-> "none"]

Init ==
    /\ dirs \in SUBSET Existing
    /\ file \in [Locations -> {NoFiles} \cup {[NoFiles EXCEPT ![README] = Text(l)] : l \in Existing}
                                        \cup {[f \in Files |-> Text(l)] : l \in Existing}]
    /\ \A l \in Locations : \A f \in Files :
          file[l][f] # Missing => l \in dirs /\ file[l][f] = Text(l)
    /\ request \in [Creators -> Requests]
    /\ creator = [p \in Creators |-> Begins]
    /\ faults = MaxFaults

-----------------------------------------------------------------------------
(* Profiles and their files.                                               *)

(* authselect_profile_locations: where the profile of an id is looked for. *)
Lookup(id) ==
    CASE id = "any"     -> <<"vendor", "default">>
      [] id = "default" -> <<"default">>
      [] id = "custom"  -> <<"custom">>
      [] OTHER          -> <<>>

(* The first of these locations that has a directory (among), or "none".   *)
Found(id, among) ==
    LET hits == {i \in DOMAIN Lookup(id) : Lookup(id)[i] \in among}
    IN  IF hits = {} THEN "none"
        ELSE Lookup(id)[CHOOSE i \in hits : \A j \in hits : i <= j]

(* A broken variant lists custom profiles without their prefix.            *)
BrokenListed == {"any" : l \in dirs}

(* authselect_profile_list: the ids of the directories.                    *)
Listed == {IF l = "custom" THEN "custom" ELSE "any" : l \in dirs}

(* The location of the file that a program gets when it opens f at l.      *)
Opens(l, f) ==
    IF file[l][f].kind # "link" THEN l
    ELSE LET next == file[l][f].from IN
         IF file[next][f].kind = "link" THEN file[next][f].from ELSE next

Exists(l, f) == file[Opens(l, f)][f] # Missing
Content(l, f) == file[Opens(l, f)][f].from

Put(l, f, what) == file' = [file EXCEPT ![l][f] = what]

-----------------------------------------------------------------------------
(* authselect_profile_create, system call by system call.                  *)

At(p, where) == creator[p].pc = where
location(p)  == request[p].location
filename(p)  == Order[creator[p].k]
IsLink(p)    == request[p].base # "none" /\ filename(p) \in request[p].links

Become(p, c) == creator' = [creator EXCEPT ![p] = c]

(* Broken variants.  A creator that is refused cleans up, too, ...         *)
BrokenFails(p, errno) ==
    [creator[p] EXCEPT !.ret = errno, !.k = 1, !.opened = "none", !.pc = "unlink"]

(* ... it looks for one file more than there are, ...                      *)
BrokenNextFile(p) ==
    [creator[p] EXCEPT !.k = @ + 1, !.opened = "none",
                       !.pc = IF creator[p].k < Len(Order) THEN "file" ELSE "done"]

Fails(p, errno) ==
    [creator[p] EXCEPT !.ret = errno, !.k = 1, !.opened = "none",
                       !.pc = IF creator[p].filepaths THEN "unlink" ELSE "rmdir"]

NextFile(p) ==
    IF creator[p].k < Len(Order)
    THEN [creator[p] EXCEPT !.k = @ + 1, !.pc = "file", !.opened = "none"]
    ELSE [creator[p] EXCEPT !.pc = "done", !.opened = "none", !.ret = "EOK"]

Undisturbed == UNCHANGED <<dirs, file>>

(* ... the clean-up follows links, ...                                     *)
BrokenUnlink(p) ==
    /\ At(p, "unlink")
    /\ Put(Opens(location(p), filename(p)), filename(p), Missing)
    /\ Become(p, IF creator[p].k < Len(Order) THEN [creator[p] EXCEPT !.k = @ + 1]
                 ELSE [creator[p] EXCEPT !.pc = "rmdir"])
    /\ UNCHANGED dirs

(* ... and a link leads to the first location of the id, not to the one    *)
(* the profile was read from.                                              *)
BrokenSymlink(p) ==
    /\ At(p, "symlink")
    /\ Put(location(p), filename(p), Link(Lookup(request[p].base)[1]))
    /\ Become(p, NextFile(p))
    /\ UNCHANGED dirs

Check(p) ==
    /\ At(p, "check")
    /\ Become(p, IF location(p) \in dirs THEN Fails(p, "EEXIST")
                 ELSE [creator[p] EXCEPT
                         !.filepaths = TRUE,
                         !.pc = IF request[p].base = "none" THEN "make" ELSE "lookup"])
    /\ Undisturbed

LookUp(p) ==
    /\ At(p, "lookup")
    /\ LET l == Found(request[p].base, dirs) IN
       Become(p, IF l = "none" THEN Fails(p, "ENOENT")
                 ELSE [creator[p] EXCEPT !.base = l, !.pc = "read"])
    /\ Undisturbed

HasRead(p, t) ==
    LET c == [creator[p] EXCEPT !.text[filename(p)] = t] IN
    IF c.k < Len(Order) THEN [c EXCEPT !.k = @ + 1]
                        ELSE [c EXCEPT !.k = 1, !.pc = "make"]

(* A README that is missing or has no first line is an error.              *)
Read(p) ==
    /\ At(p, "read")
    /\ LET t == Content(creator[p].base, filename(p)) IN
       Become(p, IF filename(p) # README \/ t # "nothing" THEN HasRead(p, t)
                 ELSE IF Exists(creator[p].base, README) THEN Fails(p, "EINVAL")
                 ELSE Fails(p, "ENOENT"))
    /\ Undisturbed

(* file_make_path takes the directory if there is one by now.              *)
Make(p) ==
    /\ At(p, "make")
    /\ Become(p, [creator[p] EXCEPT !.pc = IF location(p) \in dirs THEN "file" ELSE "mkdir"])
    /\ Undisturbed

Mkdir(p) ==
    /\ At(p, "mkdir")
    /\ Become(p, IF location(p) \in dirs THEN Fails(p, "EEXIST")
                 ELSE [creator[p] EXCEPT !.pc = "file"])
    /\ dirs' = dirs \cup {location(p)}
    /\ UNCHANGED file

(* What the base profile does not have is no link.                         *)
LookForTarget(p) ==
    /\ At(p, "file") /\ IsLink(p)
    /\ Become(p, IF Exists(creator[p].base, filename(p))
                 THEN [creator[p] EXCEPT !.pc = "symlink"]
                 ELSE NextFile(p))
    /\ Undisturbed

Symlink(p) ==
    /\ At(p, "symlink")
    /\ \/ /\ location(p) \in dirs /\ file[location(p)][filename(p)] = Missing
          /\ Put(location(p), filename(p), Link(creator[p].base))
          /\ Become(p, NextFile(p))
       \/ /\ location(p) \notin dirs \/ file[location(p)][filename(p)] # Missing
          /\ Become(p, Fails(p, IF location(p) \in dirs THEN "EEXIST" ELSE "ENOENT"))
          /\ UNCHANGED file
    /\ UNCHANGED dirs

(* fopen follows a link that another creator has made.                     *)
Open(p) ==
    /\ At(p, "file") /\ ~IsLink(p)
    /\ LET l == Opens(location(p), filename(p)) IN
       \/ /\ {location(p), l} \subseteq dirs
          /\ Put(l, filename(p), Text("nothing"))
          /\ Become(p, [creator[p] EXCEPT !.opened = l, !.pc = "write"])
       \/ /\ ~({location(p), l} \subseteq dirs)
          /\ Become(p, Fails(p, "ENOENT"))
          /\ UNCHANGED file
    /\ UNCHANGED dirs

(* An empty text changes nothing; what is written to a file that has been  *)
(* removed meanwhile is lost.  Of two writers the later one wins.          *)
Write(p) ==
    /\ At(p, "write")
    /\ IF creator[p].opened = "gone" \/ creator[p].text[filename(p)] = "nothing"
       THEN UNCHANGED file
       ELSE Put(creator[p].opened, filename(p), Text(creator[p].text[filename(p)]))
    /\ Become(p, NextFile(p))
    /\ UNCHANGED dirs

(* Whoever has the removed file open goes on writing to it.                *)
Removed(l, f) ==
    [q \in Creators |->
        IF creator[q].opened = l /\ filename(q) = f
        THEN [creator[q] EXCEPT !.opened = "gone"] ELSE creator[q]]

(* The clean-up; also of the files of another creator.                     *)
Unlink(p) ==
    /\ At(p, "unlink")
    /\ Put(location(p), filename(p), Missing)
    /\ creator' = [Removed(location(p), filename(p)) EXCEPT ![p] =
                      IF creator[p].k < Len(Order) THEN [creator[p] EXCEPT !.k = @ + 1]
                      ELSE [creator[p] EXCEPT !.pc = "rmdir"]]
    /\ UNCHANGED dirs

(* rmdir fails when there are files; otherwise it also removes a directory *)
(* that was there before.                                                  *)
Rmdir(p) ==
    /\ At(p, "rmdir")
    /\ dirs' = IF file[location(p)] = NoFiles THEN dirs \ {location(p)} ELSE dirs
    /\ Become(p, [creator[p] EXCEPT !.pc = "done"])
    /\ UNCHANGED file

(* A system call fails.  That REQUIREMENTS cannot be read does not matter; *)
(* a file that could not be written is removed at once.                    *)
CallFails(p) ==
    /\ faults > 0 /\ faults' = faults - 1
    /\ UNCHANGED <<dirs, request>>
    /\ \/ /\ \/ creator[p].pc \in {"lookup", "make", "mkdir", "file", "symlink"}
             \/ At(p, "read") /\ filename(p) # REQUIREMENTS
          /\ Become(p, Fails(p, "error"))
          /\ UNCHANGED file
       \/ /\ At(p, "read") /\ filename(p) = REQUIREMENTS
          /\ Become(p, HasRead(p, "nothing"))
          /\ UNCHANGED file
       \/ /\ At(p, "write")
          /\ Put(location(p), filename(p), Missing)
          /\ creator' = [Removed(location(p), filename(p)) EXCEPT ![p] = Fails(p, "error")]

Crash(p) ==
    /\ faults > 0 /\ faults' = faults - 1
    /\ creator[p].pc \notin {"check", "done", "killed"}
    /\ Become(p, [creator[p] EXCEPT !.pc = "killed", !.opened = "none"])
    /\ UNCHANGED <<dirs, file, request>>

SystemCall(p) ==
    /\ \/ Check(p) \/ LookUp(p) \/ Read(p) \/ Make(p) \/ Mkdir(p)
       \/ LookForTarget(p) \/ Symlink(p) \/ Open(p) \/ Write(p)
       \/ Unlink(p) \/ Rmdir(p)
    /\ UNCHANGED <<request, faults>>

Next == \E p \in Creators : SystemCall(p) \/ CallFails(p) \/ Crash(p)

Spec == Init /\ [][Next]_vars

-----------------------------------------------------------------------------

(* The types of the variables.                                             *)
TypeOK ==
    /\ dirs \subseteq Locations
    /\ file \in [Locations -> [Files -> File]]
    /\ request \in [Creators -> Requests]
    /\ creator \in [Creators -> Creator]
    /\ faults \in 0..MaxFaults

(* A creator that was told that the profile exists has no part in it.      *)
Refused(p)    == creator[p].ret = "EEXIST" /\ ~creator[p].filepaths
TakesPart(p)  == ~At(p, "check") /\ ~Refused(p)
RivalAt(p, l) == \E q \in Creators \ {p} : TakesPart(q) /\ location(q) = l

(* No two creators have passed the check for one profile.  When two have,  *)
(* each of them may clean up what the other makes, and open a link that    *)
(* the other has made to a third profile.                                  *)
NoContest ==
    \A p, q \in Creators :
        p # q /\ TakesPart(p) /\ TakesPart(q) => location(p) # location(q)

Bases(p) == {Lookup(request[p].base)[i] : i \in DOMAIN Lookup(request[p].base)}

(* What a creator makes of file f: a link when one was asked for and the   *)
(* base has the file, otherwise a copy, empty if there is none to copy.    *)
Copied(p, f) ==
    LET base == creator[p].base IN
    CASE base = "none" -> Text("nothing")
      [] base # "none" /\ f \in request[p].links ->
            IF Exists(base, f) THEN Link(base) ELSE Missing
      [] OTHER -> Text(Content(base, f))

(* A profile whose creation succeeded is complete: linked to or equal to   *)
(* the base that the id stands for, file by file, if nobody creates its    *)
(* base, no two creators make one profile and no call failed (a            *)
(* REQUIREMENTS that cannot be read is taken for none).                    *)
SuccessIsACopy ==
    \A p \in Creators :
        /\ creator[p].ret = "EOK" /\ faults = MaxFaults
        /\ NoContest /\ \A l \in Bases(p) : ~RivalAt(p, l)
        => /\ location(p) \in dirs
           /\ file[location(p)] = [f \in Files |-> Copied(p, f)]
           /\ request[p].base # "none" =>
                 creator[p].base = Found(request[p].base, dirs \ {location(p)})

(* A creation that fails leaves nothing behind, whichever call failed, if  *)
(* no two creators make one profile.  (That nobody else creates this one   *)
(* is not enough: of two others, one may make a link to it, and the other  *)
(* write through the link when this one has already cleaned up.)           *)
FailureLeavesNothing ==
    NoContest => \A p \in Creators :
        At(p, "done") /\ creator[p].ret # "EOK" /\ ~Refused(p)
        => location(p) \notin dirs /\ file[location(p)] = NoFiles

(* Who is creating the profile at l, or has created it.                    *)
Working(l) == {p \in Creators : TakesPart(p) /\ location(p) = l}

(* A profile that nobody is creating stays as it is: no creator of another *)
(* one writes to it through a link, a refused creator removes none of its  *)
(* files, and its failure takes no more than an empty directory.  This     *)
(* holds unless two creators have passed the check for one profile.        *)
SettledStay ==
    [][\A l \in dirs :
          /\ file[l] # NoFiles
          /\ \A p \in Working(l) : creator[p].pc \in {"done", "killed"}
          /\ NoContest
          => l \in dirs' /\ file'[l] = file[l]]_vars

(* Every profile that list shows can be looked up under the id shown, and  *)
(* every custom or vendor profile that is there is what its id finds, a    *)
(* default one when no vendor profile hides it.                            *)
ListedAreFound ==
    /\ \A id \in Listed : Found(id, dirs) # "none"
    /\ \A l \in dirs :
          \/ l = "default" /\ "vendor" \in dirs
          \/ \E id \in Listed : Found(id, dirs) = l

=============================================================================
