--------------------------- MODULE ProfilesProofs ----------------------------
(***************************************************************************)
(* Proofs about Profiles, for any number of creators, files, requests and  *)
(* failures.                                                               *)
(***************************************************************************)
EXTENDS Profiles, TLAPS

USE DEF At, location, filename, Become, Put

Indices == 1..Len(Order)

(* What "TakesPart" and the guards of the actions tell of a creator.       *)
Creating == {"lookup", "read", "make", "mkdir", "file", "symlink", "write"}

Shape(p) ==
    LET c == creator[p] IN
    /\ c.pc = "check" => ~c.filepaths
    /\ c.pc \in Creating \cup {"unlink"} => c.filepaths
    /\ ~c.filepaths /\ c.pc # "check" =>
          c.ret = "EEXIST" /\ c.pc \in {"rmdir", "done", "killed"}
    /\ c.pc \in Creating \cup {"check"} => c.ret = "none"
    /\ c.pc \in {"unlink", "rmdir"} => c.ret \notin {"none", "EOK"}
    /\ c.ret = "EOK" => c.pc = "done"
    /\ c.pc \in {"check", "lookup", "make", "mkdir"} => c.k = 1
    /\ c.pc \in {"check", "lookup"} \/ request[p].base = "none" => c.base = "none"
    /\ c.pc \in {"lookup", "read"} => request[p].base # "none"
    /\ c.pc \in Creating \ {"lookup"} \/ c.ret = "EOK" =>
          (request[p].base # "none" => c.base \in Locations)
    /\ c.pc = "symlink" => IsLink(p)
    /\ c.pc = "write" => ~IsLink(p) /\ c.opened \in Locations \cup {"gone"}
    /\ c.pc # "write" => c.opened = "none"

TInv == TypeOK /\ \A p \in Creators : Shape(p)

(* What holds of the disk however many creators meet: files have a         *)
(* directory, whoever writes to an open file has it, and a link was made   *)
(* by somebody who was asked for it.                                       *)
Places ==
    /\ \A l \in Locations \ dirs : file[l] = NoFiles
    /\ \A p \in Creators :
          creator[p].opened \in Locations =>
              file[creator[p].opened][filename(p)].kind = "file"
    /\ \A l \in Locations, f \in Files :
          file[l][f].kind = "link" =>
              \E p \in Creators : /\ creator[p].filepaths /\ location(p) = l
                                  /\ request[p].base # "none" /\ f \in request[p].links

(* What a creator without a contest can rely on: the directory is not made *)
(* before it makes it, what it opens is a file of its own, and what it has *)
(* cleaned up stays away.                                                  *)
Alone(p) ==
    LET c == creator[p]
        l == location(p) IN
    /\ c.pc = "write" => c.opened = l
    /\ c.filepaths =>
          /\ c.pc \in {"lookup", "read", "make", "mkdir"} => l \notin dirs
          /\ c.pc = "unlink" => \A i \in Indices : i < c.k => file[l][Order[i]] = Missing
          /\ c.pc = "rmdir" => file[l] = NoFiles
          /\ c.pc = "done" /\ c.ret # "EOK" => l \notin dirs

IClean == Places /\ (NoContest => \A p \in Creators : Alone(p))

(* How far the copy of a base that nobody creates has come, if no call has *)
(* failed.                                                                 *)
Lucky(p) ==
    /\ NoContest /\ faults = MaxFaults
    /\ creator[p].filepaths /\ \A l \in Bases(p) : ~RivalAt(p, l)

Based(p) ==
    LET c == creator[p] IN
    /\ c.base # location(p) /\ c.base \in Bases(p)
    /\ file[c.base] # NoFiles =>
          c.base \in dirs /\ c.base = Found(request[p].base, dirs \ {location(p)})

Copying(p) ==
    LET c == creator[p]
        l == location(p) IN
    /\ c.base # "none" => Based(p)
    /\ c.pc = "read" =>
          \A i \in Indices : i < c.k =>
              /\ c.text[Order[i]] = Content(c.base, Order[i])
              /\ Order[i] = README => Content(c.base, README) # "nothing"
    /\ c.pc \in {"make", "mkdir", "file", "symlink", "write"} /\ c.base # "none" =>
          \A f \in Files : c.text[f] = Content(c.base, f)
    /\ /\ c.pc \in {"make", "mkdir", "file", "symlink", "write", "done"}
       /\ c.base # "none" /\ c.ret \in {"none", "EOK"}
       => Content(c.base, README) # "nothing"
    /\ c.pc \in {"file", "symlink", "write"} =>
          /\ \A i \in Indices : i < c.k => file[l][Order[i]] = Copied(p, Order[i])
          /\ \A i \in Indices : i > c.k => file[l][Order[i]] = Missing
          /\ c.pc # "write" => file[l][filename(p)] = Missing
          /\ c.pc = "symlink" => Exists(c.base, filename(p))
          /\ c.pc = "write" => file[l][filename(p)] = Text("nothing")
    /\ c.ret = "EOK" => \A f \in Files : file[l][f] = Copied(p, f)

NothingRead(p) == creator[p].base = "none" => \A f \in Files : creator[p].text[f] = "nothing"

ICopy == \A p \in Creators : NothingRead(p) /\ (Lucky(p) => Copying(p))

-----------------------------------------------------------------------------
(* The operators the model is built from.                                  *)

LEMMA OrderFacts ==
    /\ Len(Order) \in Nat /\ DOMAIN Order = Indices
    /\ \A i \in Indices : Order[i] \in Files
    /\ \A f \in Files : \E i \in Indices : Order[i] = f
    /\ \A i, j \in Indices : Order[i] = Order[j] => i = j
<1>1. Len(Order) \in Nat /\ DOMAIN Order = Indices
  BY OrderAssumption DEF Indices
<1>. QED
  BY <1>1, OrderAssumption DEF Files

LEMMA RequestFacts ==
    ASSUME TypeOK, NEW p \in Creators
    PROVE  /\ location(p) \in {"vendor", "custom"} /\ location(p) \in Locations
           /\ request[p].base \in BaseIds /\ request[p].links \subseteq Files
BY RequestsAssumption DEF TypeOK, Locations

LEMMA FileFacts ==
    ASSUME NEW x \in File
    PROVE  /\ x.kind \in {"missing", "link", "file"} /\ x.from \in Texts
           /\ x = Missing <=> x.kind = "missing"
           /\ x.kind = "link" => x.from \in Locations
           /\ x.kind = "file" => x = Text(x.from)
BY DEF File, Missing, Link, Text, Texts

LEMMA FileForms ==
    /\ Missing \in File /\ \A l \in Locations : Link(l) \in File
    /\ \A t \in Texts : /\ Text(t) \in File /\ Text(t).kind = "file" /\ Text(t).from = t
                        /\ Text(t) # Missing
    /\ Missing.kind = "missing" /\ \A l \in Locations : Link(l).kind = "link"
BY DEF File, Missing, Link, Text, Texts

LEMMA PutFacts ==
    ASSUME file \in [Locations -> [Files -> File]],
           NEW l \in Locations, NEW f \in Files, NEW what \in File, Put(l, f, what)
    PROVE  /\ file' \in [Locations -> [Files -> File]]
           /\ file'[l][f] = what
           /\ \A k \in Locations : k # l => file'[k] = file[k]
           /\ \A g \in Files : g # f => file'[l][g] = file[l][g]
OBVIOUS

(* Where a profile is looked for, and where it is found.                   *)
LEMMA FoundFacts ==
    ASSUME NEW id \in BaseIds, NEW among
    PROVE  Found(id, among) =
               CASE id = "any" -> IF "vendor" \in among THEN "vendor"
                                  ELSE IF "default" \in among THEN "default" ELSE "none"
                 [] id = "default" -> IF "default" \in among THEN "default" ELSE "none"
                 [] id = "custom" -> IF "custom" \in among THEN "custom" ELSE "none"
                 [] OTHER -> "none"
<1>. DEFINE hits == {i \in DOMAIN Lookup(id) : Lookup(id)[i] \in among}
<1>. DEFINE first == CHOOSE i \in hits : \A j \in hits : i <= j
<1>0. Found(id, among) = IF hits = {} THEN "none" ELSE Lookup(id)[first]
  BY Zenon DEF Found
<1>1. CASE id = "any"
  <2>1. Lookup(id) = <<"vendor", "default">>
    BY <1>1 DEF Lookup
  <2>2. hits = {i \in {1, 2} : Lookup(id)[i] \in among}
    BY <2>1
  <2>3. "vendor" \in among => first = 1
    BY <2>1, <2>2
  <2>4. "vendor" \notin among /\ "default" \in among => first = 2
    BY <2>1, <2>2
  <2>. QED
    BY <1>0, <1>1, <2>1, <2>2, <2>3, <2>4
<1>2. CASE id \in {"default", "custom"}
  <2>1. Lookup(id) = <<id>>
    BY <1>2 DEF Lookup
  <2>2. hits = {i \in {1} : Lookup(id)[i] \in among}
    BY <2>1
  <2>3. id \in among => first = 1
    BY <2>1, <2>2
  <2>. QED
    BY <1>0, <1>2, <2>1, <2>2, <2>3
<1>3. CASE id = "none"
  <2>1. Lookup(id) = <<>>
    BY <1>3 DEF Lookup
  <2>. QED
    BY <1>0, <1>3, <2>1
<1>. QED
  BY <1>1, <1>2, <1>3 DEF BaseIds

LEMMA BasesFacts ==
    ASSUME NEW p \in Creators, request[p].base \in BaseIds
    PROVE  Bases(p) = CASE request[p].base = "any" -> {"vendor", "default"}
                        [] request[p].base = "default" -> {"default"}
                        [] request[p].base = "custom" -> {"custom"}
                        [] OTHER -> {}
<1>1. CASE request[p].base = "any"
  <2>1. Lookup(request[p].base) = <<"vendor", "default">>
    BY <1>1 DEF Lookup
  <2>2. Bases(p) = {Lookup(request[p].base)[i] : i \in {1, 2}}
    BY <2>1 DEF Bases
  <2>. QED
    BY <1>1, <2>1, <2>2
<1>2. CASE request[p].base \in {"default", "custom"}
  <2>1. Lookup(request[p].base) = <<request[p].base>>
    BY <1>2 DEF Lookup
  <2>2. Bases(p) = {Lookup(request[p].base)[i] : i \in {1}}
    BY <2>1 DEF Bases
  <2>. QED
    BY <1>2, <2>1, <2>2
<1>3. CASE request[p].base = "none"
  BY <1>3 DEF Bases, Lookup
<1>. QED
  BY <1>1, <1>2, <1>3 DEF BaseIds

(* Opening follows at most two links, and gives a text.                    *)
LEMMA OpensFacts ==
    ASSUME file \in [Locations -> [Files -> File]], NEW l \in Locations, NEW f \in Files
    PROVE  /\ Opens(l, f) \in Locations /\ Content(l, f) \in Texts
           /\ file[l][f].kind # "link" =>
                 Opens(l, f) = l /\ (Exists(l, f) <=> file[l][f] # Missing)
                 /\ Content(l, f) = file[l][f].from
<1>1. Opens(l, f) \in Locations
  BY FileFacts DEF Opens
<1>. QED
  BY <1>1, FileFacts DEF Opens, Exists, Content

(* A creator, field by field; what one that fails or goes on to the next   *)
(* file is.                                                                *)
LEMMA CreatorFields ==
    ASSUME NEW c \in Creator
    PROVE  /\ c = [pc |-> c.pc, k |-> c.k, filepaths |-> c.filepaths, base |-> c.base,
                   text |-> c.text, opened |-> c.opened, ret |-> c.ret]
           /\ c.k \in Indices /\ c.filepaths \in BOOLEAN
           /\ c.base \in Locations \cup {"none"} /\ c.text \in [Files -> Texts]
           /\ c.opened \in Locations \cup {"none", "gone"}
BY DEF Creator, Indices

LEMMA FailsIs ==
    ASSUME creator \in [Creators -> Creator], NEW p \in Creators,
           NEW errno \in {"EEXIST", "ENOENT", "EINVAL", "error"}
    PROVE  /\ Fails(p, errno) \in Creator
           /\ Fails(p, errno).pc = IF creator[p].filepaths THEN "unlink" ELSE "rmdir"
           /\ Fails(p, errno).k = 1 /\ Fails(p, errno).opened = "none"
           /\ Fails(p, errno).ret = errno
           /\ Fails(p, errno).filepaths = creator[p].filepaths
           /\ Fails(p, errno).base = creator[p].base
           /\ Fails(p, errno).text = creator[p].text
<1>1. creator[p] \in Creator
  OBVIOUS
<1>2. 1 \in 1..Len(Order)
  <2>1. \A n \in Nat : \A i \in 1..n : 1 \in 1..n
    OBVIOUS
  <2>. QED
    BY <1>1, <2>1, OrderFacts, CreatorFields DEF Indices
<1>. QED
  BY <1>1, <1>2 DEF Fails, Creator

LEMMA NextFileIs ==
    ASSUME creator \in [Creators -> Creator], NEW p \in Creators
    PROVE  /\ NextFile(p) \in Creator
           /\ NextFile(p).opened = "none"
           /\ NextFile(p).filepaths = creator[p].filepaths
           /\ NextFile(p).base = creator[p].base
           /\ NextFile(p).text = creator[p].text
           /\ \/ /\ creator[p].k < Len(Order) /\ NextFile(p).k = creator[p].k + 1
                 /\ NextFile(p).pc = "file" /\ NextFile(p).ret = creator[p].ret
              \/ /\ creator[p].k = Len(Order) /\ NextFile(p).k = creator[p].k
                 /\ NextFile(p).pc = "done" /\ NextFile(p).ret = "EOK"
<1>1. creator[p] \in Creator /\ Len(Order) \in Nat
  BY OrderFacts
<1>2. CASE creator[p].k < Len(Order)
  <2>. DEFINE c == creator[p]
  <2>1. c.k + 1 \in 1..Len(Order)
    BY <1>1, <1>2, CreatorFields DEF Indices
  <2>. QED
    BY <1>1, <1>2, <2>1 DEF NextFile, Creator
<1>3. CASE ~(creator[p].k < Len(Order))
  <2>. DEFINE c == creator[p]
  <2>1. c.k = Len(Order)
    BY <1>1, <1>3, CreatorFields DEF Indices
  <2>. QED
    BY <1>1, <1>3, <2>1 DEF NextFile, Creator
<1>. QED
  BY <1>2, <1>3

LEMMA HasReadIs ==
    ASSUME creator \in [Creators -> Creator], NEW p \in Creators, NEW t \in Texts
    PROVE  /\ HasRead(p, t) \in Creator
           /\ HasRead(p, t).opened = creator[p].opened
           /\ HasRead(p, t).ret = creator[p].ret
           /\ HasRead(p, t).filepaths = creator[p].filepaths
           /\ HasRead(p, t).base = creator[p].base
           /\ HasRead(p, t).text = [creator[p].text EXCEPT ![filename(p)] = t]
           /\ \/ /\ creator[p].k < Len(Order) /\ HasRead(p, t).k = creator[p].k + 1
                 /\ HasRead(p, t).pc = creator[p].pc
              \/ /\ creator[p].k = Len(Order) /\ HasRead(p, t).k = 1
                 /\ HasRead(p, t).pc = "make"
<1>1. creator[p] \in Creator /\ Len(Order) \in Nat
  BY OrderFacts
<1>. DEFINE c == creator[p]
<1>2. [c.text EXCEPT ![filename(p)] = t] \in [Files -> Texts]
  BY <1>1, CreatorFields
<1>4. CASE c.k < Len(Order)
  <2>1. c.k + 1 \in 1..Len(Order)
    BY <1>1, <1>4, CreatorFields DEF Indices
  <2>. QED
    BY <1>1, <1>2, <1>4, <2>1 DEF HasRead, Creator
<1>5. CASE ~(c.k < Len(Order))
  <2>1. c.k = Len(Order) /\ 1 \in 1..Len(Order)
    BY <1>1, <1>5, CreatorFields DEF Indices
  <2>. QED
    BY <1>1, <1>2, <1>5, <2>1 DEF HasRead, Creator
<1>. QED
  BY <1>4, <1>5

-----------------------------------------------------------------------------
(* The types.                                                              *)

LEMMA TypeInit == Init => TInv
<1>. SUFFICES ASSUME Init PROVE TInv
  OBVIOUS
<1>1. 1 \in 1..Len(Order)
  <2>1. \A n \in Nat : \A i \in 1..n : 1 \in 1..n
    OBVIOUS
  <2>. QED
    BY <2>1, OrderFacts, OrderAssumption DEF Indices
<1>2. Begins \in Creator
  BY <1>1 DEF Begins, Creator, Texts
<1>3. \A l \in Existing : Text(l) \in File
  BY FileForms, ExistingAssumption DEF Texts
<1>4. file \in [Locations -> [Files -> File]]
  BY <1>3, FileForms, OrderAssumption DEF Init, NoFiles
<1>5. TypeOK
  BY <1>2, <1>4, FaultsAssumption, ExistingAssumption DEF Init, TypeOK
<1>6. ASSUME NEW p \in Creators PROVE Shape(p)
  <2>1. creator[p] = Begins
    BY DEF Init
  <2>. QED
    BY <2>1 DEF Shape, Begins, Creating
<1>. QED
  BY <1>5, <1>6 DEF TInv

(* The others stay what they are, or have a file open that was removed.    *)
OthersStay(p) ==
    \A q \in Creators \ {p} :
        \/ creator'[q] = creator[q]
        \/ /\ creator[q].opened = location(p) /\ creator'[q].opened = "gone"
           /\ creator'[q] = [creator[q] EXCEPT !.opened = "gone"]

LEMMA OneCreator ==
    ASSUME TypeOK, NEW p \in Creators, NEW c \in Creator, Become(p, c)
    PROVE  /\ creator' \in [Creators -> Creator] /\ creator'[p] = c
           /\ \A q \in Creators \ {p} : creator'[q] = creator[q]
BY DEF TypeOK

LEMMA RemovedFacts ==
    ASSUME TypeOK, NEW p \in Creators, NEW c \in Creator, NEW f,
           creator' = [Removed(location(p), f) EXCEPT ![p] = c]
    PROVE  creator' \in [Creators -> Creator] /\ creator'[p] = c /\ OthersStay(p)
<1>1. ASSUME NEW q \in Creators
      PROVE  /\ [creator[q] EXCEPT !.opened = "gone"] \in Creator
             /\ [creator[q] EXCEPT !.opened = "gone"].opened = "gone"
  <2>1. creator[q] \in Creator
    BY DEF TypeOK
  <2>. QED
    BY <2>1 DEF Creator
<1>2. \A q \in Creators : creator[q] \in Creator
  BY DEF TypeOK
<1>3. Removed(location(p), f) \in [Creators -> Creator]
  BY <1>1, <1>2 DEF Removed
<1>. QED
  BY <1>1, <1>3 DEF Removed, OthersStay

LEMMA TypeFrame ==
    ASSUME TInv, NEW p \in Creators, request' = request, OthersStay(p),
           dirs' \subseteq Locations, file' \in [Locations -> [Files -> File]],
           faults' \in 0..MaxFaults, creator' \in [Creators -> Creator], Shape(p)'
    PROVE  TInv'
<1>1. TypeOK'
  BY DEF TInv, TypeOK
<1>2. ASSUME NEW q \in Creators \ {p} PROVE Shape(q)'
  <2>1. Shape(q) /\ creator[q] \in Creator
    BY DEF TInv, TypeOK
  <2>2. CASE creator'[q] = creator[q]
    BY <2>1, <2>2 DEF Shape, IsLink
  <2>3. CASE creator'[q] = [creator[q] EXCEPT !.opened = "gone"]
             /\ creator[q].opened = location(p)
    <3>1. /\ creator'[q].pc = creator[q].pc /\ creator'[q].k = creator[q].k
          /\ creator'[q].filepaths = creator[q].filepaths
          /\ creator'[q].base = creator[q].base /\ creator'[q].ret = creator[q].ret
          /\ creator'[q].opened = "gone"
      BY <2>1, <2>3 DEF Creator
    <3>2. creator[q].pc = "write"
      BY <2>1, <2>3, RequestFacts DEF Shape, Locations, TInv
    <3>. QED
      BY <2>1, <3>1, <3>2 DEF Shape, IsLink
  <2>. QED
    BY <2>2, <2>3 DEF OthersStay
<1>. QED
  BY <1>1, <1>2 DEF TInv

(* What a step makes of its creator and of the disk: the file it is at at  *)
(* one location changes, or nothing.                                       *)
Effect(p) ==
    /\ request' = request
    /\ creator' \in [Creators -> Creator] /\ OthersStay(p)
    /\ file' \in [Locations -> [Files -> File]]
    /\ dirs' \subseteq Locations

LEMMA FailsShape ==
    ASSUME TInv, NEW p \in Creators, NEW errno \in {"EEXIST", "ENOENT", "EINVAL", "error"},
           request' = request, creator'[p] = Fails(p, errno),
           creator[p].filepaths \/ errno = "EEXIST",
           creator[p].pc \in Creating \cup {"check"}
    PROVE  Shape(p)'
<1>1. Shape(p) /\ creator \in [Creators -> Creator]
  BY DEF TInv, TypeOK
<1>. QED
  BY <1>1, FailsIs DEF Shape, Creating

LEMMA NextFileShape ==
    ASSUME TInv, NEW p \in Creators, request' = request, creator'[p] = NextFile(p),
           creator[p].pc \in {"file", "symlink", "write"}
    PROVE  Shape(p)'
<1>1. Shape(p) /\ creator \in [Creators -> Creator]
  BY DEF TInv, TypeOK
<1>. QED
  BY <1>1, NextFileIs DEF Shape, Creating

LEMMA HasReadShape ==
    ASSUME TInv, NEW p \in Creators, NEW t \in Texts, request' = request,
           creator'[p] = HasRead(p, t), creator[p].pc = "read"
    PROVE  Shape(p)'
<1>1. Shape(p) /\ creator \in [Creators -> Creator]
  BY DEF TInv, TypeOK
<1>. DEFINE c == HasRead(p, t)
<1>2. /\ c.opened = creator[p].opened /\ c.ret = creator[p].ret
      /\ c.filepaths = creator[p].filepaths /\ c.base = creator[p].base
  BY <1>1, HasReadIs
<1>3. c.pc = "read" \/ (c.pc = "make" /\ c.k = 1)
  BY <1>1, HasReadIs
<1>. QED
  BY <1>1, <1>2, <1>3 DEF Shape, Creating

LEMMA CheckEffect ==
    ASSUME TInv, NEW p \in Creators, Check(p), request' = request
    PROVE  /\ Effect(p) /\ Shape(p)' /\ dirs' = dirs /\ file' = file
           /\ \A q \in Creators \ {p} : creator'[q] = creator[q]
           /\ \/ location(p) \in dirs /\ creator'[p] = Fails(p, "EEXIST")
              \/ /\ location(p) \notin dirs /\ creator'[p].filepaths
                 /\ creator'[p].pc \in {"make", "lookup"}
                 /\ creator'[p].base = creator[p].base /\ creator'[p].text = creator[p].text
                 /\ creator'[p].k = creator[p].k /\ creator'[p].ret = creator[p].ret
<1>a. Shape(p) /\ TypeOK /\ creator[p] \in Creator /\ creator[p].pc = "check"
  BY DEF TInv, TypeOK, Check
<1>1. CASE location(p) \in dirs
  <2>1. Become(p, Fails(p, "EEXIST")) /\ dirs' = dirs /\ file' = file
    BY <1>1 DEF Check, Undisturbed
  <2>2. Fails(p, "EEXIST") \in Creator
    BY <1>a, FailsIs DEF TypeOK
  <2>. QED
    BY <1>a, <1>1, <2>1, <2>2, OneCreator, FailsShape DEF Effect, OthersStay, TypeOK
<1>2. CASE location(p) \notin dirs
  <2>. DEFINE c == [creator[p] EXCEPT
                      !.filepaths = TRUE,
                      !.pc = IF request[p].base = "none" THEN "make" ELSE "lookup"]
  <2>1. Become(p, c) /\ dirs' = dirs /\ file' = file
    BY <1>2 DEF Check, Undisturbed
  <2>2. /\ c \in Creator /\ c.filepaths /\ c.base = creator[p].base /\ c.text = creator[p].text
        /\ c.k = creator[p].k /\ c.ret = creator[p].ret /\ c.opened = creator[p].opened
        /\ c.pc = IF request[p].base = "none" THEN "make" ELSE "lookup"
    BY <1>a DEF Creator
  <2>. HIDE DEF c
  <2>3. creator' \in [Creators -> Creator] /\ creator'[p] = c
        /\ \A q \in Creators \ {p} : creator'[q] = creator[q]
    BY <1>a, <2>1, <2>2, OneCreator
  <2>4. Shape(p)'
    BY <1>a, <2>2, <2>3 DEF Shape, Creating
  <2>. QED
    BY <1>a, <1>2, <2>1, <2>2, <2>3, <2>4 DEF Effect, OthersStay, TypeOK
<1>. QED
  BY <1>1, <1>2

LEMMA LookUpEffect ==
    ASSUME TInv, NEW p \in Creators, LookUp(p), request' = request
    PROVE  /\ Effect(p) /\ Shape(p)' /\ dirs' = dirs /\ file' = file
           /\ \A q \in Creators \ {p} : creator'[q] = creator[q]
           /\ \/ creator'[p] = Fails(p, "ENOENT")
              \/ /\ creator'[p].pc = "read"
                 /\ creator'[p].base = Found(request[p].base, dirs)
                 /\ creator'[p].base \in dirs /\ creator'[p].base \in Bases(p)
                 /\ creator'[p].filepaths /\ creator'[p].k = creator[p].k
                 /\ creator'[p].ret = creator[p].ret
<1>. DEFINE l == Found(request[p].base, dirs)
<1>a. Shape(p) /\ TypeOK /\ creator[p] \in Creator /\ creator[p].pc = "lookup"
      /\ creator[p].filepaths
  BY DEF TInv, TypeOK, LookUp, Shape, Creating
<1>b. l = "none" \/ (l \in dirs /\ l \in Bases(p) /\ l \in Locations)
  BY <1>a, RequestFacts, FoundFacts, BasesFacts DEF TypeOK, BaseIds, Locations
<1>c. "none" \notin Locations
  BY DEF Locations
<1>. HIDE DEF l
<1>1. CASE l = "none"
  <2>1. Become(p, Fails(p, "ENOENT")) /\ dirs' = dirs /\ file' = file
    BY <1>1 DEF LookUp, Undisturbed, l
  <2>2. Fails(p, "ENOENT") \in Creator
    BY <1>a, FailsIs DEF TypeOK
  <2>. QED
    BY <1>a, <2>1, <2>2, OneCreator, FailsShape DEF Effect, OthersStay, TypeOK, Creating
<1>2. CASE l # "none"
  <2>. DEFINE c == [creator[p] EXCEPT !.base = l, !.pc = "read"]
  <2>1. Become(p, c) /\ dirs' = dirs /\ file' = file
    BY <1>2 DEF LookUp, Undisturbed, l
  <2>2. /\ c \in Creator /\ c.filepaths = creator[p].filepaths /\ c.base = l
        /\ c.k = creator[p].k /\ c.ret = creator[p].ret /\ c.opened = creator[p].opened
        /\ c.pc = "read"
    BY <1>a, <1>b, <1>2 DEF Creator
  <2>. HIDE DEF c
  <2>3. creator' \in [Creators -> Creator] /\ creator'[p] = c
        /\ \A q \in Creators \ {p} : creator'[q] = creator[q]
    BY <1>a, <2>1, <2>2, OneCreator
  <2>4. Shape(p)'
    BY <1>a, <1>b, <1>2, <2>2, <2>3 DEF Shape, Creating
  <2>. QED
    BY <1>a, <1>b, <1>2, <2>1, <2>2, <2>3, <2>4 DEF Effect, OthersStay, TypeOK, l
<1>. QED
  BY <1>1, <1>2

(* The fields that few steps change.                                       *)
Same(p) ==
    /\ creator'[p].filepaths = creator[p].filepaths
    /\ creator'[p].base = creator[p].base /\ creator'[p].text = creator[p].text

LEMMA ReadEffect ==
    ASSUME TInv, NEW p \in Creators, Read(p), request' = request
    PROVE  /\ Effect(p) /\ Shape(p)' /\ dirs' = dirs /\ file' = file
           /\ \A q \in Creators \ {p} : creator'[q] = creator[q]
           /\ \/ \E errno \in {"EINVAL", "ENOENT"} : creator'[p] = Fails(p, errno)
              \/ /\ creator'[p] = HasRead(p, Content(creator[p].base, filename(p)))
                 /\ Content(creator[p].base, filename(p)) \in Texts
                 /\ filename(p) = README => Content(creator[p].base, README) # "nothing"
<1>. DEFINE t == Content(creator[p].base, filename(p))
<1>a. Shape(p) /\ TypeOK /\ creator[p] \in Creator /\ creator[p].pc = "read"
      /\ creator[p].filepaths /\ creator[p].base \in Locations
  BY DEF TInv, TypeOK, Read, Shape, Creating
<1>b. filename(p) \in Files
  BY <1>a, OrderFacts, CreatorFields
<1>c. t \in Texts
  BY <1>a, <1>b, OpensFacts DEF TypeOK
<1>d. dirs' = dirs /\ file' = file
  BY DEF Read, Undisturbed
<1>. HIDE DEF t
<1>1. CASE filename(p) # README \/ t # "nothing"
  <2>1. Become(p, HasRead(p, t))
    BY <1>1 DEF Read, t
  <2>2. HasRead(p, t) \in Creator
    BY <1>a, <1>c, HasReadIs DEF TypeOK
  <2>. QED
    BY <1>a, <1>c, <1>d, <1>1, <2>1, <2>2, OneCreator, HasReadShape
    DEF Effect, OthersStay, TypeOK, t
<1>2. ASSUME NEW errno \in {"EINVAL", "ENOENT"}, Become(p, Fails(p, errno))
      PROVE  /\ Effect(p) /\ Shape(p)' /\ creator'[p] = Fails(p, errno)
             /\ \A q \in Creators \ {p} : creator'[q] = creator[q]
  <2>1. Fails(p, errno) \in Creator
    BY <1>a, FailsIs DEF TypeOK
  <2>. QED
    BY <1>a, <1>d, <1>2, <2>1, OneCreator, FailsShape DEF Effect, OthersStay, TypeOK, Creating
<1>3. CASE ~(filename(p) # README \/ t # "nothing")
  <2>1. Become(p, Fails(p, "EINVAL")) \/ Become(p, Fails(p, "ENOENT"))
    BY <1>3 DEF Read, t
  <2>. QED
    BY <1>2, <1>d, <2>1
<1>. QED
  BY <1>1, <1>3

LEMMA MakeEffect ==
    ASSUME TInv, NEW p \in Creators, Make(p), request' = request
    PROVE  /\ Effect(p) /\ Shape(p)' /\ dirs' = dirs /\ file' = file
           /\ \A q \in Creators \ {p} : creator'[q] = creator[q]
           /\ Same(p) /\ creator'[p].k = creator[p].k /\ creator'[p].ret = creator[p].ret
           /\ creator'[p].pc = IF location(p) \in dirs THEN "file" ELSE "mkdir"
<1>. DEFINE c == [creator[p] EXCEPT !.pc = IF location(p) \in dirs THEN "file" ELSE "mkdir"]
<1>a. Shape(p) /\ TypeOK /\ creator[p] \in Creator /\ creator[p].pc = "make"
  BY DEF TInv, TypeOK, Make
<1>1. Become(p, c) /\ dirs' = dirs /\ file' = file
  BY DEF Make, Undisturbed
<1>2. /\ c \in Creator /\ c.filepaths = creator[p].filepaths /\ c.base = creator[p].base
      /\ c.text = creator[p].text /\ c.k = creator[p].k /\ c.ret = creator[p].ret
      /\ c.opened = creator[p].opened
      /\ c.pc = IF location(p) \in dirs THEN "file" ELSE "mkdir"
  BY <1>a DEF Creator
<1>. HIDE DEF c
<1>3. creator' \in [Creators -> Creator] /\ creator'[p] = c
      /\ \A q \in Creators \ {p} : creator'[q] = creator[q]
  BY <1>a, <1>1, <1>2, OneCreator
<1>4. Shape(p)'
  BY <1>a, <1>2, <1>3 DEF Shape, Creating
<1>. QED
  BY <1>a, <1>1, <1>2, <1>3, <1>4 DEF Effect, OthersStay, TypeOK, Same

LEMMA MkdirEffect ==
    ASSUME TInv, NEW p \in Creators, Mkdir(p), request' = request
    PROVE  /\ Effect(p) /\ Shape(p)' /\ dirs' = dirs \cup {location(p)} /\ file' = file
           /\ \A q \in Creators \ {p} : creator'[q] = creator[q]
           /\ \/ creator'[p] = Fails(p, "EEXIST") /\ location(p) \in dirs
              \/ /\ Same(p) /\ creator'[p].k = creator[p].k
                 /\ creator'[p].ret = creator[p].ret /\ creator'[p].pc = "file"
<1>a. Shape(p) /\ TypeOK /\ creator[p] \in Creator /\ creator[p].pc = "mkdir"
      /\ creator[p].filepaths
  BY DEF TInv, TypeOK, Mkdir, Shape, Creating
<1>b. dirs' = dirs \cup {location(p)} /\ file' = file /\ dirs' \subseteq Locations
  BY <1>a, RequestFacts DEF Mkdir, TypeOK
<1>1. CASE location(p) \in dirs
  <2>1. Become(p, Fails(p, "EEXIST"))
    BY <1>1 DEF Mkdir
  <2>2. Fails(p, "EEXIST") \in Creator
    BY <1>a, FailsIs DEF TypeOK
  <2>. QED
    BY <1>a, <1>b, <1>1, <2>1, <2>2, OneCreator, FailsShape
    DEF Effect, OthersStay, TypeOK, Creating
<1>2. CASE location(p) \notin dirs
  <2>. DEFINE c == [creator[p] EXCEPT !.pc = "file"]
  <2>1. Become(p, c)
    BY <1>2 DEF Mkdir
  <2>2. /\ c \in Creator /\ c.filepaths = creator[p].filepaths /\ c.base = creator[p].base
        /\ c.text = creator[p].text /\ c.k = creator[p].k /\ c.ret = creator[p].ret
        /\ c.opened = creator[p].opened /\ c.pc = "file"
    BY <1>a DEF Creator
  <2>. HIDE DEF c
  <2>3. creator' \in [Creators -> Creator] /\ creator'[p] = c
        /\ \A q \in Creators \ {p} : creator'[q] = creator[q]
    BY <1>a, <2>1, <2>2, OneCreator
  <2>4. Shape(p)'
    BY <1>a, <2>2, <2>3 DEF Shape, Creating
  <2>. QED
    BY <1>a, <1>b, <2>2, <2>3, <2>4 DEF Effect, OthersStay, TypeOK, Same
<1>. QED
  BY <1>1, <1>2

LEMMA LookForTargetEffect ==
    ASSUME TInv, NEW p \in Creators, LookForTarget(p), request' = request
    PROVE  /\ Effect(p) /\ Shape(p)' /\ dirs' = dirs /\ file' = file
           /\ \A q \in Creators \ {p} : creator'[q] = creator[q]
           /\ IsLink(p) /\ creator[p].base \in Locations
           /\ \/ creator'[p] = NextFile(p) /\ ~Exists(creator[p].base, filename(p))
              \/ /\ Same(p) /\ creator'[p].k = creator[p].k
                 /\ creator'[p].ret = creator[p].ret /\ creator'[p].pc = "symlink"
                 /\ Exists(creator[p].base, filename(p))
<1>a. Shape(p) /\ TypeOK /\ creator[p] \in Creator /\ creator[p].pc = "file"
      /\ creator[p].filepaths /\ IsLink(p) /\ creator[p].base \in Locations
  BY DEF TInv, TypeOK, LookForTarget, Shape, Creating, IsLink
<1>b. dirs' = dirs /\ file' = file
  BY DEF LookForTarget, Undisturbed
<1>1. CASE ~Exists(creator[p].base, filename(p))
  <2>1. Become(p, NextFile(p))
    BY <1>1 DEF LookForTarget
  <2>2. NextFile(p) \in Creator
    BY <1>a, NextFileIs DEF TypeOK
  <2>. QED
    BY <1>a, <1>b, <1>1, <2>1, <2>2, OneCreator, NextFileShape DEF Effect, OthersStay, TypeOK
<1>2. CASE Exists(creator[p].base, filename(p))
  <2>. DEFINE c == [creator[p] EXCEPT !.pc = "symlink"]
  <2>1. Become(p, c)
    BY <1>2 DEF LookForTarget
  <2>2. /\ c \in Creator /\ c.filepaths = creator[p].filepaths /\ c.base = creator[p].base
        /\ c.text = creator[p].text /\ c.k = creator[p].k /\ c.ret = creator[p].ret
        /\ c.opened = creator[p].opened /\ c.pc = "symlink"
    BY <1>a DEF Creator
  <2>. HIDE DEF c
  <2>3. creator' \in [Creators -> Creator] /\ creator'[p] = c
        /\ \A q \in Creators \ {p} : creator'[q] = creator[q]
    BY <1>a, <2>1, <2>2, OneCreator
  <2>4. Shape(p)'
    BY <1>a, <2>2, <2>3 DEF Shape, Creating, IsLink
  <2>. QED
    BY <1>a, <1>b, <1>2, <2>2, <2>3, <2>4 DEF Effect, OthersStay, TypeOK, Same
<1>. QED
  BY <1>1, <1>2

LEMMA SymlinkEffect ==
    ASSUME TInv, NEW p \in Creators, Symlink(p), request' = request
    PROVE  /\ Effect(p) /\ Shape(p)' /\ dirs' = dirs
           /\ \A q \in Creators \ {p} : creator'[q] = creator[q]
           /\ IsLink(p) /\ creator[p].base \in Locations
           /\ \/ /\ location(p) \in dirs /\ file[location(p)][filename(p)] = Missing
                 /\ Put(location(p), filename(p), Link(creator[p].base))
                 /\ creator'[p] = NextFile(p)
              \/ /\ file' = file
                 /\ \E errno \in {"EEXIST", "ENOENT"} : creator'[p] = Fails(p, errno)
<1>a. Shape(p) /\ TypeOK /\ creator[p] \in Creator /\ creator[p].pc = "symlink"
      /\ creator[p].filepaths /\ IsLink(p) /\ creator[p].base \in Locations
  BY DEF TInv, TypeOK, Symlink, Shape, Creating, IsLink
<1>b. dirs' = dirs /\ filename(p) \in Files /\ location(p) \in Locations
  BY <1>a, OrderFacts, CreatorFields, RequestFacts DEF Symlink
<1>1. CASE /\ location(p) \in dirs /\ file[location(p)][filename(p)] = Missing
           /\ Put(location(p), filename(p), Link(creator[p].base))
           /\ Become(p, NextFile(p))
  <2>1. NextFile(p) \in Creator
    BY <1>a, NextFileIs DEF TypeOK
  <2>2. file' \in [Locations -> [Files -> File]]
    BY <1>a, <1>b, <1>1, PutFacts, FileForms DEF TypeOK
  <2>. QED
    BY <1>a, <1>b, <1>1, <2>1, <2>2, OneCreator, NextFileShape DEF Effect, OthersStay, TypeOK
<1>2. ASSUME NEW errno \in {"EEXIST", "ENOENT"}, Become(p, Fails(p, errno)), file' = file
      PROVE  /\ Effect(p) /\ Shape(p)' /\ creator'[p] = Fails(p, errno)
             /\ \A q \in Creators \ {p} : creator'[q] = creator[q]
  <2>1. Fails(p, errno) \in Creator
    BY <1>a, FailsIs DEF TypeOK
  <2>. QED
    BY <1>a, <1>b, <1>2, <2>1, OneCreator, FailsShape DEF Effect, OthersStay, TypeOK, Creating
<1>3. CASE /\ Become(p, Fails(p, "EEXIST")) \/ Become(p, Fails(p, "ENOENT"))
           /\ file' = file
  BY <1>a, <1>b, <1>2, <1>3
<1>. QED
  BY <1>1, <1>3 DEF Symlink

LEMMA OpenEffect ==
    ASSUME TInv, NEW p \in Creators, Open(p), request' = request
    PROVE  /\ Effect(p) /\ Shape(p)' /\ dirs' = dirs
           /\ \A q \in Creators \ {p} : creator'[q] = creator[q]
           /\ ~IsLink(p)
           /\ \/ /\ Opens(location(p), filename(p)) \in dirs
                 /\ Put(Opens(location(p), filename(p)), filename(p), Text("nothing"))
                 /\ Same(p) /\ creator'[p].k = creator[p].k
                 /\ creator'[p].ret = creator[p].ret /\ creator'[p].pc = "write"
                 /\ creator'[p].opened = Opens(location(p), filename(p))
              \/ file' = file /\ creator'[p] = Fails(p, "ENOENT")
<1>. DEFINE l == Opens(location(p), filename(p))
<1>a. Shape(p) /\ TypeOK /\ creator[p] \in Creator /\ creator[p].pc = "file"
      /\ creator[p].filepaths /\ ~IsLink(p)
  BY DEF TInv, TypeOK, Open, Shape, Creating
<1>b. dirs' = dirs /\ filename(p) \in Files /\ location(p) \in Locations
  BY <1>a, OrderFacts, CreatorFields, RequestFacts DEF Open
<1>c. l \in Locations
  BY <1>a, <1>b, OpensFacts DEF TypeOK
<1>1. CASE {location(p), l} \subseteq dirs
  <2>. DEFINE c == [creator[p] EXCEPT !.opened = l, !.pc = "write"]
  <2>. HIDE DEF l
  <2>1. Become(p, c) /\ Put(l, filename(p), Text("nothing")) /\ l \in dirs
    BY <1>1 DEF Open, l
  <2>2. /\ c \in Creator /\ c.filepaths = creator[p].filepaths /\ c.base = creator[p].base
        /\ c.text = creator[p].text /\ c.k = creator[p].k /\ c.ret = creator[p].ret
        /\ c.opened = l /\ c.pc = "write"
    BY <1>a, <1>c DEF Creator
  <2>. HIDE DEF c
  <2>3. creator' \in [Creators -> Creator] /\ creator'[p] = c
        /\ \A q \in Creators \ {p} : creator'[q] = creator[q]
    BY <1>a, <2>1, <2>2, OneCreator
  <2>4. file' \in [Locations -> [Files -> File]]
    BY <1>a, <1>b, <1>c, <2>1, PutFacts, FileForms DEF TypeOK, Texts
  <2>5. Shape(p)'
    BY <1>a, <1>c, <2>2, <2>3 DEF Shape, Creating, IsLink
  <2>. QED
    BY <1>a, <1>b, <2>1, <2>2, <2>3, <2>4, <2>5 DEF Effect, OthersStay, TypeOK, Same, l
<1>2. CASE ~({location(p), l} \subseteq dirs)
  <2>1. Become(p, Fails(p, "ENOENT")) /\ file' = file
    BY <1>2 DEF Open
  <2>2. Fails(p, "ENOENT") \in Creator
    BY <1>a, FailsIs DEF TypeOK
  <2>. QED
    BY <1>a, <1>b, <2>1, <2>2, OneCreator, FailsShape DEF Effect, OthersStay, TypeOK, Creating
<1>. QED
  BY <1>1, <1>2

LEMMA WriteEffect ==
    ASSUME TInv, NEW p \in Creators, Write(p), request' = request
    PROVE  /\ Effect(p) /\ Shape(p)' /\ dirs' = dirs
           /\ \A q \in Creators \ {p} : creator'[q] = creator[q]
           /\ ~IsLink(p) /\ creator'[p] = NextFile(p)
           /\ \/ /\ file' = file
                 /\ creator[p].opened = "gone" \/ creator[p].text[filename(p)] = "nothing"
              \/ /\ creator[p].opened \in Locations
                 /\ Put(creator[p].opened, filename(p), Text(creator[p].text[filename(p)]))
<1>a. Shape(p) /\ TypeOK /\ creator[p] \in Creator /\ creator[p].pc = "write"
      /\ creator[p].filepaths /\ ~IsLink(p) /\ creator[p].opened \in Locations \cup {"gone"}
  BY DEF TInv, TypeOK, Write, Shape, Creating
<1>b. dirs' = dirs /\ filename(p) \in Files /\ Become(p, NextFile(p))
  BY <1>a, OrderFacts, CreatorFields DEF Write
<1>c. creator[p].text[filename(p)] \in Texts
  BY <1>a, <1>b, CreatorFields
<1>d. NextFile(p) \in Creator
  BY <1>a, NextFileIs DEF TypeOK
<1>1. creator' \in [Creators -> Creator] /\ creator'[p] = NextFile(p) /\ Shape(p)'
      /\ \A q \in Creators \ {p} : creator'[q] = creator[q]
  BY <1>a, <1>b, <1>d, OneCreator, NextFileShape
<1>2. CASE creator[p].opened = "gone" \/ creator[p].text[filename(p)] = "nothing"
  <2>1. file' = file
    BY <1>2 DEF Write
  <2>. QED
    BY <1>a, <1>b, <1>1, <1>2, <2>1 DEF Effect, OthersStay, TypeOK
<1>3. CASE ~(creator[p].opened = "gone" \/ creator[p].text[filename(p)] = "nothing")
  <2>1. Put(creator[p].opened, filename(p), Text(creator[p].text[filename(p)]))
    BY <1>3 DEF Write
  <2>2. creator[p].opened \in Locations
    BY <1>a, <1>3
  <2>3. file' \in [Locations -> [Files -> File]]
    BY <1>a, <1>b, <1>c, <2>1, <2>2, PutFacts, FileForms DEF TypeOK
  <2>. QED
    BY <1>a, <1>b, <1>1, <2>1, <2>2, <2>3 DEF Effect, OthersStay, TypeOK
<1>. QED
  BY <1>2, <1>3

LEMMA UnlinkEffect ==
    ASSUME TInv, NEW p \in Creators, Unlink(p), request' = request
    PROVE  /\ Effect(p) /\ Shape(p)' /\ dirs' = dirs
           /\ creator[p].filepaths /\ Same(p) /\ creator'[p].ret = creator[p].ret
           /\ Put(location(p), filename(p), Missing)
           /\ creator' = [Removed(location(p), filename(p)) EXCEPT ![p] = creator'[p]]
           /\ \/ /\ creator'[p].pc = "unlink" /\ creator[p].k < Len(Order)
                 /\ creator'[p].k = creator[p].k + 1
              \/ creator'[p].pc = "rmdir" /\ creator[p].k = Len(Order)
<1>. DEFINE c == IF creator[p].k < Len(Order) THEN [creator[p] EXCEPT !.k = @ + 1]
                 ELSE [creator[p] EXCEPT !.pc = "rmdir"]
<1>a. Shape(p) /\ TypeOK /\ creator[p] \in Creator /\ creator[p].pc = "unlink"
      /\ creator[p].filepaths
  BY DEF TInv, TypeOK, Unlink, Shape
<1>b. dirs' = dirs /\ filename(p) \in Files /\ location(p) \in Locations
  BY <1>a, OrderFacts, CreatorFields, RequestFacts DEF Unlink
<1>c. Len(Order) \in Nat /\ creator[p].k \in 1..Len(Order)
  BY <1>a, OrderFacts, CreatorFields DEF Indices
<1>1. /\ Put(location(p), filename(p), Missing)
      /\ creator' = [Removed(location(p), filename(p)) EXCEPT ![p] = c]
  BY DEF Unlink
<1>2. /\ c \in Creator /\ c.filepaths = creator[p].filepaths /\ c.base = creator[p].base
      /\ c.text = creator[p].text /\ c.ret = creator[p].ret /\ c.opened = creator[p].opened
      /\ \/ c.pc = "unlink" /\ creator[p].k < Len(Order) /\ c.k = creator[p].k + 1
         \/ c.pc = "rmdir" /\ creator[p].k = Len(Order)
  <2>1. CASE creator[p].k < Len(Order)
    <3>1. creator[p].k + 1 \in 1..Len(Order)
      BY <1>c, <2>1
    <3>. QED
      BY <1>a, <2>1, <3>1 DEF Creator
  <2>2. CASE creator[p].k = Len(Order)
    <3>1. ~(creator[p].k < Len(Order)) /\ c = [creator[p] EXCEPT !.pc = "rmdir"]
      BY <1>c, <2>2
    <3>. QED
      BY <1>a, <2>2, <3>1 DEF Creator
  <2>. QED
    BY <1>c, <2>1, <2>2
<1>. HIDE DEF c
<1>3. creator' \in [Creators -> Creator] /\ creator'[p] = c /\ OthersStay(p)
  BY <1>a, <1>1, <1>2, RemovedFacts
<1>4. file' \in [Locations -> [Files -> File]]
  BY <1>a, <1>b, <1>1, PutFacts, FileForms DEF TypeOK
<1>5. Shape(p)'
  BY <1>a, <1>2, <1>3 DEF Shape, Creating
<1>. QED
  BY <1>a, <1>b, <1>1, <1>2, <1>3, <1>4, <1>5 DEF Effect, TypeOK, Same

LEMMA RmdirEffect ==
    ASSUME TInv, NEW p \in Creators, Rmdir(p), request' = request
    PROVE  /\ Effect(p) /\ Shape(p)' /\ file' = file
           /\ creator[p].pc = "rmdir"
           /\ dirs' = IF file[location(p)] = NoFiles THEN dirs \ {location(p)} ELSE dirs
           /\ \A q \in Creators \ {p} : creator'[q] = creator[q]
           /\ Same(p) /\ creator'[p].ret = creator[p].ret /\ creator'[p].pc = "done"
<1>. DEFINE c == [creator[p] EXCEPT !.pc = "done"]
<1>a. Shape(p) /\ TypeOK /\ creator[p] \in Creator /\ creator[p].pc = "rmdir"
  BY DEF TInv, TypeOK, Rmdir
<1>1. Become(p, c) /\ file' = file
  BY DEF Rmdir
<1>b. dirs' = IF file[location(p)] = NoFiles THEN dirs \ {location(p)} ELSE dirs
  BY DEF Rmdir
<1>2. /\ c \in Creator /\ c.filepaths = creator[p].filepaths /\ c.base = creator[p].base
      /\ c.text = creator[p].text /\ c.k = creator[p].k /\ c.ret = creator[p].ret
      /\ c.opened = creator[p].opened /\ c.pc = "done"
  BY <1>a DEF Creator
<1>. HIDE DEF c
<1>3. creator' \in [Creators -> Creator] /\ creator'[p] = c
      /\ \A q \in Creators \ {p} : creator'[q] = creator[q]
  BY <1>a, <1>1, <1>2, OneCreator
<1>4. Shape(p)'
  BY <1>a, <1>2, <1>3 DEF Shape, Creating
<1>. QED
  BY <1>a, <1>b, <1>1, <1>2, <1>3, <1>4 DEF Effect, OthersStay, TypeOK, Same

(* A failed call is followed by the clean-up, if the error is not ignored; *)
(* a file that could not be written is removed at once.                    *)
LEMMA CallFailsEffect ==
    ASSUME TInv, NEW p \in Creators, CallFails(p)
    PROVE  /\ Effect(p) /\ Shape(p)' /\ dirs' = dirs
           /\ creator[p].pc \in Creating /\ creator[p].filepaths
           /\ creator'[p] = Fails(p, "error") \/ creator'[p] = HasRead(p, "nothing")
           /\ \/ file' = file /\ \A q \in Creators \ {p} : creator'[q] = creator[q]
              \/ /\ Put(location(p), filename(p), Missing)
                 /\ creator' = [Removed(location(p), filename(p)) EXCEPT ![p] = creator'[p]]
                 /\ creator[p].pc = "write" /\ creator'[p] = Fails(p, "error")
           /\ creator'[p] # Fails(p, "error") => creator[p].pc = "read"
<1>a. Shape(p) /\ TypeOK /\ creator[p] \in Creator /\ "nothing" \in Texts
  BY DEF TInv, TypeOK, Texts
<1>b. dirs' = dirs /\ request' = request /\ filename(p) \in Files /\ location(p) \in Locations
  BY <1>a, OrderFacts, CreatorFields, RequestFacts DEF CallFails
<1>c. Fails(p, "error") \in Creator /\ HasRead(p, "nothing") \in Creator
  BY <1>a, FailsIs, HasReadIs DEF TypeOK
<1>1. CASE /\ creator[p].pc \in {"lookup", "make", "mkdir", "file", "symlink", "read"}
           /\ Become(p, Fails(p, "error")) /\ file' = file
  <2>1. creator[p].pc \in Creating /\ creator[p].filepaths
    BY <1>a, <1>1 DEF Shape, Creating
  <2>. QED
    BY <1>a, <1>b, <1>c, <1>1, <2>1, OneCreator, FailsShape DEF Effect, OthersStay, TypeOK
<1>2. CASE creator[p].pc = "read" /\ Become(p, HasRead(p, "nothing")) /\ file' = file
  <2>1. creator[p].pc \in Creating /\ creator[p].filepaths
    BY <1>a, <1>2 DEF Shape, Creating
  <2>. QED
    BY <1>a, <1>b, <1>c, <1>2, <2>1, OneCreator, HasReadShape DEF Effect, OthersStay, TypeOK
<1>3. CASE /\ creator[p].pc = "write" /\ Put(location(p), filename(p), Missing)
           /\ creator' = [Removed(location(p), filename(p)) EXCEPT ![p] = Fails(p, "error")]
  <2>1. creator[p].pc \in Creating /\ creator[p].filepaths
    BY <1>a, <1>3 DEF Shape, Creating
  <2>2. file' \in [Locations -> [Files -> File]]
    BY <1>a, <1>b, <1>3, PutFacts, FileForms DEF TypeOK
  <2>3. creator' \in [Creators -> Creator] /\ creator'[p] = Fails(p, "error") /\ OthersStay(p)
    BY <1>a, <1>c, <1>3, RemovedFacts
  <2>4. Shape(p)'
    BY <1>b, <2>1, <2>3, FailsShape
  <2>. QED
    BY <1>a, <1>b, <1>3, <2>1, <2>2, <2>3, <2>4 DEF Effect, TypeOK
<1>. QED
  BY <1>1, <1>2, <1>3 DEF CallFails

LEMMA CrashEffect ==
    ASSUME TInv, NEW p \in Creators, Crash(p)
    PROVE  /\ Effect(p) /\ Shape(p)' /\ dirs' = dirs /\ file' = file
           /\ \A q \in Creators \ {p} : creator'[q] = creator[q]
           /\ creator[p].pc # "check" /\ Same(p) /\ creator'[p].ret = creator[p].ret
           /\ creator'[p].pc = "killed"
<1>. DEFINE c == [creator[p] EXCEPT !.pc = "killed", !.opened = "none"]
<1>a. Shape(p) /\ TypeOK /\ creator[p] \in Creator
      /\ creator[p].pc \notin {"check", "done", "killed"}
  BY DEF TInv, TypeOK, Crash
<1>1. Become(p, c) /\ file' = file /\ dirs' = dirs /\ request' = request
  BY DEF Crash
<1>2. /\ c \in Creator /\ c.filepaths = creator[p].filepaths /\ c.base = creator[p].base
      /\ c.text = creator[p].text /\ c.k = creator[p].k /\ c.ret = creator[p].ret
      /\ c.opened = "none" /\ c.pc = "killed"
  BY <1>a DEF Creator
<1>. HIDE DEF c
<1>3. creator' \in [Creators -> Creator] /\ creator'[p] = c
      /\ \A q \in Creators \ {p} : creator'[q] = creator[q]
  BY <1>a, <1>1, <1>2, OneCreator
<1>4. Shape(p)'
  BY <1>a, <1>1, <1>2, <1>3 DEF Shape, Creating, IsLink
<1>. QED
  BY <1>a, <1>1, <1>2, <1>3, <1>4 DEF Effect, OthersStay, TypeOK, Same

LEMMA TypeNext == TInv /\ [Next]_vars => TInv'
<1>. SUFFICES ASSUME TInv, [Next]_vars PROVE TInv'
  OBVIOUS
<1>1. CASE UNCHANGED vars
  BY <1>1 DEF TInv, TypeOK, Shape, IsLink, vars
<1>2. ASSUME NEW p \in Creators, SystemCall(p) \/ CallFails(p) \/ Crash(p) PROVE TInv'
  <2>1. faults' \in 0..MaxFaults
    <3>1. faults \in 0..MaxFaults
      BY DEF TInv, TypeOK
    <3>. QED
      BY <1>2, <3>1, FaultsAssumption DEF SystemCall, CallFails, Crash
  <2>2. Effect(p) /\ Shape(p)'
    BY <1>2, CheckEffect, LookUpEffect, ReadEffect, MakeEffect, MkdirEffect,
       LookForTargetEffect, SymlinkEffect, OpenEffect, WriteEffect, UnlinkEffect,
       RmdirEffect, CallFailsEffect, CrashEffect DEF SystemCall
  <2>. QED
    BY <2>1, <2>2, TypeFrame DEF Effect
<1>. QED
  BY <1>1, <1>2 DEF Next

(* The variables have their types, and a creator the variables that belong *)
(* to its place in the code.                                               *)
THEOREM TypeCorrect == Spec => []TypeOK
<1>1. Spec => []TInv
  BY TypeInit, TypeNext, PTL DEF Spec
<1>2. TInv => TypeOK
  BY DEF TInv
<1>. QED
  BY <1>1, <1>2, PTL

(* list and the look-up agree: every profile that list shows is found      *)
(* under the id shown, and every profile is shown under the id that finds  *)
(* it, unless a vendor profile hides a default one.                        *)
THEOREM ListedIsFound == Spec => []ListedAreFound
<1>1. TypeOK => ListedAreFound
  <2>. SUFFICES ASSUME TypeOK PROVE ListedAreFound
    OBVIOUS
  <2>1. dirs \subseteq {"vendor", "default", "custom"}
    BY DEF TypeOK, Locations
  <2>2. ASSUME NEW l \in dirs
        PROVE  /\ Found(IF l = "custom" THEN "custom" ELSE "any", dirs) # "none"
               /\ \/ l = "default" /\ "vendor" \in dirs
                  \/ Found(IF l = "custom" THEN "custom" ELSE "any", dirs) = l
    BY <2>1, FoundFacts DEF BaseIds
  <2>. QED
    BY <2>2 DEF ListedAreFound, Listed
<1>. QED
  BY <1>1, TypeCorrect, PTL

-----------------------------------------------------------------------------
(* What holds of the disk however many creators meet.                      *)

StepOf(p) == SystemCall(p) \/ CallFails(p) \/ Crash(p)

LEMMA AnyEffect ==
    ASSUME TInv, NEW p \in Creators, StepOf(p)
    PROVE  Effect(p) /\ Shape(p)' /\ TInv'
<1>1. Effect(p) /\ Shape(p)'
  BY CheckEffect, LookUpEffect, ReadEffect, MakeEffect, MkdirEffect,
     LookForTargetEffect, SymlinkEffect, OpenEffect, WriteEffect, UnlinkEffect,
     RmdirEffect, CallFailsEffect, CrashEffect DEF StepOf, SystemCall
<1>2. TInv'
  BY TypeNext DEF StepOf, Next
<1>. QED
  BY <1>1, <1>2

(* All but the open file of another creator stays.                         *)
LEMMA OthersFields ==
    ASSUME TInv, NEW p \in Creators, Effect(p), NEW q \in Creators \ {p}
    PROVE  /\ creator'[q].pc = creator[q].pc /\ creator'[q].k = creator[q].k
           /\ creator'[q].filepaths = creator[q].filepaths
           /\ creator'[q].base = creator[q].base /\ creator'[q].ret = creator[q].ret
           /\ creator'[q].text = creator[q].text
           /\ creator'[q].opened \in {creator[q].opened, "gone"}
<1>1. creator[q] \in Creator
  BY DEF TInv, TypeOK
<1>2. CASE creator'[q] = creator[q]
  BY <1>2
<1>3. CASE creator'[q] = [creator[q] EXCEPT !.opened = "gone"]
  BY <1>1, <1>3 DEF Creator
<1>. QED
  BY <1>2, <1>3 DEF Effect, OthersStay

(* Who has passed the check has done so for ever.                          *)
LEMMA FilepathsStay ==
    ASSUME TInv, NEW p \in Creators, StepOf(p), NEW q \in Creators, creator[q].filepaths
    PROVE  creator'[q].filepaths
<1>a. creator \in [Creators -> Creator] /\ Effect(p) /\ "nothing" \in Texts
  BY AnyEffect DEF TInv, TypeOK, Texts
<1>1. CASE q # p
  BY <1>1, <1>a, OthersFields
<1>2. CASE q = p
  <2>1. \A errno \in {"EEXIST", "ENOENT", "EINVAL", "error"} :
           Fails(p, errno).filepaths = creator[p].filepaths
    BY <1>a, FailsIs
  <2>2. NextFile(p).filepaths = creator[p].filepaths
    BY <1>a, NextFileIs
  <2>3. \A t \in Texts : HasRead(p, t).filepaths = creator[p].filepaths
    BY <1>a, HasReadIs
  <2>4. CASE SystemCall(p)
    <3>1. request' = request
      BY <2>4 DEF SystemCall
    <3>2. CASE Check(p)
      BY <1>2, <2>1, <3>1, <3>2, CheckEffect
    <3>3. CASE LookUp(p)
      BY <1>2, <2>1, <3>1, <3>3, LookUpEffect
    <3>4. CASE Read(p)
      BY <1>2, <2>1, <2>3, <3>1, <3>4, ReadEffect
    <3>5. CASE Make(p) \/ Mkdir(p) \/ LookForTarget(p) \/ Open(p)
      BY <1>2, <2>1, <2>2, <3>1, <3>5, MakeEffect, MkdirEffect, LookForTargetEffect, OpenEffect
      DEF Same
    <3>6. CASE Symlink(p) \/ Write(p)
      BY <1>2, <2>1, <2>2, <3>1, <3>6, SymlinkEffect, WriteEffect
    <3>7. CASE Unlink(p) \/ Rmdir(p)
      BY <1>2, <3>1, <3>7, UnlinkEffect, RmdirEffect DEF Same
    <3>. QED
      BY <2>4, <3>2, <3>3, <3>4, <3>5, <3>6, <3>7 DEF SystemCall
  <2>5. CASE CallFails(p)
    BY <1>a, <1>2, <2>1, <2>3, <2>5, CallFailsEffect
  <2>6. CASE Crash(p)
    BY <1>2, <2>6, CrashEffect DEF Same
  <2>. QED
    BY <2>4, <2>5, <2>6 DEF StepOf
<1>. QED
  BY <1>1, <1>2

(* What a step makes of the files.                                         *)
LEMMA FileStep ==
    ASSUME TInv, NEW p \in Creators, StepOf(p)
    PROVE  /\ file' # file => creator[p].filepaths
           /\ \/ /\ file' = file /\ creator'[p].opened = "none"
                 /\ \A q \in Creators \ {p} : creator'[q] = creator[q]
              \/ /\ Put(location(p), filename(p), Missing) /\ dirs' = dirs
                 /\ creator' = [Removed(location(p), filename(p)) EXCEPT ![p] = creator'[p]]
                 /\ creator'[p].opened = "none"
              \/ /\ Put(location(p), filename(p), Link(creator[p].base)) /\ dirs' = dirs
                 /\ location(p) \in dirs /\ file[location(p)][filename(p)] = Missing
                 /\ IsLink(p) /\ creator[p].filepaths /\ creator[p].base \in Locations
                 /\ creator'[p].opened = "none"
                 /\ \A q \in Creators \ {p} : creator'[q] = creator[q]
              \/ /\ Put(Opens(location(p), filename(p)), filename(p), Text("nothing"))
                 /\ dirs' = dirs /\ Opens(location(p), filename(p)) \in dirs /\ ~IsLink(p)
                 /\ creator'[p].opened = Opens(location(p), filename(p))
                 /\ creator'[p].k = creator[p].k /\ creator[p].filepaths
                 /\ \A q \in Creators \ {p} : creator'[q] = creator[q]
              \/ /\ creator[p].opened \in Locations /\ creator[p].pc = "write"
                 /\ Put(creator[p].opened, filename(p), Text(creator[p].text[filename(p)]))
                 /\ dirs' = dirs /\ creator'[p].opened = "none"
                 /\ \A q \in Creators \ {p} : creator'[q] = creator[q]
<1>a. Shape(p) /\ Shape(p)'
  BY AnyEffect DEF TInv
<1>b. creator'[p].pc # "write" => creator'[p].opened = "none"
  BY <1>a DEF Shape
<1>c. creator \in [Creators -> Creator] /\ creator[p] \in Creator
  BY DEF TInv, TypeOK
<1>d. creator[p].pc \in {"file", "symlink", "write", "unlink"} => creator[p].filepaths
  BY <1>a DEF Shape, Creating
<1>f. \A errno \in {"EEXIST", "ENOENT", "EINVAL", "error"} : Fails(p, errno).opened = "none"
  BY <1>c, FailsIs
<1>g. NextFile(p).opened = "none"
  BY <1>c, NextFileIs
<1>1. CASE CallFails(p)
  <2>1. creator'[p].opened = "none"
    <3>1. CASE creator'[p] = Fails(p, "error")
      BY <1>f, <3>1
    <3>2. CASE creator'[p] # Fails(p, "error")
      <4>1. creator'[p] = HasRead(p, "nothing") /\ creator[p].pc = "read"
        BY <1>1, <3>2, CallFailsEffect
      <4>2. creator[p].opened = "none" /\ "nothing" \in Texts
        BY <1>a, <4>1 DEF Shape, Texts
      <4>. QED
        BY <1>c, <4>1, <4>2, HasReadIs
    <3>. QED
      BY <3>1, <3>2
  <2>. QED
    BY <2>1, <1>d, <1>1, CallFailsEffect
<1>2. CASE Crash(p)
  BY <1>b, <1>2, CrashEffect
<1>3. CASE SystemCall(p)
  <2>1. request' = request
    BY <1>3 DEF SystemCall
  <2>2. CASE Check(p) \/ LookUp(p) \/ Read(p) \/ Make(p) \/ Mkdir(p) \/ LookForTarget(p)
             \/ Rmdir(p)
    <3>1. creator'[p].pc # "write"
      <4>1. creator[p].pc \in {"check", "lookup", "read", "make", "mkdir", "file", "rmdir"}
        BY <2>2 DEF Check, LookUp, Read, Make, Mkdir, LookForTarget, Rmdir
      <4>2. CASE Check(p) \/ LookUp(p) \/ Make(p) \/ Mkdir(p) \/ Rmdir(p)
        BY <1>c, <2>1, <4>2, FailsIs, CheckEffect, LookUpEffect, MakeEffect, MkdirEffect,
           RmdirEffect
      <4>3. CASE LookForTarget(p)
        BY <1>c, <2>1, <4>3, NextFileIs, LookForTargetEffect
      <4>4. CASE Read(p)
        <5>1. creator[p].pc = "read"
          BY <4>4 DEF Read
        <5>2. \A errno \in {"EINVAL", "ENOENT"} : Fails(p, errno).pc # "write"
          BY <1>c, FailsIs
        <5>3. \A t \in Texts : HasRead(p, t).pc # "write"
          BY <1>c, <5>1, HasReadIs
        <5>. QED
          BY <2>1, <4>4, <5>2, <5>3, ReadEffect
      <4>. QED
        BY <2>2, <4>2, <4>3, <4>4
    <3>. QED
      BY <1>b, <2>1, <2>2, <3>1, CheckEffect, LookUpEffect, ReadEffect, MakeEffect, MkdirEffect,
         LookForTargetEffect, RmdirEffect
  <2>3. CASE Symlink(p)
    <3>1. creator[p].filepaths
      BY <1>d, <2>3 DEF Symlink
    <3>. QED
      BY <1>f, <1>g, <2>1, <2>3, <3>1, SymlinkEffect
  <2>4. CASE Open(p)
    <3>1. creator[p].filepaths
      BY <1>d, <2>4 DEF Open
    <3>. QED
      BY <1>f, <2>1, <2>4, <3>1, OpenEffect
  <2>5. CASE Write(p)
    <3>1. creator[p].filepaths /\ creator[p].pc = "write"
      BY <1>d, <2>5 DEF Write
    <3>. QED
      BY <1>g, <2>1, <2>5, <3>1, WriteEffect
  <2>6. CASE Unlink(p)
    BY <1>b, <2>1, <2>6, UnlinkEffect
  <2>. QED
    BY <1>3, <2>2, <2>3, <2>4, <2>5, <2>6 DEF SystemCall
<1>. QED
  BY <1>1, <1>2, <1>3 DEF StepOf

LEMMA PlacesInit == Init => Places
<1>. SUFFICES ASSUME Init PROVE Places
  OBVIOUS
<1>1. TypeOK
  BY TypeInit DEF TInv
<1>2. ASSUME NEW l \in Locations \ dirs PROVE file[l] = NoFiles
  <2>1. \A f \in Files : file[l][f] = Missing
    BY <1>2 DEF Init
  <2>. QED
    BY <1>1, <2>1 DEF TypeOK, NoFiles
<1>3. ASSUME NEW l \in Locations, NEW f \in Files PROVE file[l][f].kind # "link"
  <2>1. file[l][f] = Missing \/ file[l][f] = Text(l)
    BY DEF Init
  <2>. QED
    BY <2>1, FileForms DEF Texts
<1>4. \A p \in Creators : creator[p].opened = "none"
  BY DEF Init, Begins
<1>. QED
  BY <1>2, <1>3, <1>4 DEF Places, Locations

LEMMA PlacesNext ==
    ASSUME TInv, Places, NEW p \in Creators, StepOf(p)
    PROVE  Places'
<1>. DEFINE l == location(p)
            f == filename(p)
<1>a. /\ file \in [Locations -> [Files -> File]] /\ creator \in [Creators -> Creator]
      /\ l \in Locations /\ f \in Files /\ Effect(p) /\ TypeOK /\ TInv' /\ Shape(p)
  BY AnyEffect, RequestFacts, OrderFacts, CreatorFields DEF TInv, TypeOK
<1>b. request' = request /\ file' \in [Locations -> [Files -> File]]
      /\ creator' \in [Creators -> Creator]
  BY <1>a DEF Effect
<1>c. \A q \in Creators : filename(q) \in Files /\ filename(q)' \in Files
  BY <1>a, <1>b, OrderFacts, CreatorFields
<1>d. \A q \in Creators \ {p} : filename(q)' = filename(q)
  BY <1>a, OthersFields
<1>e. \A q \in Creators : creator[q].filepaths => creator'[q].filepaths
  BY FilepathsStay
<1>f. "none" \notin Locations /\ "gone" \notin Locations
  BY DEF Locations
<1>g. \/ file' = file
      \/ /\ Put(l, f, Missing)
         /\ creator' = [Removed(l, f) EXCEPT ![p] = creator'[p]]
      \/ /\ Put(l, f, Link(creator[p].base)) /\ file[l][f] = Missing
         /\ creator[p].base \in Locations /\ IsLink(p) /\ creator[p].filepaths
      \/ \E n \in Locations, t \in Texts : Put(n, f, Text(t))
  <2>1. Opens(l, f) \in Locations /\ creator[p].text[f] \in Texts /\ "nothing" \in Texts
    BY <1>a, OpensFacts, CreatorFields DEF Texts
  <2>2. ASSUME Put(Opens(l, f), f, Text("nothing"))
        PROVE  \E n \in Locations, t \in Texts : Put(n, f, Text(t))
    BY <2>1, <2>2
  <2>3. ASSUME creator[p].opened \in Locations,
               Put(creator[p].opened, f, Text(creator[p].text[f]))
        PROVE  \E n \in Locations, t \in Texts : Put(n, f, Text(t))
    BY <2>1, <2>3
  <2>. HIDE <2>1
  <2>4. CASE file' = file
    BY <2>4
  <2>5. CASE /\ Put(l, f, Missing)
             /\ creator' = [Removed(l, f) EXCEPT ![p] = creator'[p]]
    BY <2>5
  <2>6. CASE /\ Put(l, f, Link(creator[p].base)) /\ file[l][f] = Missing
             /\ creator[p].base \in Locations /\ IsLink(p) /\ creator[p].filepaths
    BY <2>6
  <2>. QED
    BY <2>2, <2>3, <2>4, <2>5, <2>6, FileStep
<1>1. ASSUME NEW k \in Locations \ dirs' PROVE file'[k] = NoFiles
  <2>1. CASE file' = file
    <3>1. k \in dirs => file[k] = NoFiles
      <4>1. CASE SystemCall(p)
        BY <1>1, <4>1, CheckEffect, LookUpEffect, ReadEffect, MakeEffect, MkdirEffect,
           LookForTargetEffect, SymlinkEffect, OpenEffect, WriteEffect, UnlinkEffect,
           RmdirEffect DEF SystemCall
      <4>. QED
        BY <1>1, <4>1, CallFailsEffect, CrashEffect DEF StepOf
    <3>. QED
      BY <1>1, <2>1, <3>1 DEF Places
  <2>2. CASE file' # file
    <3>1. dirs' = dirs
      BY <2>2, FileStep
    <3>2. file[k] = NoFiles
      BY <1>1, <3>1 DEF Places
    <3>3. ASSUME NEW what \in File, Put(k, f, what) PROVE what = Missing => file'[k] = NoFiles
      <4>1. \A g \in Files : g # f => file'[k][g] = Missing
        BY <1>a, <3>2, <3>3, PutFacts DEF NoFiles
      <4>2. file'[k][f] = what
        BY <1>a, <3>3, PutFacts
      <4>. QED
        BY <1>b, <4>1, <4>2 DEF NoFiles
    <3>4. CASE Put(l, f, Missing)
      BY <1>a, <3>2, <3>3, <3>4, PutFacts, FileForms
    <3>5. CASE ~Put(l, f, Missing)
      <4>1. PICK m \in dirs, what \in File : Put(m, f, what)
        <5>1. CASE Put(l, f, Link(creator[p].base)) /\ l \in dirs /\ creator[p].base \in Locations
          BY <5>1, FileForms
        <5>2. CASE Put(Opens(l, f), f, Text("nothing")) /\ Opens(l, f) \in dirs
          BY <5>2, FileForms DEF Texts
        <5>3. CASE /\ creator[p].opened \in Locations
                   /\ Put(creator[p].opened, f, Text(creator[p].text[f]))
          <6>1. file[creator[p].opened][f].kind = "file"
            BY <5>3 DEF Places
          <6>2. creator[p].opened \in dirs
            BY <1>a, <5>3, <6>1, FileForms DEF Places, NoFiles
          <6>3. Text(creator[p].text[f]) \in File
            BY <1>a, CreatorFields, FileForms
          <6>. QED
            BY <5>3, <6>2, <6>3
        <5>. QED
          BY <2>2, <3>5, <5>1, <5>2, <5>3, FileStep
      <4>2. m \in Locations /\ m # k
        BY <1>1, <3>1, <4>1 DEF TInv, TypeOK
      <4>. QED
        BY <1>a, <3>2, <4>1, <4>2, PutFacts
    <3>. QED
      BY <3>4, <3>5
  <2>. QED
    BY <2>1, <2>2
<1>2. ASSUME NEW q \in Creators, creator'[q].opened \in Locations
      PROVE  file'[creator'[q].opened][filename(q)'].kind = "file"
  <2>1. CASE q = p
    <3>1. Put(Opens(l, f), f, Text("nothing")) /\ creator'[p].opened = Opens(l, f)
          /\ creator'[p].k = creator[p].k
      BY <1>2, <1>f, <2>1, FileStep
    <3>. QED
      BY <1>a, <2>1, <3>1, PutFacts, FileForms, OpensFacts DEF Texts
  <2>2. CASE q # p
    <3>. DEFINE m == creator[q].opened
                g == filename(q)
    <3>1. creator'[q].opened = m /\ filename(q)' = g /\ m \in Locations /\ g \in Files
      BY <1>2, <1>a, <1>c, <1>d, <1>f, <2>2, OthersFields
    <3>2. file[m][g].kind = "file"
      BY <3>1 DEF Places
    <3>. HIDE DEF m, g
    <3>3. CASE file' = file
      BY <3>1, <3>2, <3>3
    <3>4. CASE /\ Put(l, f, Missing)
               /\ creator' = [Removed(l, f) EXCEPT ![p] = creator'[p]]
      <4>1. ~(m = l /\ g = f)
        <5>1. SUFFICES ASSUME m = l, g = f PROVE FALSE
          OBVIOUS
        <5>2. creator'[q] = [creator[q] EXCEPT !.opened = "gone"]
          BY <2>2, <3>4, <5>1 DEF Removed, m, g
        <5>3. creator'[q].opened = "gone"
          BY <1>a, <5>2 DEF Creator
        <5>. QED
          BY <1>f, <3>1, <5>3
      <4>2. file'[m][g] = file[m][g]
        BY <1>a, <3>1, <3>4, <4>1, PutFacts, FileForms
      <4>. QED
        BY <3>1, <3>2, <4>2
    <3>5. CASE /\ Put(l, f, Link(creator[p].base)) /\ file[l][f] = Missing
               /\ creator[p].base \in Locations
      <4>1. ~(m = l /\ g = f)
        BY <3>2, <3>5, FileForms
      <4>2. file'[m][g] = file[m][g]
        BY <1>a, <3>1, <3>5, <4>1, PutFacts, FileForms
      <4>. QED
        BY <3>1, <3>2, <4>2
    <3>6. ASSUME NEW n \in Locations, NEW t \in Texts, Put(n, f, Text(t))
          PROVE  file'[m][g].kind = "file"
      <4>1. CASE m = n /\ g = f
        BY <1>a, <3>6, <4>1, PutFacts, FileForms
      <4>2. CASE ~(m = n /\ g = f)
        BY <1>a, <3>1, <3>2, <3>6, <4>2, PutFacts, FileForms
      <4>. QED
        BY <4>1, <4>2
    <3>. QED
      BY <1>g, <3>1, <3>3, <3>4, <3>5, <3>6
  <2>. QED
    BY <2>1, <2>2
<1>3. ASSUME NEW k \in Locations, NEW g \in Files, file'[k][g].kind = "link"
      PROVE  \E q \in Creators : /\ creator'[q].filepaths /\ location(q)' = k
                               /\ request'[q].base # "none" /\ g \in request'[q].links
  <2>1. CASE file[k][g].kind = "link"
    BY <1>b, <1>e, <2>1 DEF Places
  <2>2. CASE file[k][g].kind # "link"
    <3>1. file'[k][g] # file[k][g]
      BY <1>3, <2>2
    <3>2. ASSUME NEW n \in Locations, NEW what \in File, Put(n, f, what)
          PROVE  k = n /\ g = f /\ what.kind = "link"
      BY <1>a, <1>3, <3>1, <3>2, PutFacts
    <3>4. Missing \in File /\ Missing.kind # "link"
          /\ \A t \in Texts : Text(t) \in File /\ Text(t).kind # "link"
          /\ \A n \in Locations : Link(n) \in File
      BY FileForms
    <3>5. k = l /\ g = f /\ IsLink(p) /\ creator[p].filepaths
      BY <1>a, <1>g, <3>1, <3>2, <3>4
    <3>. QED
      BY <1>b, <1>e, <3>5 DEF IsLink
  <2>. QED
    BY <2>1, <2>2
<1>. QED
  BY <1>1, <1>2, <1>3 DEF Places

-----------------------------------------------------------------------------
(* Without a contest.                                                      *)

LEMMA TakesPartIs ==
    ASSUME TInv, NEW p \in Creators
    PROVE  TakesPart(p) <=> creator[p].filepaths
<1>1. Shape(p) /\ creator[p].filepaths \in BOOLEAN
  BY CreatorFields DEF TInv, TypeOK
<1>. QED
  BY <1>1 DEF TakesPart, Refused, Shape

LEMMA TakesPartWillBe ==
    ASSUME TInv', NEW p \in Creators
    PROVE  TakesPart(p)' <=> creator'[p].filepaths
<1>1. Shape(p)' /\ creator'[p].filepaths \in BOOLEAN
  BY CreatorFields DEF TInv, TypeOK
<1>. QED
  BY <1>1 DEF TakesPart, Refused, Shape

LEMMA NoContestIs == TInv =>
    (NoContest <=> \A p, q \in Creators :
        p # q /\ creator[p].filepaths /\ creator[q].filepaths => location(p) # location(q))
BY TakesPartIs DEF NoContest

LEMMA NoContestWillBe == TInv' =>
    (NoContest' <=> \A p, q \in Creators :
        p # q /\ creator'[p].filepaths /\ creator'[q].filepaths => location(p)' # location(q)')
BY TakesPartWillBe DEF NoContest

LEMMA NoContestBefore ==
    ASSUME TInv, NEW p \in Creators, StepOf(p), NoContest'
    PROVE  NoContest
<1>1. TInv' /\ request' = request
  BY AnyEffect DEF Effect
<1>. QED
  BY <1>1, NoContestIs, NoContestWillBe, FilepathsStay

(* What a creator writes to is a file of its own.                          *)
LEMMA OwnOpen ==
    ASSUME TInv, Places, NoContest, NEW p \in Creators, creator[p].filepaths, ~IsLink(p)
    PROVE  Opens(location(p), filename(p)) = location(p)
<1>. DEFINE l == location(p)
            f == filename(p)
<1>a. /\ file \in [Locations -> [Files -> File]] /\ l \in Locations /\ f \in Files
  BY RequestFacts, OrderFacts, CreatorFields DEF TInv, TypeOK
<1>1. SUFFICES ASSUME file[l][f].kind = "link" PROVE FALSE
  BY <1>a, OpensFacts
<1>2. PICK q \in Creators : /\ creator[q].filepaths /\ location(q) = l
                           /\ request[q].base # "none" /\ f \in request[q].links
  BY <1>a, <1>1 DEF Places
<1>3. q = p
  BY <1>2, NoContestIs
<1>. QED
  BY <1>2, <1>3 DEF IsLink

(* A step that makes no part of the profile at l leaves it alone, and only *)
(* empty directories go.                                                   *)
LEMMA OwnFiles ==
    ASSUME TInv, Places, NoContest, \A q \in Creators : Alone(q),
           NEW p \in Creators, StepOf(p)
    PROVE  /\ \A q \in Creators \ {p} : creator'[q] = creator[q]
           /\ \A l \in Locations \ {location(p)} :
                 file'[l] = file[l] /\ (l \in dirs' <=> l \in dirs)
           /\ file' = file \/ \E what \in File : Put(location(p), filename(p), what)
           /\ ~creator[p].filepaths =>
                 /\ file' = file /\ dirs' \subseteq dirs
                 /\ file[location(p)] # NoFiles => dirs' = dirs
<1>. DEFINE l == location(p)
            f == filename(p)
<1>a. /\ file \in [Locations -> [Files -> File]] /\ creator \in [Creators -> Creator]
      /\ l \in Locations /\ f \in Files /\ Effect(p) /\ TypeOK /\ Shape(p)
  BY AnyEffect, RequestFacts, OrderFacts, CreatorFields DEF TInv, TypeOK
<1>1. ASSUME NEW q \in Creators \ {p}, creator[q].opened = l
      PROVE  ~creator[p].filepaths
  <2>1. creator[q].pc = "write" /\ creator[q].filepaths
    <3>1. Shape(q)
      BY DEF TInv
    <3>. QED
      BY <1>a, <1>1, <3>1 DEF Shape, Creating, Locations
  <2>2. location(q) = l
    BY <1>1, <2>1 DEF Alone
  <2>. QED
    BY <2>1, <2>2, NoContestIs
<1>2. ASSUME creator[p].filepaths
      PROVE  \A q \in Creators \ {p} : creator'[q] = creator[q]
  BY <1>a, <1>1, <1>2 DEF Effect, OthersStay
<1>3. ASSUME ~creator[p].filepaths
      PROVE  file' = file /\ \A q \in Creators \ {p} : creator'[q] = creator[q]
  <2>1. creator[p].pc \in {"check", "rmdir", "done", "killed"}
    BY <1>a, <1>3 DEF Shape
  <2>2. Check(p) \/ Rmdir(p) \/ Crash(p)
    BY <2>1 DEF StepOf, SystemCall, CallFails, LookUp, Read, Make, Mkdir, LookForTarget,
                Symlink, Open, Write, Unlink
  <2>. QED
    BY <1>a, <2>2, CheckEffect, RmdirEffect, CrashEffect DEF Effect
<1>4. file' = file \/ \E what \in File : Put(l, f, what)
  <2>1. CASE Put(Opens(l, f), f, Text("nothing")) /\ ~IsLink(p) /\ creator[p].filepaths
    <3>1. Opens(l, f) = l
      BY <2>1, OwnOpen
    <3>. QED
      BY <2>1, <3>1, FileForms DEF Texts
  <2>2. CASE /\ creator[p].opened \in Locations /\ creator[p].pc = "write"
             /\ Put(creator[p].opened, f, Text(creator[p].text[f]))
    <3>1. creator[p].opened = l
      BY <2>2 DEF Alone
    <3>. QED
      BY <1>a, <2>2, <3>1, CreatorFields, FileForms
  <2>3. Missing \in File /\ \A k \in Locations : Link(k) \in File
    BY FileForms
  <2>. QED
    BY <2>1, <2>2, <2>3, FileStep
<1>5. ASSUME NEW k \in Locations \ {l} PROVE file'[k] = file[k]
  BY <1>a, <1>4, <1>5, PutFacts
<1>6. /\ \A k \in Locations \ {l} : k \in dirs' <=> k \in dirs
      /\ ~creator[p].filepaths => dirs' \subseteq dirs /\ (file[l] # NoFiles => dirs' = dirs)
  <2>1. CASE SystemCall(p)
    <3>1. request' = request
      BY <2>1 DEF SystemCall
    <3>2. CASE Mkdir(p)
      <4>1. creator[p].filepaths
        BY <1>a, <3>2 DEF Mkdir, Shape, Creating
      <4>. QED
        BY <3>1, <3>2, <4>1, MkdirEffect
    <3>3. CASE Rmdir(p)
      BY <3>1, <3>3, RmdirEffect
    <3>4. CASE ~Mkdir(p) /\ ~Rmdir(p)
      BY <2>1, <3>1, <3>4, CheckEffect, LookUpEffect, ReadEffect, MakeEffect,
         LookForTargetEffect, SymlinkEffect, OpenEffect, WriteEffect, UnlinkEffect DEF SystemCall
    <3>. QED
      BY <3>2, <3>3, <3>4
  <2>2. CASE CallFails(p) \/ Crash(p)
    BY <2>2, CallFailsEffect, CrashEffect
  <2>. QED
    BY <2>1, <2>2 DEF StepOf
<1>. QED
  BY <1>a, <1>2, <1>3, <1>4, <1>5, <1>6, CreatorFields

LEMMA CleanInit == Init => IClean
<1>. SUFFICES ASSUME Init, NEW p \in Creators PROVE Alone(p)
  BY PlacesInit DEF IClean
<1>1. creator[p] = Begins
  BY DEF Init
<1>. QED
  BY <1>1 DEF Alone, Begins

LEMMA OthersAlone ==
    ASSUME TInv, Places, NoContest', \A q \in Creators : Alone(q),
           NEW p \in Creators, StepOf(p), NEW q \in Creators \ {p}
    PROVE  Alone(q)'
<1>1. /\ NoContest /\ TInv' /\ request' = request /\ Shape(q) /\ Shape(q)'
      /\ location(q) \in Locations /\ Alone(q) /\ creator[q] \in Creator
  BY NoContestBefore, AnyEffect, RequestFacts DEF Effect, TInv, TypeOK
<1>2. creator'[q] = creator[q]
  BY <1>1, OwnFiles
<1>3. CASE ~creator[q].filepaths
  BY <1>1, <1>2, <1>3 DEF Alone, Shape, Creating
<1>4. CASE creator[q].filepaths /\ location(q) # location(p)
  <2>1. file'[location(q)] = file[location(q)] /\ (location(q) \in dirs' <=> location(q) \in dirs)
    BY <1>1, <1>4, OwnFiles
  <2>. QED
    BY <1>1, <1>2, <2>1 DEF Alone
<1>5. CASE creator[q].filepaths /\ location(q) = location(p)
  <2>1. ~creator[p].filepaths
    BY <1>1, <1>5, NoContestIs
  <2>2. file' = file /\ dirs' \subseteq dirs
    BY <1>1, <2>1, OwnFiles
  <2>. QED
    BY <1>1, <1>2, <2>2 DEF Alone
<1>. QED
  BY <1>1, <1>3, <1>4, <1>5

LEMMA SelfAlone ==
    ASSUME TInv, Places, NoContest', \A q \in Creators : Alone(q),
           NEW p \in Creators, StepOf(p)
    PROVE  Alone(p)'
<1>. DEFINE l == location(p)
<1>a. /\ NoContest /\ TInv' /\ request' = request /\ Shape(p) /\ Shape(p)' /\ Alone(p)
      /\ creator \in [Creators -> Creator] /\ creator[p] \in Creator /\ creator'[p] \in Creator
      /\ l \in Locations /\ file' \in [Locations -> [Files -> File]]
      /\ file \in [Locations -> [Files -> File]] /\ "nothing" \in Texts
  BY NoContestBefore, AnyEffect, RequestFacts DEF Effect, TInv, TypeOK, Texts
<1>b. Len(Order) \in Nat /\ creator[p].k \in 1..Len(Order)
  BY <1>a, OrderFacts, CreatorFields DEF Indices
<1>c. \A i \in Indices : i \in Nat /\ i >= 1
  BY <1>b DEF Indices
<1>f. ASSUME NEW errno \in {"EEXIST", "ENOENT", "EINVAL", "error"}, creator'[p] = Fails(p, errno)
      PROVE  Alone(p)'
  <2>1. creator'[p].pc = (IF creator[p].filepaths THEN "unlink" ELSE "rmdir")
        /\ creator'[p].k = 1 /\ creator'[p].filepaths = creator[p].filepaths
    BY <1>a, <1>f, FailsIs
  <2>. QED
    BY <1>c, <2>1 DEF Alone
<1>g. ASSUME creator'[p] = NextFile(p) PROVE Alone(p)'
  <2>1. NextFile(p).pc = "file" \/ (NextFile(p).pc = "done" /\ NextFile(p).ret = "EOK")
    BY <1>a, NextFileIs
  <2>. QED
    BY <1>g, <2>1 DEF Alone
<1>h. ASSUME NEW t \in Texts, creator'[p] = HasRead(p, t), creator[p].pc = "read",
             dirs' = dirs, creator[p].filepaths
      PROVE  Alone(p)'
  <2>0. HasRead(p, t).pc \in {"read", "make"}
    BY <1>a, <1>h, HasReadIs
  <2>1. creator'[p].pc \in {"read", "make"}
    BY <1>h, <2>0
  <2>2. l \notin dirs
    BY <1>a, <1>h DEF Alone
  <2>. QED
    BY <1>a, <1>h, <2>1, <2>2 DEF Alone
<1>1. CASE SystemCall(p)
  <2>a. request' = request
    BY <1>1 DEF SystemCall
  <2>1. CASE Check(p)
    BY <1>a, <1>f, <2>a, <2>1, CheckEffect DEF Alone
  <2>2. CASE LookUp(p)
    <3>1. creator[p].pc = "lookup" /\ creator[p].filepaths
      BY <1>a, <2>2 DEF LookUp, Shape, Creating
    <3>. QED
      BY <1>a, <1>f, <2>a, <2>2, <3>1, LookUpEffect DEF Alone
  <2>3. CASE Read(p)
    <3>1. creator[p].pc = "read" /\ creator[p].filepaths
      BY <1>a, <2>3 DEF Read, Shape, Creating
    <3>. QED
      BY <1>f, <1>h, <2>a, <2>3, <3>1, ReadEffect
  <2>4. CASE Make(p)
    <3>1. creator[p].pc = "make" /\ creator[p].filepaths
      BY <1>a, <2>4 DEF Make, Shape, Creating
    <3>. QED
      BY <1>a, <2>a, <2>4, <3>1, MakeEffect DEF Alone
  <2>5. CASE Mkdir(p)
    <3>1. creator'[p] = Fails(p, "EEXIST") \/ creator'[p].pc = "file"
      BY <2>a, <2>5, MkdirEffect
    <3>. QED
      BY <1>f, <3>1 DEF Alone
  <2>6. CASE LookForTarget(p)
    <3>1. creator'[p] = NextFile(p) \/ creator'[p].pc = "symlink"
      BY <2>a, <2>6, LookForTargetEffect
    <3>. QED
      BY <1>g, <3>1 DEF Alone
  <2>7. CASE Symlink(p) \/ Write(p)
    BY <1>f, <1>g, <2>a, <2>7, SymlinkEffect, WriteEffect
  <2>8. CASE Open(p)
    <3>1. CASE creator'[p].pc = "write"
      <4>1. creator'[p].opened = Opens(l, filename(p)) /\ ~IsLink(p) /\ creator[p].filepaths
        <5>1. creator[p].filepaths /\ Fails(p, "ENOENT").pc # "write"
          BY <1>a, <2>8, FailsIs DEF Open, Shape, Creating
        <5>. QED
          BY <1>a, <2>a, <2>8, <3>1, <5>1, OpenEffect
      <4>3. creator'[p].opened = l
        BY <1>a, <4>1, OwnOpen
      <4>. QED
        BY <2>a, <3>1, <4>3 DEF Alone
    <3>. QED
      BY <1>f, <2>a, <2>8, <3>1, OpenEffect
  <2>9. CASE Unlink(p)
    <3>1. /\ Put(l, filename(p), Missing) /\ filename(p) \in Files /\ creator[p].pc = "unlink"
          /\ \/ /\ creator'[p].pc = "unlink" /\ creator[p].k < Len(Order)
                /\ creator'[p].k = creator[p].k + 1
             \/ creator'[p].pc = "rmdir" /\ creator[p].k = Len(Order)
      BY <1>a, <2>a, <2>9, UnlinkEffect, OrderFacts, CreatorFields DEF Unlink
    <3>2. creator[p].filepaths
      BY <1>a, <3>1 DEF Shape
    <3>3. \A i \in Indices : i < creator[p].k => file[l][Order[i]] = Missing
      BY <1>a, <3>1, <3>2 DEF Alone
    <3>4. \A i \in Indices : i <= creator[p].k => file'[l][Order[i]] = Missing
      <4>1. ASSUME NEW i \in Indices, i <= creator[p].k PROVE file'[l][Order[i]] = Missing
        <5>1. CASE i = creator[p].k
          BY <1>a, <3>1, <5>1, PutFacts, FileForms
        <5>2. CASE i # creator[p].k
          <6>1. file[l][Order[i]] = Missing /\ Order[i] \in Files
            BY <1>b, <1>c, <3>3, <4>1, <5>2, OrderFacts
          <6>. QED
            BY <1>a, <3>1, <6>1, PutFacts, FileForms
        <5>. QED
          BY <5>1, <5>2
      <4>. QED
        BY <4>1
    <3>5. CASE creator'[p].pc = "unlink" /\ creator'[p].k = creator[p].k + 1
      <4>1. \A i \in Indices : i < creator'[p].k => file'[l][Order[i]] = Missing
        BY <1>b, <1>c, <3>4, <3>5
      <4>. QED
        BY <2>a, <3>5, <4>1 DEF Alone
    <3>6. CASE creator'[p].pc = "rmdir" /\ creator[p].k = Len(Order)
      <4>1. \A i \in Indices : i <= Len(Order)
        BY <1>b DEF Indices
      <4>2. \A f \in Files : file'[l][f] = Missing
        BY <3>4, <3>6, <4>1, OrderFacts
      <4>3. file'[l] = NoFiles
        BY <1>a, <4>2 DEF NoFiles
      <4>. QED
        BY <2>a, <3>6, <4>3 DEF Alone
    <3>. QED
      BY <3>1, <3>5, <3>6
  <2>10. CASE Rmdir(p)
    <3>1. CASE creator[p].filepaths
      <4>1. file[l] = NoFiles
        BY <1>a, <2>10, <3>1 DEF Alone, Rmdir
      <4>. QED
        BY <1>a, <2>a, <2>10, <4>1, RmdirEffect DEF Alone
    <3>2. CASE ~creator[p].filepaths
      BY <1>a, <2>a, <2>10, <3>2, RmdirEffect DEF Alone, Same
    <3>. QED
      BY <3>1, <3>2
  <2>. QED
    BY <1>1, <2>1, <2>2, <2>3, <2>4, <2>5, <2>6, <2>7, <2>8, <2>9, <2>10 DEF SystemCall
<1>2. CASE CallFails(p)
  <2>1. CASE creator'[p] = Fails(p, "error")
    BY <1>f, <2>1
  <2>2. CASE creator'[p] # Fails(p, "error")
    BY <1>a, <1>h, <1>2, <2>2, CallFailsEffect
  <2>. QED
    BY <2>1, <2>2
<1>3. CASE Crash(p)
  BY <1>3, CrashEffect DEF Alone
<1>. QED
  BY <1>1, <1>2, <1>3 DEF StepOf

LEMMA CleanNext == TInv /\ IClean /\ [Next]_vars => IClean'
<1>. SUFFICES ASSUME TInv, IClean, [Next]_vars PROVE IClean'
  OBVIOUS
<1>1. CASE UNCHANGED vars
  BY <1>1 DEF IClean, Places, NoContest, TakesPart, Refused, Alone, vars
<1>2. ASSUME NEW p \in Creators, StepOf(p) PROVE IClean'
  <2>1. Places'
    BY <1>2, PlacesNext DEF IClean
  <2>2. ASSUME NoContest', NEW q \in Creators PROVE Alone(q)'
    <3>1. \A r \in Creators : Alone(r)
      BY <1>2, <2>2, NoContestBefore DEF IClean
    <3>. QED
      BY <1>2, <2>2, <3>1, OthersAlone, SelfAlone DEF IClean
  <2>. QED
    BY <2>1, <2>2 DEF IClean
<1>. QED
  BY <1>1, <1>2 DEF Next, StepOf

LEMMA Clean == Spec => [](TInv /\ IClean)
<1>1. Init => TInv /\ IClean
  BY TypeInit, CleanInit
<1>2. TInv /\ IClean /\ [Next]_vars => (TInv /\ IClean)'
  BY TypeNext, CleanNext
<1>. QED
  BY <1>1, <1>2, PTL DEF Spec

(* A creation that fails leaves neither a file nor the directory behind,   *)
(* whichever call failed, as long as no two creators make one profile.     *)
THEOREM FailuresAreCleanedUp == Spec => []FailureLeavesNothing
<1>1. TInv /\ IClean => FailureLeavesNothing
  <2>. SUFFICES ASSUME TInv, IClean, NoContest, NEW p \in Creators, At(p, "done"),
                       creator[p].ret # "EOK", ~Refused(p)
                PROVE  location(p) \notin dirs /\ file[location(p)] = NoFiles
    BY DEF FailureLeavesNothing
  <2>1. creator[p].filepaths /\ Alone(p) /\ location(p) \in Locations
    BY RequestFacts DEF IClean, TInv, Shape, Refused
  <2>2. location(p) \notin dirs
    BY <2>1 DEF Alone
  <2>. QED
    BY <2>1, <2>2 DEF IClean, Places
<1>. QED
  BY <1>1, Clean, PTL

(* A profile that nobody is creating stays, file by file, whatever the     *)
(* creators of other profiles and refused creators do.                     *)
THEOREM SettledProfilesStay == Spec => SettledStay
<1>. DEFINE Stays ==
       \A l \in dirs :
          /\ file[l] # NoFiles
          /\ \A p \in Working(l) : creator[p].pc \in {"done", "killed"}
          /\ NoContest
          => l \in dirs' /\ file'[l] = file[l]
<1>1. TInv /\ IClean /\ [Next]_vars => Stays \/ UNCHANGED vars
  <2>. SUFFICES ASSUME TInv, IClean, NEW p \in Creators, StepOf(p), NoContest,
                       NEW l \in dirs, file[l] # NoFiles,
                       \A q \in Working(l) : creator[q].pc \in {"done", "killed"}
                PROVE  l \in dirs' /\ file'[l] = file[l]
    BY DEF Next, StepOf
  <2>1. l \in Locations /\ \A q \in Creators : Alone(q)
    BY DEF TInv, TypeOK, IClean
  <2>2. CASE l # location(p)
    BY <2>1, <2>2, OwnFiles DEF IClean
  <2>3. CASE l = location(p)
    <3>1. creator[p].pc \notin {"done", "killed"}
      BY DEF StepOf, SystemCall, Check, LookUp, Read, Make, Mkdir, LookForTarget, Symlink,
             Open, Write, Unlink, Rmdir, CallFails, Crash
    <3>2. ~creator[p].filepaths
      BY <2>3, <3>1, TakesPartIs DEF Working
    <3>. QED
      BY <2>1, <2>3, <3>2, OwnFiles DEF IClean
  <2>. QED
    BY <2>2, <2>3
<1>2. SettledStay <=> [][Stays]_vars
  BY DEF SettledStay
<1>. QED
  BY <1>1, <1>2, Clean, PTL DEF Spec

-----------------------------------------------------------------------------
(* The copy.                                                               *)

LEMMA NothingReadNext ==
    ASSUME TInv, NEW p \in Creators, StepOf(p), NEW q \in Creators, NothingRead(q)
    PROVE  NothingRead(q)'
<1>a. /\ creator \in [Creators -> Creator] /\ Effect(p) /\ Shape(p) /\ "none" \notin Locations
      /\ "nothing" \in Texts
  BY AnyEffect DEF TInv, TypeOK, Locations, Texts
<1>1. CASE q # p
  BY <1>1, <1>a, OthersFields DEF NothingRead
<1>2. CASE q = p
  <2>1. ASSUME creator'[p].base = creator[p].base, creator'[p].text = creator[p].text
        PROVE  NothingRead(p)'
    BY <1>2, <2>1 DEF NothingRead
  <2>2. ASSUME creator'[p].base \in Locations
        PROVE  NothingRead(p)'
    BY <1>a, <2>2 DEF NothingRead
  <2>3. ASSUME NEW errno \in {"EEXIST", "ENOENT", "EINVAL", "error"},
               creator'[p] = Fails(p, errno)
        PROVE  NothingRead(p)'
    BY <1>a, <2>1, <2>3, FailsIs
  <2>4. ASSUME creator'[p] = NextFile(p) PROVE NothingRead(p)'
    BY <1>a, <2>1, <2>4, NextFileIs
  <2>5. ASSUME NEW t \in Texts, creator'[p] = HasRead(p, t), creator[p].pc = "read"
        PROVE  NothingRead(p)'
    <3>1. creator[p].base \in Locations
      BY <1>a, <2>5 DEF Shape, Creating
    <3>2. HasRead(p, t).base = creator[p].base
      BY <1>a, HasReadIs
    <3>. QED
      BY <2>2, <2>5, <3>1, <3>2
  <2>6. CASE SystemCall(p)
    <3>a. request' = request
      BY <2>6 DEF SystemCall
    <3>1. CASE Check(p)
      BY <1>2, <2>1, <2>3, <3>a, <3>1, CheckEffect
    <3>2. CASE LookUp(p)
      <4>1. creator'[p].base \in dirs => creator'[p].base \in Locations
        BY DEF TInv, TypeOK
      <4>. QED
        BY <1>2, <2>2, <2>3, <3>a, <3>2, <4>1, LookUpEffect
    <3>3. CASE Read(p)
      <4>1. creator[p].pc = "read"
        BY <3>3 DEF Read
      <4>. QED
        BY <1>2, <2>3, <2>5, <3>a, <3>3, <4>1, ReadEffect
    <3>4. CASE Make(p) \/ Mkdir(p) \/ LookForTarget(p) \/ Open(p) \/ Unlink(p) \/ Rmdir(p)
      BY <1>2, <2>1, <2>3, <2>4, <3>a, <3>4, MakeEffect, MkdirEffect, LookForTargetEffect,
         OpenEffect, UnlinkEffect, RmdirEffect DEF Same
    <3>5. CASE Symlink(p) \/ Write(p)
      BY <1>2, <2>3, <2>4, <3>a, <3>5, SymlinkEffect, WriteEffect
    <3>. QED
      BY <1>2, <2>6, <3>1, <3>2, <3>3, <3>4, <3>5 DEF SystemCall
  <2>7. CASE CallFails(p)
    BY <1>2, <1>a, <2>3, <2>5, <2>7, CallFailsEffect
  <2>8. CASE Crash(p)
    BY <1>2, <2>1, <2>8, CrashEffect DEF Same
  <2>. QED
    BY <2>6, <2>7, <2>8 DEF StepOf
<1>. QED
  BY <1>1, <1>2

(* A creator that is lucky after a step was so before, or has just begun.  *)
LEMMA LuckyBefore ==
    ASSUME TInv, NEW p \in Creators, StepOf(p), NEW q \in Creators, Lucky(q)'
    PROVE  /\ NoContest /\ faults = MaxFaults /\ SystemCall(p) /\ request' = request
           /\ \A l \in Bases(q) : ~RivalAt(q, l)
           /\ creator[q].filepaths => Lucky(q)
<1>a. TInv' /\ Effect(p) /\ faults \in 0..MaxFaults /\ request' = request
  BY AnyEffect DEF TInv, TypeOK, Effect
<1>1. NoContest
  BY NoContestBefore DEF Lucky
<1>2. faults = MaxFaults /\ SystemCall(p)
  BY <1>a, FaultsAssumption DEF Lucky, StepOf, SystemCall, CallFails, Crash
<1>3. ASSUME NEW l \in Bases(q) PROVE ~RivalAt(q, l)
  <2>1. l \in Bases(q)'
    BY <1>a, <1>3 DEF Bases
  <2>2. ~RivalAt(q, l)'
    BY <2>1 DEF Lucky
  <2>. QED
    BY <1>a, <2>2, TakesPartIs, TakesPartWillBe, FilepathsStay DEF RivalAt
<1>. QED
  BY <1>a, <1>1, <1>2, <1>3 DEF Lucky

(* A base that nobody creates has no links, and its files have the texts   *)
(* that are in them.                                                       *)
LEMMA PlainBase ==
    ASSUME TInv, Places, NEW p \in Creators, \A l \in Bases(p) : ~RivalAt(p, l),
           NEW b \in Bases(p), b # location(p), NEW f \in Files
    PROVE  /\ b \in Locations /\ file[b][f].kind # "link" /\ Opens(b, f) = b
           /\ Content(b, f) = file[b][f].from /\ (Exists(b, f) <=> file[b][f] # Missing)
<1>1. b \in Locations
  BY RequestFacts, BasesFacts DEF TInv, BaseIds, Locations
<1>2. file[b][f].kind # "link"
  BY <1>1, TakesPartIs DEF Places, RivalAt
<1>. QED
  BY <1>1, <1>2, OpensFacts DEF TInv, TypeOK

(* Which directories tell where a base is found.                           *)
LEMMA SameFound ==
    ASSUME TInv, NEW p \in Creators, NEW among, NEW others,
           \/ \A l \in Bases(p) : l \in others <=> l \in among
           \/ /\ others \subseteq among
              /\ Found(request[p].base, among) \in others
    PROVE  Found(request[p].base, others) = Found(request[p].base, among)
<1>1. request[p].base \in BaseIds
  BY RequestFacts DEF TInv
<1>. QED
  BY <1>1, FoundFacts, BasesFacts DEF BaseIds

LEMMA BaseStays ==
    ASSUME TInv, IClean, NEW p \in Creators, StepOf(p), NEW q \in Creators, Lucky(q)',
           creator[q].base # "none", Based(q), creator'[q].base = creator[q].base
    PROVE  /\ file'[creator[q].base] = file[creator[q].base] /\ Based(q)'
           /\ \A f \in Files :
                 /\ file[creator[q].base][f].kind # "link"
                 /\ Content(creator[q].base, f)' = Content(creator[q].base, f)
                 /\ Exists(creator[q].base, f)' = Exists(creator[q].base, f)
<1>. DEFINE b == creator[q].base
<1>a. /\ NoContest /\ request' = request /\ Places /\ \A r \in Creators : Alone(r)
      /\ \A l \in Bases(q) : ~RivalAt(q, l)
      /\ b \in Bases(q) /\ b # location(q)
  BY LuckyBefore DEF IClean, Based
<1>c. \A l \in Bases(q) : l \in Locations
  BY RequestFacts, BasesFacts DEF TInv, BaseIds, Locations
<1>b. b \in Locations /\ \A f \in Files : file[b][f].kind # "link"
  <2>1. ASSUME NEW f \in Files PROVE file[b][f].kind # "link"
    BY <1>a, PlainBase
  <2>. QED
    BY <1>a, <1>c, <2>1
<1>1. ASSUME creator[p].filepaths, NEW l \in Bases(q), l # location(q)
      PROVE  l # location(p)
  BY <1>a, <1>1, TakesPartIs DEF RivalAt
<1>2. file'[b] = file[b]
  <2>1. CASE creator[p].filepaths
    BY <1>a, <1>b, <1>1, <2>1, OwnFiles
  <2>2. CASE ~creator[p].filepaths
    BY <1>a, <2>2, OwnFiles
  <2>. QED
    BY <2>1, <2>2
<1>3. ASSUME NEW f \in Files
      PROVE  Content(b, f)' = Content(b, f) /\ Exists(b, f)' = Exists(b, f)
  BY <1>b, <1>2 DEF Content, Exists, Opens
<1>4. Based(q)'
  <2>1. Bases(q)' = Bases(q) /\ location(q)' = location(q)
    BY <1>a DEF Bases
  <2>2. ASSUME file[b] # NoFiles
        PROVE  b \in dirs' /\ b = Found(request[q].base, dirs' \ {location(q)})
    <3>1. b \in dirs /\ b = Found(request[q].base, dirs \ {location(q)})
      BY <2>2 DEF Based
    <3>2. CASE creator[p].filepaths \/ p = q
      <4>1. \A l \in Bases(q) : l # location(q) => (l \in dirs' <=> l \in dirs)
        BY <1>a, <1>c, <1>1, <3>2, OwnFiles
      <4>2. \A l \in Bases(q) : l \in dirs' \ {location(q)} <=> l \in dirs \ {location(q)}
        BY <4>1
      <4>. QED
        BY <1>a, <3>1, <4>1, <4>2, SameFound
    <3>3. CASE ~creator[p].filepaths
      <4>1. dirs' \subseteq dirs /\ b \in dirs'
        BY <1>a, <1>b, <2>2, <3>1, <3>3, OwnFiles
      <4>2. dirs' \ {location(q)} \subseteq dirs \ {location(q)}
            /\ Found(request[q].base, dirs \ {location(q)}) \in dirs' \ {location(q)}
        BY <1>a, <3>1, <4>1
      <4>. QED
        BY <3>1, <4>1, <4>2, SameFound
    <3>. QED
      BY <3>2, <3>3
  <2>3. Found(request[q].base, dirs \ {location(q)})'
           = Found(request[q].base, dirs' \ {location(q)})
    BY <1>a DEF Found, Lookup
  <2>. QED
    BY <1>a, <1>2, <2>1, <2>2, <2>3 DEF Based
<1>. QED
  BY <1>b, <1>2, <1>3, <1>4

LEMMA CopiedStays ==
    ASSUME TInv, IClean, NEW p \in Creators, StepOf(p), NEW q \in Creators, Lucky(q)',
           creator[q].base # "none" => Based(q), creator'[q].base = creator[q].base,
           NEW f \in Files
    PROVE  Copied(q, f)' = Copied(q, f)
<1>1. request' = request
  BY LuckyBefore
<1>2. CASE creator[q].base = "none"
  BY <1>2 DEF Copied
<1>3. CASE creator[q].base # "none"
  <2>1. /\ Content(creator[q].base, f)' = Content(creator[q].base, f)
        /\ Exists(creator[q].base, f)' = Exists(creator[q].base, f)
    BY <1>3, BaseStays
  <2>. QED
    BY <1>1, <1>3, <2>1 DEF Copied
<1>. QED
  BY <1>2, <1>3

LEMMA OthersCopying ==
    ASSUME TInv, IClean, ICopy, NEW p \in Creators, StepOf(p), NEW q \in Creators \ {p},
           Lucky(q)'
    PROVE  Copying(q)'
<1>. DEFINE c == creator[q]
            l == location(q)
<1>a. /\ NoContest /\ request' = request /\ Places /\ \A r \in Creators : Alone(r)
  BY LuckyBefore DEF IClean
<1>1. creator'[q] = c /\ filename(q)' = filename(q) /\ location(q)' = l /\ l \in Locations
  BY <1>a, OwnFiles, RequestFacts DEF TInv
<1>2. c.filepaths
  BY <1>1 DEF Lucky
<1>3. Copying(q)
  BY <1>2, LuckyBefore DEF ICopy
<1>4. file'[l] = file[l]
  <2>1. CASE l # location(p)
    BY <1>a, <1>1, <2>1, OwnFiles
  <2>2. CASE l = location(p)
    <3>1. ~creator[p].filepaths
      BY <1>a, <1>2, <2>2, NoContestIs
    <3>. QED
      BY <1>a, <3>1, OwnFiles
  <2>. QED
    BY <2>1, <2>2
<1>5. c.base # "none" =>
         /\ Based(q) /\ Based(q)'
         /\ \A f \in Files : /\ Content(c.base, f)' = Content(c.base, f)
                             /\ Exists(c.base, f)' = Exists(c.base, f)
  BY <1>1, <1>3, BaseStays DEF Copying
<1>6. \A f \in Files : Copied(q, f)' = Copied(q, f)
  BY <1>1, <1>5, CopiedStays
<1>7. \A i \in Indices : Order[i] \in Files
  BY OrderFacts
<1>8. filename(q) \in Files /\ README \in Files
  BY OrderFacts, OrderAssumption, CreatorFields DEF TInv, TypeOK
<1>9. Shape(q) /\ "none" \notin Locations
  BY DEF TInv, Locations
<1>10. c.pc \in {"read", "symlink"} => c.base # "none"
  BY <1>9 DEF Shape, Creating, IsLink
<1>. QED
  BY <1>1, <1>3, <1>4, <1>5, <1>6, <1>7, <1>8, <1>10 DEF Copying

(* The steps of the creator itself: what stays, ...                        *)
LEMMA SelfStays ==
    ASSUME TInv, IClean, NEW p \in Creators, StepOf(p), Lucky(p)', Copying(p),
           creator'[p].base = creator[p].base
    PROVE  /\ creator'[p].base # "none" =>
                 /\ Based(p)'
                 /\ \A f \in Files : Content(creator[p].base, f)' = Content(creator[p].base, f)
                 /\ \A f \in Files : Exists(creator[p].base, f)' = Exists(creator[p].base, f)
           /\ \A f \in Files : Copied(p, f)' = Copied(p, f)
<1>1. creator[p].base # "none" => Based(p)
  BY DEF Copying
<1>2. CASE creator[p].base # "none"
  <2>1. Based(p)' /\ \A f \in Files :
           /\ Content(creator[p].base, f)' = Content(creator[p].base, f)
           /\ Exists(creator[p].base, f)' = Exists(creator[p].base, f)
    BY <1>1, <1>2, BaseStays
  <2>. QED
    BY <1>1, <2>1, CopiedStays
<1>3. CASE creator[p].base = "none"
  BY <1>1, <1>3, CopiedStays
<1>. QED
  BY <1>2, <1>3

(* ... the end of a file, ...                                              *)
LEMMA NextFileCopying ==
    ASSUME TInv, IClean, NEW p \in Creators, StepOf(p), Lucky(p)', Copying(p),
           creator'[p] = NextFile(p), creator[p].pc \in {"file", "symlink", "write"},
           \A i \in Indices : i <= creator[p].k =>
               file'[location(p)][Order[i]] = Copied(p, Order[i]),
           \A i \in Indices : i > creator[p].k => file'[location(p)][Order[i]] = Missing
    PROVE  Copying(p)'
<1>. DEFINE c == creator[p]
            d == creator'[p]
            l == location(p)
<1>a. /\ request' = request /\ Shape(p) /\ c \in Creator /\ d \in Creator
      /\ c.k \in Nat /\ Len(Order) \in Nat /\ creator \in [Creators -> Creator]
      /\ \A i \in Indices : i \in Nat /\ Order[i] \in Files
  BY LuckyBefore, AnyEffect, OrderFacts, CreatorFields DEF Effect, TInv, TypeOK, Indices
<1>b. location(p)' = l /\ d.base = c.base /\ d.text = c.text
  BY <1>a, NextFileIs
<1>c. /\ d.base # "none" =>
            /\ Based(p)'
            /\ \A f \in Files : Content(c.base, f)' = Content(c.base, f)
      /\ \A f \in Files : Copied(p, f)' = Copied(p, f)
  BY <1>b, SelfStays
<1>d. /\ c.base # "none" => /\ \A f \in Files : c.text[f] = Content(c.base, f)
                           /\ Content(c.base, README) # "nothing"
  BY <1>a DEF Copying, Shape, Creating
<1>e. README \in Files
  BY OrderAssumption
<1>1. CASE d.pc = "file" /\ d.k = c.k + 1 /\ d.ret = c.ret /\ c.k < Len(Order)
  <2>1. \A i \in Indices : i < d.k => file'[l][Order[i]] = Copied(p, Order[i])
    BY <1>a, <1>1
  <2>2. d.k \in Indices
    BY <1>1, CreatorFields, <1>a
  <2>3. (\A i \in Indices : i > d.k => file'[l][Order[i]] = Missing)
        /\ file'[l][Order[d.k]] = Missing
    BY <1>a, <1>1, <2>2
  <2>4. d.ret = "none"
    BY <1>a, <1>1 DEF Shape, Creating
  <2>. QED
    BY <1>a, <1>b, <1>c, <1>d, <1>e, <1>1, <2>1, <2>3, <2>4 DEF Copying
<1>2. CASE d.pc = "done" /\ d.ret = "EOK" /\ c.k = Len(Order)
  <2>1. \A i \in Indices : i <= c.k
    BY <1>a, <1>2 DEF Indices
  <2>2. \A f \in Files : file'[l][f] = Copied(p, f)
    BY <2>1, OrderFacts
  <2>. QED
    BY <1>a, <1>b, <1>c, <1>d, <1>e, <1>2, <2>2 DEF Copying
<1>. QED
  BY <1>a, <1>1, <1>2, NextFileIs

(* ... a file that has been read ...                                       *)
LEMMA HasReadCopying ==
    ASSUME TInv, IClean, NEW p \in Creators, StepOf(p), Lucky(p)', Copying(p),
           creator[p].pc = "read",
           Content(creator[p].base, filename(p)) \in Texts,
           creator'[p] = HasRead(p, Content(creator[p].base, filename(p))),
           filename(p) = README => Content(creator[p].base, README) # "nothing"
    PROVE  Copying(p)'
<1>. DEFINE c == creator[p]
            d == creator'[p]
            t == Content(c.base, filename(p))
<1>a. /\ request' = request /\ Shape(p) /\ c \in Creator /\ d \in Creator
      /\ c.k \in 1..Len(Order) /\ Len(Order) \in Nat /\ creator \in [Creators -> Creator]
      /\ \A i \in Indices : i \in Nat /\ i >= 1 /\ i <= Len(Order) /\ Order[i] \in Files
      /\ c.base # "none" /\ filename(p) \in Files
  BY LuckyBefore, AnyEffect, OrderFacts, CreatorFields
  DEF Effect, TInv, TypeOK, Indices, Shape, Creating, Locations
<1>b. /\ d.base = c.base /\ d.text = [c.text EXCEPT ![filename(p)] = t] /\ d.ret = c.ret
      /\ \/ d.pc = "read" /\ d.k = c.k + 1
         \/ d.pc = "make" /\ c.k = Len(Order)
  BY <1>a, HasReadIs
<1>c. Based(p)' /\ \A f \in Files : Content(c.base, f)' = Content(c.base, f)
  BY <1>a, <1>b, SelfStays
<1>d. \A i \in Indices : i < c.k =>
         /\ c.text[Order[i]] = Content(c.base, Order[i])
         /\ Order[i] = README => Content(c.base, README) # "nothing"
  BY <1>a DEF Copying
<1>e. \A i \in Indices : i <= c.k =>
         /\ d.text[Order[i]] = Content(c.base, Order[i])
         /\ Order[i] = README => Content(c.base, README) # "nothing"
  <2>1. ASSUME NEW i \in Indices, i <= c.k
        PROVE  /\ d.text[Order[i]] = Content(c.base, Order[i])
               /\ Order[i] = README => Content(c.base, README) # "nothing"
    <3>1. c.text \in [Files -> Texts]
      BY <1>a, CreatorFields
    <3>2. CASE i = c.k
      <4>1. Order[i] = filename(p)
        BY <3>2
      <4>. QED
        BY <1>a, <1>b, <3>1, <4>1
    <3>3. CASE i # c.k
      <4>1. Order[i] # filename(p) /\ i < c.k
        BY <1>a, <2>1, <3>3, OrderFacts DEF Indices
      <4>. QED
        BY <1>a, <1>b, <1>d, <3>1, <4>1
    <3>. QED
      BY <3>2, <3>3
  <2>. QED
    BY <2>1
<1>f. README \in Files /\ d.ret = "none"
  BY <1>a, <1>b, OrderAssumption DEF Shape, Creating
<1>1. CASE d.pc = "read" /\ d.k = c.k + 1
  <2>1. \A i \in Indices : i < d.k =>
           /\ d.text[Order[i]] = Content(c.base, Order[i])
           /\ Order[i] = README => Content(c.base, README) # "nothing"
    BY <1>a, <1>e, <1>1
  <2>. QED
    BY <1>a, <1>c, <1>f, <1>1, <2>1 DEF Copying
<1>2. CASE d.pc = "make" /\ c.k = Len(Order)
  <2>1. /\ \A f \in Files : d.text[f] = Content(c.base, f)
        /\ Content(c.base, README) # "nothing"
    BY <1>a, <1>e, <1>f, <1>2, OrderFacts
  <2>. QED
    BY <1>a, <1>c, <1>f, <1>2, <2>1 DEF Copying
<1>. QED
  BY <1>b, <1>1, <1>2

(* ... and every other one.                                                *)
LEMMA SelfCopying ==
    ASSUME TInv, IClean, ICopy, NEW p \in Creators, StepOf(p), Lucky(p)'
    PROVE  Copying(p)'
<1>. DEFINE c == creator[p]
            d == creator'[p]
            l == location(p)
            f == filename(p)
<1>a. /\ request' = request /\ Shape(p) /\ Shape(p)' /\ c \in Creator /\ d \in Creator
      /\ c.k \in Indices /\ Len(Order) \in Nat /\ creator \in [Creators -> Creator]
      /\ f \in Files /\ l \in Locations /\ location(p)' = l
      /\ file \in [Locations -> [Files -> File]] /\ "none" \notin Locations
  BY AnyEffect, OrderFacts, CreatorFields, RequestFacts DEF Effect, TInv, TypeOK, Locations
<1>b. /\ SystemCall(p) /\ NoContest /\ Places /\ Alone(p) /\ d.filepaths
      /\ \A k \in Bases(p) : ~RivalAt(p, k)
  BY LuckyBefore DEF IClean, Lucky
<1>k. /\ \A i \in Indices : i \in Nat /\ i >= 1 /\ i <= Len(Order) /\ Order[i] \in Files
      /\ \A i \in Indices : i # c.k => Order[i] # f
      /\ README \in Files
  BY <1>a, OrderFacts, OrderAssumption DEF Indices
<1>1. CASE Check(p)
  <2>1. c.pc = "check" /\ c.base = "none" /\ c.ret = "none" /\ ~c.filepaths
    BY <1>a, <1>1 DEF Check, Shape, Creating
  <2>2. d # Fails(p, "EEXIST")
    BY <1>a, <1>b, <2>1, FailsIs
  <2>3. d.pc \in {"make", "lookup"} /\ d.base = "none" /\ d.ret = "none"
    BY <1>a, <1>1, <2>1, <2>2, CheckEffect
  <2>. QED
    BY <2>3 DEF Copying
<1>c. CASE ~Check(p)
  <2>a. c.filepaths
    <3>1. SUFFICES ASSUME ~c.filepaths PROVE FALSE
      OBVIOUS
    <3>2. c.pc \in {"check", "rmdir", "done", "killed"}
      BY <1>a, <3>1 DEF Shape
    <3>3. Rmdir(p)
      BY <1>b, <1>c, <3>2 DEF SystemCall, LookUp, Read, Make, Mkdir, LookForTarget,
                              Symlink, Open, Write, Unlink
    <3>. QED
      BY <1>a, <1>b, <3>1, <3>3, RmdirEffect DEF Same
  <2>b. Copying(p)
    BY <2>a, LuckyBefore DEF ICopy
  <2>c. c.base # "none" => Based(p)
    BY <2>b DEF Copying
  <2>d. c.pc \in {"make", "mkdir", "file", "symlink", "write"} =>
           /\ c.ret = "none"
           /\ c.base # "none" => /\ Content(c.base, README) # "nothing"
                                /\ \A g \in Files : c.text[g] = Content(c.base, g)
    BY <1>a, <2>b DEF Copying, Shape, Creating
  <2>e. ASSUME d.base = c.base
        PROVE  /\ d.base # "none" =>
                     /\ Based(p)'
                     /\ \A g \in Files : /\ Content(c.base, g)' = Content(c.base, g)
                                         /\ Exists(c.base, g)' = Exists(c.base, g)
               /\ \A g \in Files : Copied(p, g)' = Copied(p, g)
    BY <2>b, <2>e, SelfStays
  <2>f. ASSUME NEW errno \in {"EEXIST", "ENOENT", "EINVAL", "error"}, d = Fails(p, errno)
        PROVE  Copying(p)'
    <3>1. d.base = c.base /\ d.pc = "unlink" /\ d.ret = errno
      BY <1>a, <2>a, <2>f, FailsIs
    <3>2. d.base # "none" => Based(p)'
      BY <2>e, <3>1
    <3>. QED
      BY <2>f, <3>1, <3>2 DEF Copying
  <2>g. ASSUME d.pc \in {"unlink", "rmdir", "done"}, d.base = c.base, d.ret \notin {"none", "EOK"}
        PROVE  Copying(p)'
    BY <2>e, <2>g DEF Copying
  <2>1. CASE LookUp(p)
    <3>1. CASE d.pc = "read" /\ d.base = Found(request[p].base, dirs) /\ d.base \in dirs
               /\ d.base \in Bases(p) /\ d.k = c.k /\ d.ret = c.ret
      <4>1. c.pc = "lookup" /\ l \notin dirs /\ dirs' = dirs /\ file' = file
        BY <1>a, <1>b, <2>a, <2>1, LookUpEffect DEF LookUp, Alone
      <4>2. d.k = 1 /\ d.ret = "none"
        BY <1>a, <3>1, <4>1 DEF Shape, Creating
      <4>3. dirs \ {l} = dirs /\ d.base # l
        BY <3>1, <4>1
      <4>4. Bases(p)' = Bases(p) /\ Found(request[p].base, dirs \ {l})' = d.base
        <5>1. Found(request[p].base, dirs \ {l})' = Found(request[p].base, dirs' \ {l})
          BY <1>a DEF Found, Lookup
        <5>2. dirs' \ {l} = dirs
          BY <4>1, <4>3
        <5>3. Bases(p)' = Bases(p)
          BY <1>a DEF Bases
        <5>. QED
          BY <3>1, <5>1, <5>2, <5>3
      <4>5. Based(p)'
        BY <1>a, <3>1, <4>1, <4>3, <4>4 DEF Based
      <4>. QED
        BY <1>k, <3>1, <4>2, <4>5 DEF Copying
    <3>. QED
      BY <1>a, <2>f, <2>1, <3>1, LookUpEffect
  <2>2. CASE Read(p)
    <3>1. CASE /\ d = HasRead(p, Content(c.base, f)) /\ Content(c.base, f) \in Texts
               /\ f = README => Content(c.base, README) # "nothing"
      <4>1. c.pc = "read"
        BY <2>2 DEF Read
      <4>. QED
        BY <2>b, <3>1, <4>1, HasReadCopying
    <3>. QED
      BY <1>a, <2>f, <2>2, <3>1, ReadEffect
  <2>3. CASE Make(p)
    <3>1. c.pc = "make" /\ d.pc = "mkdir" /\ d.base = c.base /\ d.text = c.text /\ d.ret = c.ret
      BY <1>a, <1>b, <2>a, <2>3, MakeEffect DEF Make, Alone, Same
    <3>. QED
      BY <1>k, <2>d, <2>e, <3>1 DEF Copying
  <2>4. CASE Mkdir(p)
    <3>1. /\ c.pc = "mkdir" /\ l \notin dirs /\ file' = file /\ d.pc = "file" /\ d.k = c.k
          /\ d.base = c.base /\ d.text = c.text /\ d.ret = c.ret
      BY <1>a, <1>b, <2>a, <2>4, MkdirEffect DEF Mkdir, Alone, Same
    <3>2. d.k = 1
      BY <1>a, <3>1 DEF Shape
    <3>3. \A g \in Files : file'[l][g] = Missing
      BY <1>a, <1>b, <3>1 DEF Places, NoFiles
    <3>4. /\ \A i \in Indices : i > d.k => file'[l][Order[i]] = Missing
          /\ file'[l][Order[d.k]] = Missing /\ \A i \in Indices : ~(i < d.k)
      BY <1>a, <1>k, <3>1, <3>2, <3>3
    <3>. QED
      BY <1>a, <1>k, <2>d, <2>e, <3>1, <3>4 DEF Copying
  <2>h. c.pc \in {"file", "symlink", "write"} =>
           /\ \A i \in Indices : i < c.k => file[l][Order[i]] = Copied(p, Order[i])
           /\ \A i \in Indices : i > c.k => file[l][Order[i]] = Missing
           /\ c.pc # "write" => file[l][f] = Missing
           /\ c.pc = "symlink" => Exists(c.base, f)
           /\ c.pc = "write" => file[l][f] = Text("nothing")
    BY <2>b DEF Copying
  <2>i. ASSUME NEW what, \/ file' = file /\ what = file[l][f]
                         \/ what \in File /\ Put(l, f, what)
        PROVE  /\ file'[l][f] = what
               /\ \A i \in Indices : i # c.k => file'[l][Order[i]] = file[l][Order[i]]
    BY <1>a, <1>k, <2>i, PutFacts
  <2>j. ASSUME d = NextFile(p), c.pc \in {"file", "symlink", "write"},
               \/ file' = file /\ Copied(p, f) = file[l][f]
               \/ Copied(p, f) \in File /\ Put(l, f, Copied(p, f))
        PROVE  Copying(p)'
    <3>1. /\ file'[l][f] = Copied(p, f)
          /\ \A i \in Indices : i # c.k => file'[l][Order[i]] = file[l][Order[i]]
      BY <2>i, <2>j
    <3>2. \A i \in Indices : i <= c.k => file'[l][Order[i]] = Copied(p, Order[i])
      <4>1. ASSUME NEW i \in Indices, i <= c.k PROVE file'[l][Order[i]] = Copied(p, Order[i])
        <5>1. CASE i = c.k
          BY <3>1, <5>1
        <5>2. CASE i # c.k
          BY <1>a, <1>k, <2>h, <2>j, <3>1, <4>1, <5>2
        <5>. QED
          BY <5>1, <5>2
      <4>. QED
        BY <4>1
    <3>3. \A i \in Indices : i > c.k => file'[l][Order[i]] = Missing
      BY <1>a, <1>k, <2>h, <2>j, <3>1
    <3>. QED
      BY <2>b, <2>j, <3>2, <3>3, NextFileCopying
  <2>k. ASSUME IsLink(p), c.pc \in {"file", "symlink", "write"}
        PROVE  /\ c.base \in Locations /\ Link(c.base) \in File
               /\ Copied(p, f) = IF Exists(c.base, f) THEN Link(c.base) ELSE Missing
    <3>1. c.base \in Locations
      BY <1>a, <2>k DEF Shape, Creating, IsLink
    <3>. QED
      BY <1>a, <2>k, <3>1, FileForms DEF Copied, IsLink
  <2>l. ASSUME ~IsLink(p), c.pc \in {"file", "symlink", "write"}
        PROVE  Copied(p, f) = Text(c.text[f]) /\ Text(c.text[f]) \in File
    <3>1. Text(c.text[f]) \in File
      BY <1>a, CreatorFields, FileForms
    <3>2. CASE c.base = "none"
      <4>1. c.text[f] = "nothing"
        BY <1>a, <3>2 DEF ICopy, NothingRead
      <4>. QED
        BY <3>1, <3>2, <4>1 DEF Copied
    <3>3. CASE c.base # "none"
      <4>1. c.text[f] = Content(c.base, f)
        BY <1>a, <2>d, <2>l, <3>3
      <4>2. f \notin request[p].links
        BY <1>a, <2>l, <3>3 DEF Shape, IsLink
      <4>. QED
        BY <3>1, <3>3, <4>1, <4>2 DEF Copied
    <3>. QED
      BY <3>2, <3>3
  <2>5. CASE LookForTarget(p)
    <3>1. /\ c.pc = "file" /\ IsLink(p) /\ file' = file /\ file[l][f] = Missing
          /\ \/ d = NextFile(p) /\ ~Exists(c.base, f)
             \/ /\ Same(p) /\ d.k = c.k /\ d.ret = c.ret /\ d.pc = "symlink"
                /\ Exists(c.base, f)
      BY <1>a, <2>h, <2>5, LookForTargetEffect DEF LookForTarget
    <3>2. CASE d = NextFile(p) /\ ~Exists(c.base, f)
      BY <2>j, <2>k, <3>1, <3>2
    <3>3. CASE /\ d.base = c.base /\ d.text = c.text /\ d.k = c.k /\ d.ret = c.ret
               /\ d.pc = "symlink" /\ Exists(c.base, f)
      <4>1. c.base # "none"
        BY <1>a, <2>k, <3>1
      <4>. QED
        BY <1>a, <1>k, <2>d, <2>e, <2>h, <3>1, <3>3, <4>1 DEF Copying
    <3>. QED
      BY <3>1, <3>2, <3>3 DEF Same
  <2>6. CASE Symlink(p)
    <3>1. CASE Put(l, f, Link(c.base)) /\ d = NextFile(p)
      <4>1. c.pc = "symlink" /\ IsLink(p) /\ Exists(c.base, f)
        BY <1>a, <2>h, <2>6 DEF Symlink, Shape
      <4>. QED
        BY <2>j, <2>k, <3>1, <4>1
    <3>. QED
      BY <1>a, <2>f, <2>6, <3>1, SymlinkEffect
  <2>7. CASE Open(p)
    <3>1. CASE /\ Put(Opens(l, f), f, Text("nothing")) /\ ~IsLink(p) /\ Same(p)
               /\ d.k = c.k /\ d.ret = c.ret /\ d.pc = "write"
      <4>1. c.pc = "file" /\ Opens(l, f) = l /\ Text("nothing") \in File
        BY <1>b, <2>a, <2>7, <3>1, OwnOpen, FileForms DEF Open, Texts
      <4>2. /\ file'[l][f] = Text("nothing")
            /\ \A i \in Indices : i # c.k => file'[l][Order[i]] = file[l][Order[i]]
        BY <2>i, <3>1, <4>1
      <4>3. /\ \A i \in Indices : i < d.k => file'[l][Order[i]] = Copied(p, Order[i])
            /\ \A i \in Indices : i > d.k => file'[l][Order[i]] = Missing
        BY <1>a, <1>k, <2>h, <3>1, <4>1, <4>2
      <4>4. d.base = c.base /\ d.text = c.text
        BY <3>1 DEF Same
      <4>. QED
        BY <1>a, <1>k, <2>d, <2>e, <3>1, <4>1, <4>2, <4>3, <4>4 DEF Copying
    <3>. QED
      BY <1>a, <2>f, <2>7, <3>1, OpenEffect
  <2>8. CASE Write(p)
    <3>1. c.pc = "write" /\ ~IsLink(p) /\ d = NextFile(p) /\ c.opened = l
      BY <1>a, <1>b, <2>8, WriteEffect DEF Write, Alone
    <3>2. Copied(p, f) = Text(c.text[f]) /\ Text(c.text[f]) \in File
      BY <2>l, <3>1
    <3>3. CASE file' = file /\ c.text[f] = "nothing"
      BY <2>h, <2>j, <3>1, <3>2, <3>3
    <3>4. CASE Put(l, f, Text(c.text[f]))
      BY <2>j, <3>1, <3>2, <3>4
    <3>5. l # "gone"
      BY <1>a DEF Locations
    <3>. QED
      BY <1>a, <2>8, <3>1, <3>3, <3>4, <3>5, WriteEffect
  <2>9. CASE Unlink(p)
    <3>1. c.pc = "unlink" /\ d.pc \in {"unlink", "rmdir"} /\ d.base = c.base /\ d.ret = c.ret
      BY <1>a, <2>9, UnlinkEffect DEF Unlink, Same
    <3>. QED
      BY <1>a, <2>g, <3>1 DEF Shape
  <2>10. CASE Rmdir(p)
    <3>1. c.pc = "rmdir" /\ d.pc = "done" /\ d.base = c.base /\ d.ret = c.ret
      BY <1>a, <2>10, RmdirEffect DEF Same
    <3>. QED
      BY <1>a, <2>g, <3>1 DEF Shape
  <2>. QED
    BY <1>b, <1>c, <2>1, <2>2, <2>3, <2>4, <2>5, <2>6, <2>7, <2>8, <2>9, <2>10 DEF SystemCall
<1>. QED
  BY <1>1, <1>c

LEMMA CopyInit == Init => ICopy
<1>. SUFFICES ASSUME Init, NEW p \in Creators PROVE NothingRead(p) /\ ~creator[p].filepaths
  BY DEF ICopy, Lucky
<1>1. creator[p] = Begins
  BY DEF Init
<1>. QED
  BY <1>1 DEF NothingRead, Begins

LEMMA CopyNext == TInv /\ IClean /\ ICopy /\ [Next]_vars => ICopy'
<1>. SUFFICES ASSUME TInv, IClean, ICopy, [Next]_vars, NEW q \in Creators
              PROVE  NothingRead(q)' /\ (Lucky(q)' => Copying(q)')
  BY DEF ICopy
<1>1. CASE UNCHANGED vars
  <2>1. NothingRead(q)' = NothingRead(q)
    BY <1>1 DEF NothingRead, vars
  <2>2. Lucky(q)' = Lucky(q)
    BY <1>1 DEF Lucky, NoContest, TakesPart, Refused, Bases, RivalAt, vars
  <2>3. Copying(q)' = Copying(q)
    BY <1>1 DEF Copying, Based, Bases, Copied, Content, Exists, Opens, vars
  <2>. QED
    BY <2>1, <2>2, <2>3 DEF ICopy
<1>2. ASSUME NEW p \in Creators, StepOf(p)
      PROVE  NothingRead(q)' /\ (Lucky(q)' => Copying(q)')
  BY <1>2, NothingReadNext, OthersCopying, SelfCopying DEF ICopy
<1>. QED
  BY <1>1, <1>2 DEF Next, StepOf

(* A creation that reports success has made a copy of the base that its id *)
(* stands for, file by file, or links to it, if nobody creates that base   *)
(* meanwhile, no two creators make one profile and no call failed.         *)
THEOREM SuccessMeansACopy == Spec => []SuccessIsACopy
<1>1. TInv /\ IClean /\ ICopy => SuccessIsACopy
  <2>. SUFFICES ASSUME TInv, IClean, ICopy, NEW p \in Creators, creator[p].ret = "EOK",
                       faults = MaxFaults, NoContest, \A l \in Bases(p) : ~RivalAt(p, l)
                PROVE  /\ location(p) \in dirs
                       /\ file[location(p)] = [f \in Files |-> Copied(p, f)]
                       /\ request[p].base # "none" =>
                             creator[p].base = Found(request[p].base, dirs \ {location(p)})
    BY DEF SuccessIsACopy
  <2>. DEFINE c == creator[p]
              l == location(p)
  <2>1. /\ Shape(p) /\ l \in Locations /\ README \in Files /\ Places
        /\ file \in [Locations -> [Files -> File]] /\ "none" \notin Locations
    BY RequestFacts, OrderAssumption DEF TInv, TypeOK, IClean, Locations
  <2>2. c.pc = "done" /\ c.filepaths
    BY <2>1 DEF Shape
  <2>3. Copying(p)
    BY <2>2 DEF ICopy, Lucky
  <2>4. \A f \in Files : file[l][f] = Copied(p, f)
    BY <2>3 DEF Copying
  <2>5. file[l] = [f \in Files |-> Copied(p, f)]
    BY <2>1, <2>4
  <2>6. c.base # "none" =>
           /\ Content(c.base, README) # "nothing" /\ Exists(c.base, README)
           /\ c.base \in Locations /\ file[c.base] # NoFiles /\ Based(p)
    <3>. SUFFICES ASSUME c.base # "none"
                  PROVE  /\ Content(c.base, README) # "nothing" /\ Exists(c.base, README)
                         /\ c.base \in Locations /\ file[c.base] # NoFiles /\ Based(p)
      OBVIOUS
    <3>1. Content(c.base, README) # "nothing" /\ Based(p)
      BY <2>2, <2>3 DEF Copying
    <3>2. /\ c.base \in Locations /\ Content(c.base, README) = file[c.base][README].from
          /\ Exists(c.base, README) <=> file[c.base][README] # Missing
      BY <2>1, <3>1, PlainBase DEF Based
    <3>3. file[c.base][README] # Missing
      BY <3>1, <3>2 DEF Missing
    <3>. QED
      BY <2>1, <3>1, <3>2, <3>3 DEF NoFiles
  <2>7. Copied(p, README) # Missing
    <3>1. \A t \in Texts : Text(t) # Missing
      BY FileForms
    <3>2. CASE c.base = "none"
      BY <3>1, <3>2 DEF Copied, Texts
    <3>3. CASE c.base # "none"
      <4>1. Content(c.base, README) \in Texts /\ Link(c.base) # Missing
        BY <2>1, <2>6, <3>3, OpensFacts, FileForms
      <4>. QED
        BY <2>6, <3>1, <3>3, <4>1 DEF Copied
    <3>. QED
      BY <3>2, <3>3
  <2>8. l \in dirs
    BY <2>1, <2>4, <2>7 DEF Places, NoFiles
  <2>9. request[p].base # "none" => c.base = Found(request[p].base, dirs \ {l})
    BY <2>1, <2>6 DEF Shape, Based
  <2>. QED
    BY <2>5, <2>8, <2>9
<1>2. Init => TInv /\ IClean /\ ICopy
  BY TypeInit, CleanInit, CopyInit
<1>3. (TInv /\ IClean /\ ICopy) /\ [Next]_vars => (TInv /\ IClean /\ ICopy)'
  BY TypeNext, CleanNext, CopyNext
<1>. QED
  BY <1>1, <1>2, <1>3, PTL DEF Spec

=============================================================================
