--------------------------- MODULE FileUploadProofs ---------------------------
(***************************************************************************)
(* Proofs about FileUpload, for any number of drops, files, names that     *)
(* share candidates, restarts and files taken away.                        *)
(***************************************************************************)
EXTENDS FileUpload, SequenceTheorems, TLAPS

LEMMA FileShape ==
    /\ \A f \in Files : /\ f = <<f[1], f[2]>> /\ f[1] \in Drops
                        /\ f[2] \in 1 .. MaxFiles[f[1]] /\ f[2] \in Nat \ {0}
    /\ \A d \in Drops : \A i \in 1 .. MaxFiles[d] : <<d, i>> \in Files
BY FileUploadAssumption DEF Files

-----------------------------------------------------------------------------
(* The drops *)

States == {"none", "sent", "ok", "error"} \cup Handled

DropTypes ==
    /\ pc \in [Files -> States]
    /\ tab \in [Drops -> Tabs \cup {None}]
    /\ named \in [Drops -> Seq(Names)]
    /\ at \in [Drops -> Nat]
    /\ active \in Tabs

(* Where the loop is, and which files it has sent *)
LoopOK ==
    /\ \A d \in Drops : /\ Len(named[d]) <= MaxFiles[d] /\ at[d] <= Len(named[d]) + 1
                        /\ at[d] > 0 => tab[d] \in Tabs
    /\ \A f \in Files : pc[f] # "none" => f[2] <= at[f[1]] /\ f[2] <= Len(named[f[1]])

DropInv == DropTypes /\ LoopOK

LEMMA InitDrop == Init => DropInv
<1> SUFFICES ASSUME Init PROVE DropInv
  OBVIOUS
<1>1. \A d \in Drops : named[d] = <<>> /\ Len(named[d]) = 0 /\ at[d] = 0
  BY DEF Init
<1> QED BY <1>1, FileUploadAssumption DEF Init, DropInv, DropTypes, LoopOK, States

LEMMA AwaitedIsFile ==
    ASSUME DropInv, NEW d \in Drops, UnderWay(d)
    PROVE  /\ Awaited(d) \in Files /\ at[d] \in Nat \ {0}
           /\ at[d] < Len(named[d]) => <<d, at[d] + 1>> \in Files
<1>1. /\ at[d] \in Nat /\ Len(named[d]) \in Nat /\ MaxFiles[d] \in Nat
      /\ Len(named[d]) <= MaxFiles[d] /\ at[d] \in 1 .. Len(named[d])
  BY FileUploadAssumption DEF DropInv, DropTypes, LoopOK, UnderWay
<1>2. /\ at[d] \in 1 .. MaxFiles[d]
      /\ at[d] < Len(named[d]) => at[d] + 1 \in 1 .. MaxFiles[d]
  BY ONLY <1>1
<1> QED BY <1>1, <1>2, FileShape DEF Awaited

(* A handler moves its own request on, and one that has begun. *)
LEMMA HandlerStep ==
    ASSUME DropInv, NEW f \in Files, Handle(f)
    PROVE  /\ pc[f] \in {"sent"} \cup Handled
           /\ \E w \in States \ {"none", "sent"} : pc' = [pc EXCEPT ![f] = w]
           /\ BrowserWaits
<1> USE DEF Goto, States, Handled, BrowserWaits
<1>0. pc \in [Files -> States]
  BY DEF DropInv, DropTypes
<1>1. ASSUME pc[f] = "searching", UNCHANGED pc
      PROVE  pc' = [pc EXCEPT ![f] = "searching"]
  BY <1>0, <1>1
<1>2. CASE Check(f)
  BY <1>2 DEF Check
<1>3. CASE Stat(f)
  BY <1>1, <1>3 DEF Stat
<1>4. CASE Create(f)
  BY <1>4 DEF Create
<1>5. CASE Copy(f)
  BY <1>5 DEF Copy
<1>6. CASE CopyFails(f)
  BY <1>6 DEF CopyFails
<1> QED BY <1>2, <1>3, <1>4, <1>5, <1>6 DEF Handle

LEMMA StepDrop == DropInv /\ [Next]_vars => DropInv'
<1> SUFFICES ASSUME DropInv, [Next]_vars PROVE DropInv'
  OBVIOUS
<1> USE DEF DropInv, DropTypes, LoopOK
<1>1. ASSUME NEW d \in Drops, Drop(d) PROVE DropInv'
  <2>1. PICK n \in 1 .. MaxFiles[d] : \E fs \in [1 .. n -> Names] :
              named' = [named EXCEPT ![d] = fs]
    BY <1>1 DEF Drop
  <2>2. PICK fs \in [1 .. n -> Names] : named' = [named EXCEPT ![d] = fs]
    BY <2>1
  <2>3. n \in Nat \ {0} /\ n <= MaxFiles[d] /\ fs \in Seq(Names) /\ Len(fs) = n
    BY <2>1, <2>2, FileUploadAssumption
  <2>4. <<d, 1>> \in Files
    <3>1. MaxFiles[d] \in Nat /\ 1 \in 1 .. MaxFiles[d]
      BY <2>3, FileUploadAssumption
    <3> QED BY <3>1, FileShape
  <2>5. \A f \in Files : f[1] = d => pc[f] = "none"
    BY <1>1, FileShape DEF Drop
  <2>6. DropTypes'
    BY <1>1, <2>2, <2>3 DEF Drop, States
  <2>7. \A c \in Drops : /\ Len(named'[c]) <= MaxFiles[c] /\ at'[c] <= Len(named'[c]) + 1
                         /\ at'[c] > 0 => tab'[c] \in Tabs
    BY <1>1, <2>2, <2>3 DEF Drop
  <2>8. \A f \in Files : pc'[f] # "none" => f[2] <= at'[f[1]] /\ f[2] <= Len(named'[f[1]])
    <3> TAKE f \in Files
    <3>1. CASE f = <<d, 1>>
      BY <1>1, <2>2, <2>3, <3>1 DEF Drop
    <3>2. CASE f # <<d, 1>>
      BY <1>1, <2>2, <2>5, <3>2, FileShape DEF Drop
    <3> QED BY <3>1, <3>2
  <2> QED BY <2>6, <2>7, <2>8
<1>2. ASSUME NEW d \in Drops, UnderWay(d), NextFile(d) PROVE DropInv'
  <2>1. at[d] \in Nat \ {0} /\ at[d] <= Len(named[d]) /\ Len(named[d]) \in Nat
    BY <1>2, AwaitedIsFile DEF UnderWay
  <2>2. DropTypes'
    <3>1. pc' \in [Files -> States]
      BY <1>2 DEF NextFile, States
    <3> QED BY <1>2, <2>1, <3>1 DEF NextFile
  <2>3. \A f \in Files : pc'[f] # "none" => f[2] <= at'[f[1]] /\ f[2] <= Len(named'[f[1]])
    <3> TAKE f \in Files
    <3>1. CASE at[d] < Len(named[d]) /\ f = <<d, at[d] + 1>>
      BY <1>2, <2>1, <3>1 DEF NextFile
    <3>2. CASE ~(at[d] < Len(named[d]) /\ f = <<d, at[d] + 1>>)
      <4>1. pc'[f] = pc[f]
        BY <1>2, <2>1, <3>2 DEF NextFile
      <4> QED BY <1>2, <2>1, <4>1, FileShape DEF NextFile
    <3> QED BY <3>1, <3>2
  <2> QED BY <1>2, <2>1, <2>2, <2>3 DEF NextFile
<1>3. ASSUME NEW d \in Drops, Leave(d) PROVE DropInv'
  <2>1. at'[d] = Len(named[d]) + 1 /\ Len(named[d]) \in Nat /\ at[d] > 0
    BY <1>3 DEF Leave, UnderWay
  <2> QED BY <1>3, <2>1, FileShape DEF Leave, serverVars
<1>4. ASSUME NEW f \in Files, Handle(f) PROVE DropInv'
  <2>1. PICK w \in States \ {"none", "sent"} : pc' = [pc EXCEPT ![f] = w]
    BY <1>4, HandlerStep
  <2>2. pc[f] # "none" /\ BrowserWaits
    BY <1>4, HandlerStep DEF Handled
  <2> QED BY <2>1, <2>2 DEF BrowserWaits, dropVars
<1>5. ASSUME NEW t \in Tabs, Select(t) \/ DeleteTab(t) PROVE DropInv'
  BY <1>5 DEF Select, DeleteTab, serverVars, dropVars
<1>6. ASSUME NEW q \in Paths, TakeAway(q) PROVE DropInv'
  BY <1>6 DEF TakeAway, dropVars
<1>7. CASE Restart
  BY <1>7 DEF Restart, dropVars, States
<1>8. CASE UNCHANGED vars
  BY <1>8 DEF vars, serverVars, dropVars
<1> QED BY <1>1, <1>2, <1>3, <1>4, <1>5, <1>6, <1>7, <1>8
        DEF Next, Disturb, Receive, Uploaded, Refused, Lost
-----------------------------------------------------------------------------
(* The directory *)

DiskTypes ==
    /\ disk \in [Paths -> Files \cup {None, Other}]
    /\ whole \subseteq Paths
    /\ tried \in [Files -> Nat]
    /\ moved \subseteq Files /\ cut \subseteq Files

(* The search is within the candidates. *)
TriedOK ==
    \A f \in Files :
        /\ pc[f] \in {"none", "sent"} => tried[f] = 1
        /\ pc[f] \in Handled \cup {"ok"} => tried[f] \in 1 .. Len(Candidates[Name(f)])

(* A file that is being written is where its handler thinks it is: what    *)
(* CopyFails removes is its own.                                           *)
WritesItsOwn == \A f \in Files : pc[f] = "copying" => disk[Path(f)] = f

(* A file is at one path only. *)
OnePath == \A p \in Paths : disk[p] \in Files => p = Path(disk[p])

CutShort == \A f \in cut : pc[f] = "error"

DiskInv == /\ DiskTypes /\ TriedOK /\ WritesItsOwn /\ OnePath /\ CutShort
           /\ UploadsAreKept /\ NoStrayFiles

LEMMA NoneIsNoFile == None \notin Files /\ Other \notin Files
BY FileUploadAssumption DEF Files

LEMMA InitDisk == Init => DiskInv
BY FileUploadAssumption, NoneIsNoFile
   DEF Init, DiskInv, DiskTypes, TriedOK, WritesItsOwn, OnePath, CutShort, Handled,
       UploadsAreKept, NoStrayFiles

LEMMA PathIsPath ==
    ASSUME DropInv, DiskInv, NEW f \in Files
    PROVE  /\ pc[f] # "none" => Name(f) \in Names /\ Len(Candidates[Name(f)]) \in Nat \ {0}
           /\ pc[f] \in Handled \cup {"ok"} => Path(f) \in Paths
<1>1. ASSUME pc[f] # "none" PROVE Name(f) \in Names
  <2>1. /\ named[f[1]] \in Seq(Names) /\ f[2] \in Nat \ {0}
        /\ f[2] <= Len(named[f[1]])
    BY <1>1, FileShape DEF DropInv, DropTypes, LoopOK
  <2> QED BY <2>1 DEF Name
<1>2. \A n \in Names : /\ Candidates[n] \in Seq(Paths)
                       /\ Len(Candidates[n]) \in Nat \ {0}
  <2> TAKE n \in Names
  <2>1. Candidates[n] \in Seq(Paths) /\ Candidates[n] # <<>>
    BY FileUploadAssumption
  <2> QED BY <2>1, EmptySeq
<1>3. ASSUME pc[f] \in Handled \cup {"ok"} PROVE Path(f) \in Paths
  <2>1. tried[f] \in 1 .. Len(Candidates[Name(f)])
    BY <1>3 DEF DiskInv, TriedOK
  <2> QED BY <1>1, <1>2, <1>3, <2>1 DEF Path, Handled
<1> QED BY <1>1, <1>2, <1>3

(* Steps that touch neither the directory nor a handler *)
LEMMA QuietStep ==
    ASSUME DropInv, DiskInv, UNCHANGED <<disk, whole, tried, moved, cut>>,
           \A f \in Files : pc'[f] = pc[f] \/ (pc[f] = "none" /\ pc'[f] = "sent"),
           \A f \in Files : pc[f] # "none" => Name(f)' = Name(f)
    PROVE  DiskInv'
<1> USE DEF DiskInv, Handled
<1>1. DiskTypes'
  BY DEF DiskTypes
<1>2. \A f \in Files : pc[f] # "none" => Path(f)' = Path(f)
  BY DEF Path
<1>3. TriedOK'
  BY DEF TriedOK
<1>4. WritesItsOwn'
  BY <1>2 DEF WritesItsOwn
<1>5. \A q \in Paths : disk[q] \in Files => pc[disk[q]] # "none"
  BY DEF NoStrayFiles, CutShort
<1>6. OnePath'
  BY <1>2, <1>5 DEF OnePath
<1>7. CutShort'
  BY DEF CutShort, DiskTypes
<1>8. UploadsAreKept'
  BY <1>2 DEF UploadsAreKept
<1>9. NoStrayFiles'
  BY DEF NoStrayFiles
<1> QED BY <1>1, <1>3, <1>4, <1>6, <1>7, <1>8, <1>9
(* A handler step that writes nothing: it goes on searching, or ends.      *)
LEMMA SearchStep ==
    ASSUME DropInv, DiskInv, NEW f \in Files, pc[f] \in {"sent", "searching", "creating"},
           NEW w \in {"searching", "creating", "error"}, pc' = [pc EXCEPT ![f] = w],
           NEW n \in Nat, tried' = [tried EXCEPT ![f] = n],
           w # "error" => n \in 1 .. Len(Candidates[Name(f)]),
           UNCHANGED <<disk, whole, moved, cut, named>>
    PROVE  DiskInv'
<1> USE DEF DiskInv, Handled
<1>0. pc \in [Files -> States] /\ tried \in [Files -> Nat]
  BY DEF DropInv, DropTypes, DiskTypes
<1>1. DiskTypes'
  BY DEF DiskTypes
<1>2. \A g \in Files : Name(g)' = Name(g) /\ (g # f => Path(g)' = Path(g) /\ pc'[g] = pc[g])
  BY <1>0 DEF Name, Path
<1>3. pc'[f] = w /\ tried'[f] = n
  BY <1>0
<1>4. TriedOK'
  BY <1>0, <1>2, <1>3 DEF TriedOK
<1>5. WritesItsOwn'
  BY <1>2, <1>3 DEF WritesItsOwn
<1>6. f \notin cut /\ \A q \in Paths : disk[q] # f
  BY DEF NoStrayFiles, CutShort
<1>7. OnePath'
  BY <1>2, <1>6 DEF OnePath
<1>8. CutShort'
  BY <1>2, <1>6 DEF CutShort, DiskTypes
<1>9. UploadsAreKept'
  BY <1>2, <1>3 DEF UploadsAreKept
<1>10. NoStrayFiles'
  BY <1>2, <1>6 DEF NoStrayFiles
<1> QED BY <1>1, <1>4, <1>5, <1>7, <1>8, <1>9, <1>10

LEMMA HandlerDisk ==
    ASSUME DropInv, DiskInv, NEW f \in Files, Handle(f)
    PROVE  DiskInv'
<1> USE DEF Goto, BrowserWaits, dropVars
<1>0. /\ pc \in [Files -> States] /\ tried \in [Files -> Nat]
      /\ tried = [tried EXCEPT ![f] = tried[f]] /\ tried[f] \in Nat
  BY DEF DropInv, DropTypes, DiskInv, DiskTypes
<1>1. CASE Check(f)
  <2>1. 1 \in 1 .. Len(Candidates[Name(f)]) /\ tried[f] = 1
    BY <1>1, PathIsPath DEF Check, DiskInv, TriedOK
  <2>2. PICK w \in {"searching", "error"} : pc' = [pc EXCEPT ![f] = w]
    BY <1>1 DEF Check
  <2> QED BY <1>0, <1>1, <2>1, <2>2, SearchStep DEF Check
<1>2. CASE Stat(f)
  <2>1. tried[f] \in 1 .. Len(Candidates[Name(f)]) /\ Len(Candidates[Name(f)]) \in Nat
    BY <1>2, PathIsPath DEF Stat, DiskInv, TriedOK, Handled
  <2>2. CASE disk[Path(f)] = None
    <3>1. pc' = [pc EXCEPT ![f] = "creating"] /\ tried' = [tried EXCEPT ![f] = tried[f]]
      BY <1>0, <1>2, <2>2 DEF Stat
    <3> QED BY <1>0, <1>2, <2>1, <3>1, SearchStep DEF Stat
  <2>3. CASE disk[Path(f)] # None /\ tried[f] < Len(Candidates[Name(f)])
    <3>1. /\ pc' = [pc EXCEPT ![f] = "searching"]
          /\ tried' = [tried EXCEPT ![f] = tried[f] + 1]
      BY <1>0, <1>2, <2>3 DEF Stat
    <3>2. tried[f] + 1 \in 1 .. Len(Candidates[Name(f)]) /\ tried[f] + 1 \in Nat
      BY <2>1, <2>3
    <3> QED BY <1>0, <1>2, <3>1, <3>2, SearchStep DEF Stat
  <2>4. CASE disk[Path(f)] # None /\ ~(tried[f] < Len(Candidates[Name(f)]))
    <3>1. pc' = [pc EXCEPT ![f] = "error"] /\ tried' = [tried EXCEPT ![f] = tried[f]]
      BY <1>0, <1>2, <2>4 DEF Stat
    <3> QED BY <1>0, <1>2, <3>1, SearchStep DEF Stat
  <2> QED BY <2>2, <2>3, <2>4
<1>3. ASSUME Create(f), disk[Path(f)] = None, disk' = [disk EXCEPT ![Path(f)] = f],
             pc' = [pc EXCEPT ![f] = "copying"]
      PROVE  DiskInv'
  <2>1. pc[f] = "creating" /\ UNCHANGED <<whole, tried, moved, cut, named>>
    BY <1>3 DEF Create
  <2>2. Path(f) \in Paths
    BY <2>1, PathIsPath DEF Handled
  <2>3. \A g \in Files : Name(g)' = Name(g) /\ Path(g)' = Path(g) /\ (g # f => pc'[g] = pc[g])
    BY <1>0, <1>3, <2>1 DEF Name, Path
  <2>4. /\ \A q \in Paths : disk'[q] = IF q = Path(f) THEN f ELSE disk[q]
        /\ pc'[f] = "copying"
    BY <1>0, <1>3 DEF DiskInv, DiskTypes
  <2>5. f \notin cut
    BY <2>1 DEF DiskInv, CutShort
  <2>6. \A g \in Files : pc[g] \in {"ok", "copying"} => Path(g) \in Paths
    BY PathIsPath DEF Handled
  <2> USE DEF DiskInv, Handled
  <2>7. DiskTypes' /\ TriedOK' /\ CutShort'
    BY <1>3, <2>1, <2>2, <2>3, <2>4, <2>5 DEF DiskTypes, TriedOK, CutShort
  <2>8. WritesItsOwn'
    BY <1>3, <2>2, <2>3, <2>4, <2>6, NoneIsNoFile DEF WritesItsOwn
  <2>9. OnePath'
    BY <2>1, <2>3, <2>4 DEF OnePath
  <2>10. UploadsAreKept'
    BY <1>3, <2>1, <2>2, <2>3, <2>4, <2>6, NoneIsNoFile DEF UploadsAreKept
  <2>11. NoStrayFiles'
    BY <2>1, <2>3, <2>4 DEF NoStrayFiles
  <2> QED BY <2>7, <2>8, <2>9, <2>10, <2>11
<1>4. ASSUME Create(f), pc' = [pc EXCEPT ![f] = "error"], UNCHANGED disk PROVE DiskInv'
  BY <1>0, <1>4, SearchStep DEF Create
<1>5. CASE Create(f)
  BY <1>3, <1>4, <1>5 DEF Create
<1>6. CASE Copy(f)
  <2>1. /\ pc[f] = "copying" /\ whole' = whole \cup {Path(f)}
        /\ UNCHANGED <<disk, tried, moved, cut, named>>
    BY <1>6 DEF Copy
  <2>2. Path(f) \in Paths /\ disk[Path(f)] = f
    BY <2>1, PathIsPath DEF Handled, DiskInv, WritesItsOwn
  <2>3. /\ \A g \in Files : Name(g)' = Name(g) /\ Path(g)' = Path(g) /\ (g # f => pc'[g] = pc[g])
        /\ pc'[f] = "ok"
    BY <1>0, <1>6, <2>1 DEF Name, Path, Copy
  <2> USE DEF DiskInv, Handled
  <2>4. DiskTypes' /\ TriedOK' /\ CutShort' /\ WritesItsOwn'
    BY <2>1, <2>2, <2>3 DEF DiskTypes, TriedOK, CutShort, WritesItsOwn
  <2>5. OnePath' /\ UploadsAreKept'
    BY <2>1, <2>2, <2>3 DEF OnePath, UploadsAreKept
  <2>6. NoStrayFiles'
    BY <2>1, <2>2, <2>3 DEF NoStrayFiles, OnePath
  <2> QED BY <2>4, <2>5, <2>6
<1>7. CASE CopyFails(f)
  <2>1. /\ pc[f] = "copying" /\ disk' = [disk EXCEPT ![Path(f)] = None]
        /\ UNCHANGED <<whole, tried, moved, cut, named>>
    BY <1>7 DEF CopyFails
  <2>2. Path(f) \in Paths /\ disk[Path(f)] = f
    BY <2>1, PathIsPath DEF Handled, DiskInv, WritesItsOwn
  <2>3. /\ \A g \in Files : Name(g)' = Name(g) /\ Path(g)' = Path(g) /\ (g # f => pc'[g] = pc[g])
        /\ pc'[f] = "error"
    BY <1>0, <1>7, <2>1 DEF Name, Path, CopyFails
  <2>4. \A q \in Paths : disk'[q] = IF q = Path(f) THEN None ELSE disk[q]
    BY <2>1 DEF DiskInv, DiskTypes
  <2>5. \A g \in Files : pc[g] \in {"ok", "copying"} => Path(g) \in Paths
    BY PathIsPath DEF Handled
  <2> USE DEF DiskInv, Handled
  <2>6. DiskTypes' /\ TriedOK' /\ CutShort'
    BY <2>1, <2>2, <2>3, <2>4 DEF DiskTypes, TriedOK, CutShort
  <2>7. WritesItsOwn' /\ UploadsAreKept'
    BY <2>1, <2>2, <2>3, <2>4, <2>5 DEF WritesItsOwn, UploadsAreKept
  <2>8. OnePath' /\ NoStrayFiles'
    BY <2>1, <2>2, <2>3, <2>4, NoneIsNoFile DEF OnePath, NoStrayFiles
  <2> QED BY <2>6, <2>7, <2>8
<1> QED BY <1>1, <1>2, <1>5, <1>6, <1>7 DEF Handle
LEMMA StepDisk == DropInv /\ DiskInv /\ [Next]_vars => DiskInv'
<1> SUFFICES ASSUME DropInv, DiskInv, [Next]_vars PROVE DiskInv'
  OBVIOUS
<1>0. /\ pc \in [Files -> States] /\ named \in [Drops -> Seq(Names)] /\ at \in [Drops -> Nat]
      /\ LoopOK
  BY DEF DropInv, DropTypes
<1>1. ASSUME NEW d \in Drops, Drop(d) PROVE DiskInv'
  <2>1. \A f \in Files : f[1] = d => pc[f] = "none"
    BY <1>0, <1>1, FileShape DEF Drop, LoopOK
  <2>2. PICK fs : named' = [named EXCEPT ![d] = fs]
    BY <1>1 DEF Drop
  <2>3. \A f \in Files : pc[f] # "none" => Name(f)' = Name(f)
    BY <1>0, <2>1, <2>2, FileShape DEF Name
  <2>4. \A f \in Files : pc'[f] = pc[f] \/ (pc[f] = "none" /\ pc'[f] = "sent")
    BY <1>0, <1>1, <2>1 DEF Drop
  <2> QED BY <1>1, <2>3, <2>4, QuietStep DEF Drop
<1>2. ASSUME NEW d \in Drops, UnderWay(d), NextFile(d) PROVE DiskInv'
  <2>1. <<d, at[d] + 1>> \in Files => pc[<<d, at[d] + 1>>] = "none"
    BY <1>0 DEF LoopOK
  <2>2. \A f \in Files : pc'[f] = pc[f] \/ (pc[f] = "none" /\ pc'[f] = "sent")
    BY <1>0, <1>2, <2>1 DEF NextFile
  <2> QED BY <1>2, <2>2, QuietStep DEF NextFile, Name
<1>3. ASSUME NEW d \in Drops, Leave(d) PROVE DiskInv'
  BY <1>3, QuietStep DEF Leave, serverVars, Name
<1>4. ASSUME NEW f \in Files, Handle(f) PROVE DiskInv'
  BY <1>4, HandlerDisk
<1>5. ASSUME NEW t \in Tabs, Select(t) \/ DeleteTab(t) PROVE DiskInv'
  BY <1>5, QuietStep DEF Select, DeleteTab, serverVars, dropVars, Name
<1>6. ASSUME NEW q \in Paths, TakeAway(q) PROVE DiskInv'
  <2>1. /\ disk[q] # None /\ \A f \in Files : pc[f] = "copying" => disk[q] # f
        /\ whole' = whole \ {q} /\ moved' = moved \cup ({disk[q]} \cap Files)
        /\ UNCHANGED <<pc, tried, cut, named>>
    BY <1>6 DEF TakeAway, dropVars
  <2>2. \A r \in Paths : disk'[r] = IF r = q THEN None ELSE disk[r]
    BY <1>6 DEF TakeAway, DiskInv, DiskTypes
  <2>3. \A f \in Files : Path(f)' = Path(f) /\ Name(f)' = Name(f)
    BY <2>1 DEF Path, Name
  <2>4. \A f \in Files : pc[f] \in {"ok", "copying"} => Path(f) \in Paths
    BY PathIsPath DEF Handled
  <2> USE DEF DiskInv
  <2>5. DiskTypes' /\ TriedOK' /\ CutShort'
    BY <1>6, <2>1, <2>2, <2>3 DEF DiskTypes, TriedOK, CutShort, TakeAway
  <2>6. WritesItsOwn'
    BY <2>1, <2>2, <2>3, <2>4 DEF WritesItsOwn
  <2>7. UploadsAreKept'
    BY <2>1, <2>2, <2>3, <2>4 DEF UploadsAreKept
  <2>8. OnePath' /\ NoStrayFiles'
    BY <2>1, <2>2, <2>3, NoneIsNoFile DEF OnePath, NoStrayFiles
  <2> QED BY <2>5, <2>6, <2>7, <2>8
<1>7. CASE Restart
  <2>1. /\ cut' = cut \cup {f \in Files : pc[f] = "copying"}
        /\ UNCHANGED <<disk, whole, tried, named, moved>>
    BY <1>7 DEF Restart, dropVars
  <2>2. \A f \in Files : pc'[f] = IF pc[f] \in {"none", "ok"} THEN pc[f] ELSE "error"
    BY <1>7 DEF Restart
  <2>3. \A f \in Files : Path(f)' = Path(f) /\ Name(f)' = Name(f)
    BY <2>1 DEF Path, Name
  <2> USE DEF DiskInv, Handled
  <2>4. DiskTypes' /\ TriedOK' /\ CutShort' /\ WritesItsOwn'
    BY <2>1, <2>2, <2>3 DEF DiskTypes, TriedOK, CutShort, WritesItsOwn
  <2>5. UploadsAreKept' /\ OnePath'
    BY <2>1, <2>2, <2>3 DEF UploadsAreKept, OnePath
  <2>6. NoStrayFiles'
    BY <2>1, <2>2 DEF NoStrayFiles, CutShort
  <2> QED BY <2>4, <2>5, <2>6
<1>8. CASE UNCHANGED vars
  BY <1>8, QuietStep DEF vars, serverVars, dropVars, Name
<1> QED BY <1>1, <1>2, <1>3, <1>4, <1>5, <1>6, <1>7, <1>8
        DEF Next, Disturb, Receive, Uploaded, Refused, Lost

LEMMA DiskAlways == Spec => [](DropInv /\ DiskInv)
<1>1. DropInv /\ DiskInv /\ [Next]_vars => (DropInv /\ DiskInv)'
  BY StepDrop, StepDisk
<1> QED BY InitDrop, InitDisk, <1>1, PTL DEF Spec

(* The path of an answered upload has that file, whole, until the user     *)
(* takes it away: no other upload overwrites or removes it                 *)
(* (upload.go:82-97).                                                      *)
THEOREM UploadsStay == Spec => []UploadsAreKept
<1>1. DiskInv => UploadsAreKept
  BY DEF DiskInv
<1> QED BY <1>1, DiskAlways, PTL

(* A failed upload leaves no file behind, unless the server stopped while  *)
(* it was being written (upload.go:95-97).                                 *)
THEOREM FailuresCleanUp == Spec => []NoStrayFiles
<1>1. DiskInv => NoStrayFiles
  BY DEF DiskInv
<1> QED BY <1>1, DiskAlways, PTL

-----------------------------------------------------------------------------
(* The terminals *)

(* What was pasted is behind the loop of its drop. *)
PasteInv ==
    /\ pasted \in [Tabs -> Seq(Files)]
    /\ \A t \in Tabs : \A i \in DOMAIN pasted[t] : pasted[t][i][2] < at[pasted[t][i][1]]
    /\ PastedWhereDropped

LEMMA InitPaste == Init => PasteInv
<1> SUFFICES ASSUME Init PROVE PasteInv
  OBVIOUS
<1>1. \A t \in Tabs : pasted[t] = <<>> /\ DOMAIN pasted[t] = {}
  <2>1. \A t \in Tabs : pasted[t] = <<>>
    BY DEF Init
  <2>2. DOMAIN <<>> = {}
    OBVIOUS
  <2> QED BY <2>1, <2>2
<1>2. <<>> \in Seq(Files)
  OBVIOUS
<1> QED BY <1>1, <1>2 DEF Init, PasteInv, PastedWhereDropped

(* Steps that paste nothing: the loops only go on, a drop keeps its tab    *)
(* once it has begun, and an answer stays an answer.                       *)
LEMMA NoPaste ==
    ASSUME DropInv, PasteInv, UNCHANGED pasted,
           \A d \in Drops : at'[d] \in Nat /\ at[d] <= at'[d] /\ (at[d] > 0 => tab'[d] = tab[d]),
           \A f \in Files : pc[f] = "ok" => pc'[f] = "ok"
    PROVE  PasteInv'
<1>1. \A t \in Tabs : \A i \in DOMAIN pasted[t] :
        /\ pasted[t][i] \in Files /\ pasted[t][i][1] \in Drops
        /\ pasted[t][i][2] \in Nat \ {0} /\ pasted[t][i][2] < at[pasted[t][i][1]]
        /\ at[pasted[t][i][1]] \in Nat
  BY FileShape DEF PasteInv, DropInv, DropTypes
<1>2. \A t \in Tabs : \A i \in DOMAIN pasted[t] :
        /\ pasted[t][i][2] < at'[pasted[t][i][1]]
        /\ tab'[pasted[t][i][1]] = tab[pasted[t][i][1]]
  BY <1>1
<1> QED BY <1>1, <1>2 DEF PasteInv, PastedWhereDropped

LEMMA StepPaste == DropInv /\ PasteInv /\ [Next]_vars => PasteInv'
<1> SUFFICES ASSUME DropInv, PasteInv, [Next]_vars PROVE PasteInv'
  OBVIOUS
<1>0. /\ pc \in [Files -> States] /\ named \in [Drops -> Seq(Names)] /\ at \in [Drops -> Nat]
      /\ tab \in [Drops -> Tabs \cup {None}] /\ LoopOK
  BY DEF DropInv, DropTypes
<1>1. ASSUME NEW d \in Drops, Drop(d) PROVE PasteInv'
  <2>1. \A c \in Drops : at'[c] \in Nat /\ at[c] <= at'[c] /\ (at[c] > 0 => tab'[c] = tab[c])
    BY <1>0, <1>1 DEF Drop
  <2>2. \A f \in Files : f[1] = d => pc[f] = "none"
    BY <1>0, <1>1, FileShape DEF Drop, LoopOK
  <2>3. \A f \in Files : pc[f] = "ok" => pc'[f] = "ok"
    <3> SUFFICES ASSUME NEW f \in Files, pc[f] = "ok" PROVE pc'[f] = "ok"
      OBVIOUS
    <3>1. f # <<d, 1>>
      BY <2>2
    <3> QED BY <1>0, <1>1, <3>1 DEF Drop
  <2>4. UNCHANGED pasted
    BY <1>1 DEF Drop
  <2> QED BY <2>1, <2>3, <2>4, NoPaste
<1>2. ASSUME NEW d \in Drops, UnderWay(d), NextFile(d)
      PROVE  /\ \A c \in Drops : at'[c] \in Nat /\ at[c] <= at'[c] /\ tab'[c] = tab[c]
             /\ at'[d] = at[d] + 1
             /\ \A f \in Files : pc[f] = "ok" => pc'[f] = "ok"
  <2>1. /\ \A c \in Drops : at'[c] \in Nat /\ at[c] <= at'[c] /\ tab'[c] = tab[c]
        /\ at'[d] = at[d] + 1
    BY <1>0, <1>2 DEF NextFile
  <2>2. \A f \in Files : pc[f] = "ok" => pc'[f] = "ok"
    <3> SUFFICES ASSUME NEW f \in Files, pc[f] = "ok" PROVE pc'[f] = "ok"
      OBVIOUS
    <3>1. at[d] \in Nat /\ f[2] \in Nat /\ f[2] <= at[f[1]]
      BY <1>0, FileShape DEF LoopOK
    <3>2. f # <<d, at[d] + 1>>
      BY <3>1
    <3>3. pc'[f] = pc[f]
      BY <1>0, <1>2, <3>2 DEF NextFile
    <3> QED BY <3>3
  <2> QED BY <2>1, <2>2
<1>3. ASSUME NEW d \in Drops, Refused(d) \/ Lost(d) PROVE PasteInv'
  BY <1>2, <1>3, NoPaste DEF Refused, Lost
<1>4. ASSUME NEW d \in Drops, Uploaded(d) PROVE PasteInv'
  <2> DEFINE f == Awaited(d)  t == tab[d]
  <2>1. f \in Files /\ f[1] = d /\ f[2] = at[d] /\ at[d] \in Nat \ {0} /\ t \in Tabs
    <3>1. UnderWay(d)
      BY <1>4 DEF Uploaded
    <3>2. f \in Files /\ at[d] \in Nat \ {0} /\ f[1] = d /\ f[2] = at[d]
      BY <3>1, AwaitedIsFile DEF Awaited
    <3>3. at[d] > 0
      BY <3>2
    <3>4. tab[d] \in Tabs
      BY <1>0, <3>3 DEF LoopOK
    <3> QED BY <3>2, <3>4
  <2>2. /\ pasted[t] \in Seq(Files) /\ Len(pasted[t]) \in Nat
        /\ DOMAIN pasted[t] = 1 .. Len(pasted[t])
    BY <2>1 DEF PasteInv
  <2>3. pasted' = [pasted EXCEPT ![t] = Append(pasted[t], f)]
    BY <1>4 DEF Uploaded
  <2>4. /\ Append(pasted[t], f) \in Seq(Files)
        /\ DOMAIN Append(pasted[t], f) = 1 .. Len(pasted[t]) + 1
        /\ \A i \in 1 .. Len(pasted[t]) : Append(pasted[t], f)[i] = pasted[t][i]
        /\ Append(pasted[t], f)[Len(pasted[t]) + 1] = f
    BY <2>1, <2>2, AppendProperties
  <2>5. pasted' \in [Tabs -> Seq(Files)]
    BY <2>3, <2>4 DEF PasteInv
  <2>6. /\ DOMAIN pasted'[t] = DOMAIN pasted[t] \cup {Len(pasted[t]) + 1}
        /\ \A i \in DOMAIN pasted[t] : pasted'[t][i] = pasted[t][i] /\ i < Len(pasted[t]) + 1
        /\ pasted'[t][Len(pasted[t]) + 1] = f
        /\ \A s \in Tabs : s # t => pasted'[s] = pasted[s]
    BY <2>1, <2>2, <2>3, <2>4 DEF PasteInv
  <2>7. /\ \A c \in Drops : at'[c] \in Nat /\ at[c] <= at'[c] /\ tab'[c] = tab[c]
        /\ at'[d] = at[d] + 1
        /\ \A g \in Files : pc[g] = "ok" => pc'[g] = "ok"
    BY <1>2, <1>4 DEF Uploaded
  <2>8. pc[f] = "ok"
    BY <1>4 DEF Uploaded
  <2>9. \A s \in Tabs : \A i \in DOMAIN pasted[s] :
          /\ pasted[s][i] \in Files /\ pasted[s][i][1] \in Drops /\ pasted[s][i][2] \in Nat
          /\ pasted[s][i][2] < at[pasted[s][i][1]] /\ at[pasted[s][i][1]] \in Nat
          /\ tab[pasted[s][i][1]] = s /\ pc[pasted[s][i]] = "ok"
    BY <1>0, FileShape DEF PasteInv, PastedWhereDropped
  <2> HIDE DEF f, t
  <2>10. \A s \in Tabs : \A i \in DOMAIN pasted'[s] :
          /\ pasted'[s][i][2] < at'[pasted'[s][i][1]]
          /\ tab'[pasted'[s][i][1]] = s /\ pc'[pasted'[s][i]] = "ok"
    <3> TAKE s \in Tabs
    <3> TAKE i \in DOMAIN pasted'[s]
    <3>1. CASE i \in DOMAIN pasted[s] /\ pasted'[s][i] = pasted[s][i]
      BY <2>7, <2>9, <3>1
    <3>2. CASE s = t /\ pasted'[s][i] = f
      BY <2>1, <2>7, <2>8, <3>2 DEF t
    <3> QED BY <2>6, <3>1, <3>2
  <2>11. \A s \in Tabs : \A i, j \in DOMAIN pasted'[s] :
           i < j /\ pasted'[s][i][1] = pasted'[s][j][1] => pasted'[s][i][2] < pasted'[s][j][2]
    <3> TAKE s \in Tabs
    <3> TAKE i, j \in DOMAIN pasted'[s]
    <3> HAVE i < j /\ pasted'[s][i][1] = pasted'[s][j][1]
    <3>1. CASE s # t
      BY <2>6, <3>1 DEF PasteInv, PastedWhereDropped
    <3>2. CASE s = t /\ j \in DOMAIN pasted[t]
      <4>1. i \in DOMAIN pasted[t]
        BY <2>2, <2>6, <3>2
      <4> QED BY <2>1, <2>6, <3>2, <4>1 DEF PasteInv, PastedWhereDropped
    <3>3. CASE s = t /\ j = Len(pasted[t]) + 1
      <4>1. i \in DOMAIN pasted[t]
        BY <2>2, <2>6, <3>3
      <4>2. pasted[t][i][1] = d /\ pasted[t][i][2] < at[d]
        BY <2>1, <2>6, <2>9, <3>3, <4>1
      <4> QED BY <2>1, <2>6, <3>3, <4>1, <4>2
    <3> QED BY <2>6, <3>1, <3>2, <3>3
  <2> QED BY <2>5, <2>10, <2>11 DEF PasteInv, PastedWhereDropped
<1>5. ASSUME NEW d \in Drops, Leave(d) PROVE PasteInv'
  <2>1. at'[d] = Len(named[d]) + 1 /\ Len(named[d]) \in Nat /\ at[d] <= Len(named[d]) + 1
    BY <1>0, <1>5 DEF Leave, LoopOK
  <2> QED BY <1>0, <1>5, <2>1, NoPaste DEF Leave, serverVars
<1>6. ASSUME NEW f \in Files, Handle(f) PROVE PasteInv'
  <2>1. PICK w \in States \ {"none", "sent"} : pc' = [pc EXCEPT ![f] = w]
    BY <1>6, HandlerStep
  <2>2. pc[f] # "ok" /\ BrowserWaits
    BY <1>6, HandlerStep DEF Handled
  <2> QED BY <1>0, <2>1, <2>2, NoPaste DEF BrowserWaits, dropVars
<1>7. CASE \/ \E t \in Tabs : Select(t) \/ DeleteTab(t)
           \/ \E q \in Paths : TakeAway(q)
           \/ Restart
           \/ UNCHANGED vars
  <2>1. UNCHANGED dropVars /\ \A f \in Files : pc[f] = "ok" => pc'[f] = "ok"
    BY <1>7 DEF Select, DeleteTab, TakeAway, Restart, serverVars, vars
  <2> QED BY <1>0, <2>1, NoPaste DEF dropVars
<1> QED BY <1>1, <1>3, <1>4, <1>5, <1>6, <1>7 DEF Next, Disturb, Receive

(* The paths of a drop are pasted in the order of its files, into the      *)
(* terminal they were dropped on (TerminalView.tsx:86-91).                 *)
THEOREM PathsArriveInOrder == Spec => []PastedWhereDropped
<1>1. DropInv /\ PasteInv /\ [Next]_vars => (DropInv /\ PasteInv)'
  BY StepDrop, StepPaste
<1>2. PasteInv => PastedWhereDropped
  BY DEF PasteInv
<1> QED BY InitDrop, InitPaste, <1>1, <1>2, PTL DEF Spec

(* Types; in particular a loop stops after the last of its files.          *)
THEOREM TypeCorrect == Spec => []TypeOK
<1> DEFINE Rest == rows \subseteq Tabs /\ acts \in 0 .. MaxActs
<1>1. Init => Rest
  BY FileUploadAssumption DEF Init
<1>2. Rest /\ [Next]_vars => Rest'
  <2> SUFFICES ASSUME Rest, [Next]_vars PROVE Rest'
    OBVIOUS
  <2>1. rows' \subseteq rows
    <3> USE DEF serverVars, BrowserWaits
    <3>1. ASSUME NEW d \in Drops, Drop(d) \/ Receive(d) \/ Lost(d) \/ Leave(d)
          PROVE  rows' \subseteq rows
      BY <3>1 DEF Drop, Receive, Uploaded, Refused, Lost, Leave, NextFile
    <3>2. ASSUME NEW f \in Files, Handle(f) PROVE rows' \subseteq rows
      BY <3>2 DEF Handle, Check, Stat, Create, Copy, CopyFails
    <3>3. ASSUME NEW t \in Tabs, Select(t) \/ DeleteTab(t) PROVE rows' \subseteq rows
      BY <3>3 DEF Select, DeleteTab
    <3>4. ASSUME NEW q \in Paths, TakeAway(q) PROVE rows' \subseteq rows
      BY <3>4 DEF TakeAway
    <3>5. CASE Restart \/ UNCHANGED vars
      BY <3>5 DEF Restart, vars
    <3> QED BY <3>1, <3>2, <3>3, <3>4, <3>5 DEF Next, Disturb
  <2>2. acts' \in 0 .. MaxActs
    BY FileUploadAssumption DEF Next, Calm, vars
  <2> QED BY <2>1, <2>2
<1>3. DropInv /\ DiskInv /\ PasteInv /\ Rest => TypeOK
  BY DEF DropInv, DropTypes, LoopOK, DiskInv, DiskTypes, PasteInv, TypeOK, States
<1>4. DropInv /\ PasteInv /\ [Next]_vars => PasteInv'
  BY StepPaste
<1> QED BY InitPaste, DiskAlways, <1>1, <1>2, <1>3, <1>4, PTL DEF Spec
==============================================================================
