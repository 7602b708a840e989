------------------------ MODULE DatexDownloaderProofs ------------------------
(***************************************************************************)
(* Theorems about DatexDownloader, for every set of messages, every number *)
(* of files to keep and any number of crashes and failed writes.  The      *)
(* induction rules come from BatchesProofs.                                *)
(***************************************************************************)
EXTENDS DatexDownloader, BatchesProofs

USE ConstantsAssumption DEF ConstantsAssumption

Status == {"new", "receiving", "ok", "rejected", "failed"}
Stages == {"idle", "create", "write", "prune"}
Accepted == [msg : Messages, time : Nat]

TypeOK ==
  /\ up \in BOOLEAN
  /\ memory \in [msg : Messages \cup {None}, content : Contents]
  /\ files \in SUBSET File /\ IsFiniteSet(files)
  /\ clock \in Nat
  /\ uploads \in [Messages -> Status]
  /\ busy \in [msg : Messages \cup {None}, stage : Stages, name : Nat \X Nat]
  /\ saves \in Seq(Messages)
  /\ accepted \in Seq(Accepted)
  /\ used \in [crashes : 0 .. MaxCrashes, failures : 0 .. MaxFailures]

Saved(m) == \E i \in DOMAIN saves : saves[i] = m

\* The upload between storage.save and the response is the last one saved, the one in
\* memory and not answered yet; the file being written is its own, and the newest.
BusyInv ==
  /\ busy.stage = "idle" => busy = Idle
  /\ busy.stage # "idle" =>
       /\ up
       /\ busy.msg \in Messages /\ uploads[busy.msg] = "receiving"
       /\ memory.msg = busy.msg
       /\ saves # <<>> /\ saves[Len(saves)] = busy.msg
  /\ busy.stage \in {"write", "prune"} =>
       \E f \in files : /\ f.name = busy.name /\ f.msg = busy.msg
                        /\ f.time + 1 = clock
                        /\ busy.stage = "prune" => f.content = "whole"

\* Files have names and times of their own.
FilesInv ==
  /\ \A f, g \in files : f.name = g.name \/ f.time = g.time => f = g
  /\ \A f \in files : f.time < clock /\ Saved(f.msg)

\* Every message is saved once, and answered before the next one is saved.
SavesInv ==
  /\ \A i, j \in DOMAIN saves : saves[i] = saves[j] => i = j
  /\ \A i \in DOMAIN saves :
       uploads[saves[i]] \in {"ok", "failed"} \/ (busy.stage # "idle" /\ saves[i] = busy.msg)

\* What is cut belongs to an upload that failed, or is being written.
CutInv ==
  /\ \A f \in files : f.content # "whole" =>
       uploads[f.msg] = "failed" \/ (busy.stage = "write" /\ f.name = busy.name)
  /\ memory.content # "whole" => memory.msg \in Messages /\ uploads[memory.msg] = "failed"

NewerThan(t) == {f \in files : f.time > t}

Kept(a) ==
  \/ \E f \in files : f.msg = a.msg /\ f.content = "whole" /\ f.time = a.time
  \/ Cardinality(NewerThan(a.time)) >= MaxStoredFiles

\* An acknowledged message is on the disk, or enough newer ones are.
AcceptedInv ==
  \A i \in DOMAIN accepted :
    /\ uploads[accepted[i].msg] = "ok" /\ Saved(accepted[i].msg)
    /\ accepted[i].time < clock
    /\ Kept(accepted[i])

\* m was saved no earlier than n.
NotBefore(m, n) == \A i, j \in DOMAIN saves : saves[i] = m /\ saves[j] = n => i >= j

\* What is served, and every file no older than the last acknowledged message's, is of
\* a message saved no earlier than that one.
BehindInv ==
  accepted # <<>> =>
    LET last == accepted[Len(accepted)] IN
    /\ \A f \in files : f.time >= last.time => NotBefore(f.msg, last.msg)
    /\ up => memory.msg \in Messages /\ Saved(memory.msg) /\ NotBefore(memory.msg, last.msg)

DiskInv == BusyInv /\ FilesInv /\ SavesInv /\ CutInv /\ AcceptedInv /\ BehindInv

-----------------------------------------------------------------------------
(* Sets of files *)

LEMMA Bounds ==
  /\ MaxStoredFiles \in Nat \ {0} /\ TicksPerSecond \in Nat \ {0}
  /\ MaxCrashes \in Nat /\ MaxFailures \in Nat /\ None \notin Messages
  OBVIOUS

LEMMA FileType ==
  ASSUME TypeOK
  PROVE  \A f \in files : /\ f.name \in Nat \X Nat /\ f.msg \in Messages
                          /\ f.content \in Contents /\ f.time \in Nat
  BY DEF TypeOK, File

\* Some file is the newest.
LEMMA NewestExists ==
  ASSUME TypeOK, FilesInv, NEW S \in SUBSET files, S # {}
  PROVE  \E f \in S : \A g \in S : g.time <= f.time
<1> DEFINE ages == {clock - g.time : g \in S}
<1>1. clock \in Nat /\ \A g \in S : g.time \in Nat /\ g.time < clock
  BY FileType DEF TypeOK, FilesInv
<1>2. ages \in SUBSET Nat /\ ages # {}
  BY <1>1
<1>3. PICK n \in ages : \A m \in ages : n <= m
  BY <1>2, LeastNat
<1>4. PICK f \in S : n = clock - f.time
  BY <1>3
<1>5. \A g \in S : clock - f.time <= clock - g.time
  BY <1>3, <1>4
<1> QED  BY <1>1, <1>5

\* However many files are kept, there are that many newest ones.
LEMMA NewestFiles ==
  ASSUME TypeOK, FilesInv, NEW n \in Nat, n <= Cardinality(files)
  PROVE  \E S \in SUBSET files :
           Cardinality(S) = n /\ \A f \in S, g \in files \ S : f.time > g.time
<1>0. IsFiniteSet(files)
  BY DEF TypeOK
<1> DEFINE Cut(k, S) == /\ Cardinality(S) = k
                        /\ \A f \in S, g \in files \ S : f.time > g.time
           T == {k \in Nat : k <= Cardinality(files) => \E S \in SUBSET files : Cut(k, S)}
<1>1. 0 \in T
  <2>1. Cut(0, {})
    BY FS_EmptySet
  <2> QED  BY <2>1
<1>2. ASSUME NEW k \in T PROVE k + 1 \in T
  <2> SUFFICES ASSUME k + 1 <= Cardinality(files) PROVE \E S \in SUBSET files : Cut(k + 1, S)
    OBVIOUS
  <2>1. Cardinality(files) \in Nat
    BY <1>0, FS_CardinalityType
  <2>2. PICK S \in SUBSET files : Cut(k, S)
    BY <2>1
  <2>3. files \ S # {}
    <3>1. S # files
      BY <2>1, <2>2
    <3> QED  BY <3>1
  <2>4. PICK f \in files \ S : \A g \in files \ S : g.time <= f.time
    BY <2>3, NewestExists
  <2>5. \A g \in files \ S : g # f => f.time > g.time
    <3>1. \A g \in files : g.time \in Nat
      BY FileType
    <3>2. \A g \in files : g # f => g.time # f.time
      BY DEF FilesInv
    <3> QED  BY <2>4, <3>1, <3>2
  <2>6. IsFiniteSet(S)
    BY <1>0, FS_Subset
  <2>7. Cardinality(S \cup {f}) = k + 1
    BY <2>2, <2>6, FS_AddElement
  <2>8. Cut(k + 1, S \cup {f})
    BY <2>2, <2>5, <2>7
  <2> QED  BY <2>8
<1>3. T \in SUBSET Nat
  OBVIOUS
<1> HIDE DEF T
<1>4. n \in T
  BY <1>1, <1>2, <1>3, NatSetInduction
<1> QED  BY <1>4 DEF T

LEMMA PrunedFiles ==
  ASSUME TypeOK, FilesInv
  PROVE  /\ Pruned \in SUBSET files
         /\ Cardinality(Pruned) = IF Cardinality(files) > MaxStoredFiles
                                  THEN MaxStoredFiles ELSE Cardinality(files)
         /\ \A f \in Pruned, g \in files \ Pruned : f.time > g.time
<1> DEFINE n == IF Cardinality(files) > MaxStoredFiles THEN MaxStoredFiles
                                                     ELSE Cardinality(files)
<1>1. Cardinality(files) \in Nat
  BY FS_CardinalityType DEF TypeOK
<1>2. n \in Nat /\ n <= Cardinality(files)
  BY <1>1, Bounds
<1> HIDE DEF n
<1>3. \E S \in SUBSET files : Cardinality(S) = n /\ \A f \in S, g \in files \ S : f.time > g.time
  BY <1>2, NewestFiles
<1> QED  BY <1>3 DEF Pruned, n

\* Of the names of one second, one more than there are files, one is free: persist_xml
\* ends and writes over nothing.
LEMMA NameIsFree ==
  ASSUME TypeOK
  PROVE  FreeName \in Nat \X Nat /\ \A f \in files : f.name # FreeName
<1> DEFINE second == clock \div TicksPerSecond
           N == Cardinality(files)
           Taken(n) == \E f \in files : f.name = <<second, n>>
<1>0. IsFiniteSet(files) /\ N \in Nat
  BY FS_CardinalityType DEF TypeOK
<1>a. second \in Nat
  <2>1. clock \in Nat /\ TicksPerSecond \in Nat \ {0}
    BY Bounds DEF TypeOK
  <2> QED  BY <2>1
<1> HIDE DEF second
<1>1. IsFiniteSet(files) /\ N \in Nat /\ second \in Nat
  BY <1>0, <1>a
<1>2. \E n \in 0 .. N : ~Taken(n)
  <2> SUFFICES ASSUME \A n \in 0 .. N : Taken(n) PROVE FALSE
    OBVIOUS
  <2> DEFINE h == [n \in 0 .. N |-> CHOOSE f \in files : f.name = <<second, n>>]
  <2>1. \A n \in 0 .. N : h[n] \in files /\ h[n].name = <<second, n>>
    OBVIOUS
  <2>2. h \in [0 .. N -> files]
    BY <2>1
  <2> HIDE DEF N
  <2>3. IsFiniteSet(0 .. N) /\ Cardinality(0 .. N) = N + 1
    <3>1. 0 \in Int /\ N \in Int
      BY <1>1
    <3>2. /\ IsFiniteSet(0 .. N)
          /\ Cardinality(0 .. N) = IF 0 > N THEN 0 ELSE N - 0 + 1
      BY ONLY <3>1, FS_Interval, Zenon
    <3> QED  BY <1>1, <3>2
  <2>4. Cardinality(files) < Cardinality(0 .. N)
    BY <1>1, <2>3 DEF N
  <2> HIDE DEF h
  <2>5. \E x, y \in 0 .. N : x # y /\ h[x] = h[y]
    BY <1>1, <2>2, <2>3, <2>4, FS_PigeonHole
  <2>6. \A x, y \in 0 .. N : h[x] = h[y] => <<second, x>> = <<second, y>>
    BY <2>1
  <2> QED  BY <2>5, <2>6
<1>3. PICK n \in 0 .. N : ~Taken(n) /\ \A k \in 0 .. n - 1 : Taken(k)
  <2> DEFINE T == {n \in 0 .. N : ~Taken(n)}
  <2>1. T \in SUBSET Nat /\ T # {}
    <3> HIDE DEF Taken, N
    <3>1. 0 .. N \in SUBSET Nat
      BY <1>1
    <3> QED  BY <1>2, <3>1
  <2>2. PICK n \in T : \A m \in T : n <= m
    BY <2>1, LeastNat
  <2>3. \A k \in 0 .. n - 1 : k \in 0 .. N /\ ~(n <= k)
    BY <1>1, <2>2
  <2>4. \A k \in 0 .. n - 1 : Taken(k)
    BY <2>2, <2>3
  <2> QED  BY <2>2, <2>4
<1> DEFINE first == CHOOSE m \in 0 .. N : ~Taken(m) /\ \A k \in 0 .. m - 1 : Taken(k)
<1>4. first \in 0 .. N /\ ~Taken(first)
  BY <1>3
<1>5. FreeName = <<second, first>>
  BY DEF FreeName, second
<1> HIDE DEF first, N
<1>6. first \in Nat
  BY <1>1, <1>4
<1> QED  BY <1>1, <1>4, <1>5, <1>6

\* A file written anew counts among the newer ones when the old one did.
LEMMA ReplacedNewer ==
  ASSUME NEW S, IsFiniteSet(S), NEW f \in S, NEW g, g \notin S \ {f},
         NEW t \in Nat, f.time \in Nat, g.time \in Nat, g.time >= f.time,
         NEW old, \A x : x \in old <=> x \in S /\ x.time > t,
         NEW new, \A x : x \in new <=> x \in (S \ {f}) \cup {g} /\ x.time > t
  PROVE  Cardinality(new) >= Cardinality(old)
<1>1. IsFiniteSet((S \ {f}) \cup {g})
  BY FS_RemoveElement, FS_AddElement
<1>2. IsFiniteSet(old) /\ IsFiniteSet(new)
  <2>1. old \subseteq S /\ new \subseteq (S \ {f}) \cup {g}
    OBVIOUS
  <2> QED  BY <1>1, <2>1, FS_Subset
<1>3. Cardinality(old) \in Nat /\ Cardinality(new) \in Nat
  BY <1>2, FS_CardinalityType
<1>4. CASE f \in old
  <2>1. new = (old \ {f}) \cup {g} /\ g \notin old \ {f}
    BY <1>4
  <2>2. IsFiniteSet(old \ {f}) /\ Cardinality(old \ {f}) = Cardinality(old) - 1
    BY <1>2, <1>4, FS_RemoveElement
  <2>3. Cardinality(new) = Cardinality(old)
    <3> DEFINE rest == old \ {f}
    <3>1. Cardinality(rest \cup {g}) = Cardinality(rest) + 1
      BY <2>1, <2>2, FS_AddElement
    <3>2. Cardinality(new) = Cardinality(rest \cup {g}) /\ Cardinality(rest) = Cardinality(old) - 1
      BY <2>1, <2>2
    <3> HIDE DEF rest
    <3> QED  BY <1>3, <3>1, <3>2
  <2> QED  BY <1>1, <1>3, <2>3
<1>5. CASE f \notin old
  <2>1. old \in SUBSET new
    BY <1>5
  <2>2. Cardinality(old) <= Cardinality(new)
    BY <1>2, <2>1, FS_Subset
  <2> QED  BY <1>1, <1>3, <2>2
<1> QED  BY <1>4, <1>5

-----------------------------------------------------------------------------
(* The orders of saving *)

LEMMA Logs ==
  ASSUME TypeOK
  PROVE  /\ Len(saves) \in Nat /\ DOMAIN saves = 1 .. Len(saves)
         /\ \A i \in DOMAIN saves : saves[i] \in Messages
         /\ saves # <<>> => Len(saves) \in DOMAIN saves
         /\ Len(accepted) \in Nat /\ DOMAIN accepted = 1 .. Len(accepted)
         /\ \A i \in DOMAIN accepted : /\ accepted[i].msg \in Messages
                                       /\ accepted[i].time \in Nat
         /\ accepted # <<>> => Len(accepted) \in DOMAIN accepted
<1>1. /\ Len(saves) \in Nat /\ DOMAIN saves = 1 .. Len(saves)
      /\ \A i \in DOMAIN saves : saves[i] \in Messages
      /\ saves # <<>> => Len(saves) \in DOMAIN saves
  BY LenProperties, ElementOfSeq, EmptySeq DEF TypeOK
<1>2. /\ Len(accepted) \in Nat /\ DOMAIN accepted = 1 .. Len(accepted)
      /\ \A i \in DOMAIN accepted : accepted[i] \in Accepted
      /\ accepted # <<>> => Len(accepted) \in DOMAIN accepted
  BY LenProperties, ElementOfSeq, EmptySeq DEF TypeOK
<1> QED  BY <1>1, <1>2 DEF Accepted

\* No message was saved after the one that is being persisted.
LEMMA LastNotBefore ==
  ASSUME TypeOK, BusyInv, SavesInv, busy.stage # "idle"
  PROVE  \A n : NotBefore(busy.msg, n)
<1>1. /\ Len(saves) \in Nat /\ DOMAIN saves = 1 .. Len(saves)
      /\ Len(saves) \in DOMAIN saves /\ saves[Len(saves)] = busy.msg
  BY Logs DEF BusyInv
<1>2. \A i \in DOMAIN saves : saves[i] = busy.msg => i = Len(saves)
  BY <1>1 DEF SavesInv
<1>3. \A j \in DOMAIN saves : j <= Len(saves)
  BY <1>1
<1> QED  BY <1>1, <1>2, <1>3 DEF NotBefore

\* The message being persisted is neither acknowledged nor failed.
LEMMA BusyIsOpen ==
  ASSUME TypeOK, DiskInv, busy.stage # "idle"
  PROVE  /\ uploads[busy.msg] = "receiving" /\ busy.msg \in Messages /\ Saved(busy.msg)
         /\ \A i \in DOMAIN accepted : accepted[i].msg # busy.msg
         /\ memory.content = "whole"
<1>1. uploads[busy.msg] = "receiving" /\ busy.msg \in Messages
  BY DEF DiskInv, BusyInv
<1>2. Saved(busy.msg)
  BY Logs DEF DiskInv, BusyInv, Saved
<1>3. \A i \in DOMAIN accepted : accepted[i].msg # busy.msg
  BY <1>1 DEF DiskInv, AcceptedInv
<1>4. memory.content = "whole"
  BY <1>1 DEF DiskInv, BusyInv, CutInv
<1> QED  BY <1>1, <1>2, <1>3, <1>4

-----------------------------------------------------------------------------
(* The invariant holds at the start *)

LEMMA InitDisk == Init => TypeOK /\ DiskInv
<1> SUFFICES ASSUME Init PROVE TypeOK /\ DiskInv
  OBVIOUS
<1>1. IsFiniteSet({})
  BY FS_EmptySet
<1>2. TypeOK
  BY <1>1, EmptySeq, Bounds DEF Init, TypeOK, Status, Stages, Nothing, Idle, Contents
<1>3. DOMAIN saves = {} /\ DOMAIN accepted = {} /\ accepted = <<>>
  BY DEF Init
<1>4. DiskInv
  BY <1>3 DEF DiskInv, BusyInv, FilesInv, SavesInv, CutInv, AcceptedInv, BehindInv,
              Init, Nothing, Idle
<1> QED  BY <1>2, <1>4

-----------------------------------------------------------------------------
(* Uploads *)

\* A change of an upload that is neither answered nor being persisted.
LEMMA UploadChanges ==
  ASSUME TypeOK, DiskInv, NEW m \in Messages, NEW s \in {"receiving", "rejected"},
         uploads[m] = "new" \/ (uploads[m] = "receiving" /\ busy = Idle),
         uploads' = [uploads EXCEPT ![m] = s],
         UNCHANGED <<up, memory, files, clock, busy, saves, accepted, used>>
  PROVE  TypeOK' /\ DiskInv'
<1>1. TypeOK'
  BY DEF TypeOK, Status
<1>2. /\ \A n \in Messages : uploads[n] \in {"ok", "failed"} => uploads'[n] = uploads[n]
      /\ busy.stage # "idle" => uploads'[busy.msg] = "receiving"
  BY DEF TypeOK, DiskInv, BusyInv, Idle
<1>3. BusyInv' /\ FilesInv'
  BY <1>2 DEF DiskInv, BusyInv, FilesInv, Saved, Idle
<1>4. SavesInv' /\ CutInv'
  BY <1>2, Logs, FileType DEF DiskInv, SavesInv, CutInv
<1>5. AcceptedInv' /\ BehindInv'
  <2>1. \A t \in Nat : NewerThan(t)' = NewerThan(t)
    BY DEF NewerThan
  <2>2. AcceptedInv'
    BY <1>2, <2>1, Logs DEF DiskInv, AcceptedInv, Kept, Saved
  <2>3. BehindInv'
    BY DEF DiskInv, BehindInv, Saved, NotBefore
  <2> QED  BY <2>2, <2>3
<1> QED  BY <1>1, <1>3, <1>4, <1>5 DEF DiskInv

LEMMA SaveKeeps ==
  ASSUME TypeOK, DiskInv, NEW m \in Messages, Save(m)
  PROVE  TypeOK' /\ DiskInv'
<1> DEFINE n == Len(saves)
<1>0. /\ uploads[m] = "receiving" /\ busy = Idle /\ busy.stage = "idle"
      /\ saves' = Append(saves, m)
      /\ memory' = [msg |-> m, content |-> "whole"]
      /\ busy' = [Idle EXCEPT !.msg = m, !.stage = "create"]
      /\ UNCHANGED <<up, files, clock, uploads, accepted, used>> /\ up
  BY DEF Save, Idle
<1>1. /\ n \in Nat /\ DOMAIN saves = 1 .. n /\ DOMAIN saves' = 1 .. n + 1 /\ Len(saves') = n + 1
      /\ saves' \in Seq(Messages) /\ saves' # <<>>
      /\ saves'[n + 1] = m /\ \A i \in DOMAIN saves : saves'[i] = saves[i]
  BY <1>0, AppendLog, SMTT(30) DEF TypeOK
<1> HIDE DEF n
<1>2. \A i \in DOMAIN saves : saves[i] # m
  BY <1>0 DEF DiskInv, SavesInv
<1>3. TypeOK'
  BY <1>0, <1>1 DEF TypeOK, Idle, Stages, Contents
<1>4. \A x : Saved(x) => Saved(x)' /\ x # m
  BY <1>1, <1>2 DEF Saved
<1>5. Saved(m)'
  BY <1>1 DEF Saved
<1>6. \A x, y : y # m /\ (x = m \/ NotBefore(x, y)) => NotBefore(x, y)'
  <2> SUFFICES ASSUME NEW x, NEW y, y # m, x = m \/ NotBefore(x, y),
                      NEW i \in DOMAIN saves', NEW j \in DOMAIN saves',
                      saves'[i] = x, saves'[j] = y
               PROVE  i >= j
    BY DEF NotBefore
  <2>1. j \in DOMAIN saves /\ saves[j] = y
    BY <1>1
  <2>2. CASE i = n + 1
    BY <1>1, <2>1, <2>2
  <2>3. CASE i # n + 1
    <3>1. i \in DOMAIN saves /\ saves[i] = x
      BY <1>1, <2>3
    <3> QED  BY <1>2, <2>1, <3>1 DEF NotBefore
  <2> QED  BY <2>2, <2>3
<1>7. BusyInv'
  BY <1>0, <1>1 DEF BusyInv, Idle
<1>8. FilesInv' /\ CutInv'
  BY <1>0, <1>4 DEF DiskInv, FilesInv, CutInv
<1>9. SavesInv'
  <2>1. \A i, j \in DOMAIN saves' : saves'[i] = saves'[j] => i = j
    BY <1>1, <1>2 DEF DiskInv, SavesInv
  <2>2. \A i \in DOMAIN saves' :
          uploads'[saves'[i]] \in {"ok", "failed"} \/ (busy'.stage # "idle" /\ saves'[i] = busy'.msg)
    BY <1>0, <1>1 DEF DiskInv, SavesInv, Idle
  <2> QED  BY <2>1, <2>2 DEF SavesInv
<1>10. AcceptedInv'
  BY <1>0, <1>4 DEF DiskInv, AcceptedInv, Kept, NewerThan
<1>11. BehindInv'
  <2>1. PICK last : last = accepted[Len(accepted)]
    OBVIOUS
  <2> SUFFICES ASSUME accepted # <<>>
               PROVE  /\ \A f \in files : f.time >= last.time => NotBefore(f.msg, last.msg)'
                      /\ Saved(m)' /\ NotBefore(m, last.msg)'
    BY <1>0, <2>1 DEF BehindInv
  <2>2. last.msg # m
    BY <1>4, <2>1, Logs DEF DiskInv, AcceptedInv
  <2>3. \A f \in files : f.time >= last.time => NotBefore(f.msg, last.msg)
    BY <2>1 DEF DiskInv, BehindInv
  <2>4. \A f \in files : f.time >= last.time => NotBefore(f.msg, last.msg)'
    BY <1>6, <2>2, <2>3
  <2> QED  BY <1>5, <1>6, <2>2, <2>4
<1> QED  BY <1>3, <1>7, <1>8, <1>9, <1>10, <1>11 DEF DiskInv

-----------------------------------------------------------------------------
(* The file being written *)

LEMMA CreateFileKeeps ==
  ASSUME TypeOK, DiskInv, CreateFile
  PROVE  TypeOK' /\ DiskInv'
<1>1. PICK new : new = [name |-> FreeName, msg |-> busy.msg, content |-> "cut", time |-> clock]
  OBVIOUS
<1>2. PICK free : free = FreeName
  OBVIOUS
<1>3. free \in Nat \X Nat /\ \A f \in files : f.name # free
  BY <1>2, NameIsFree
<1>4. /\ busy.stage = "create" /\ busy' = [busy EXCEPT !.stage = "write", !.name = free]
      /\ files' = files \cup {new} /\ clock' = clock + 1
      /\ UNCHANGED <<up, memory, uploads, saves, accepted, used>>
      /\ new.name = free /\ new.msg = busy.msg /\ new.content = "cut" /\ new.time = clock
  <2>1. {f \in files : f.name # free} = files
    BY <1>3
  <2> QED  BY <1>1, <1>2, <2>1 DEF CreateFile
<1>5. clock \in Nat /\ (\A f \in files : f.time \in Nat /\ f.time < clock) /\ new \notin files
  BY <1>3, <1>4, FileType DEF TypeOK, DiskInv, FilesInv
<1>6. uploads[busy.msg] = "receiving" /\ busy.msg \in Messages /\ Saved(busy.msg)
  BY <1>4, BusyIsOpen
<1>7. new \in File
  BY <1>1, <1>2, <1>3, <1>5, <1>6 DEF File, Contents
<1>8. TypeOK'
  <2>1. IsFiniteSet(files')
    BY <1>4, FS_AddElement DEF TypeOK
  <2>2. busy' \in [msg : Messages \cup {None}, stage : Stages, name : Nat \X Nat]
    <3>1. busy \in [msg : Messages \cup {None}, stage : Stages, name : Nat \X Nat]
      BY DEF TypeOK
    <3>2. "write" \in Stages
      BY DEF Stages
    <3> QED  BY <1>3, <1>4, <3>1, <3>2
  <2>3. files' \in SUBSET File /\ clock' \in Nat
    BY <1>4, <1>5, <1>7 DEF TypeOK
  <2> QED  BY <1>4, <2>1, <2>2, <2>3 DEF TypeOK
<1>9. busy'.stage = "write" /\ busy'.name = free /\ busy'.msg = busy.msg
  BY <1>4 DEF TypeOK
<1>10. BusyInv'
  BY <1>4, <1>9 DEF DiskInv, BusyInv
<1>11. FilesInv'
  <2>1. \A f, g \in files' : f.name = g.name \/ f.time = g.time => f = g
    BY <1>3, <1>4, <1>5 DEF DiskInv, FilesInv
  <2>2. \A f \in files' : f.time < clock' /\ Saved(f.msg)
    BY <1>4, <1>5, <1>6 DEF DiskInv, FilesInv
  <2> QED  BY <1>4, <2>1, <2>2 DEF FilesInv, Saved
<1>12. SavesInv'
  BY <1>4, <1>9 DEF DiskInv, SavesInv
<1>13. CutInv'
  BY <1>4, <1>9 DEF DiskInv, CutInv
<1>14. \A i \in DOMAIN accepted : Kept(accepted[i])'
  <2> SUFFICES ASSUME NEW i \in DOMAIN accepted PROVE Kept(accepted[i])'
    OBVIOUS
  <2>1. PICK a : a = accepted[i]
    OBVIOUS
  <2>2. a.time \in Nat /\ Kept(a)
    BY <2>1, Logs DEF DiskInv, AcceptedInv
  <2>3. CASE Cardinality(NewerThan(a.time)) >= MaxStoredFiles
    <3> DEFINE newer == {f \in files : f.time > a.time}
    <3>1. newer \subseteq newer' /\ IsFiniteSet(newer') /\ IsFiniteSet(newer)
      BY <1>4, <1>8, FS_Subset DEF TypeOK
    <3>2. /\ Cardinality(newer) <= Cardinality(newer')
          /\ Cardinality(newer) \in Nat /\ Cardinality(newer') \in Nat
      BY <3>1, FS_Subset, FS_CardinalityType
    <3>3. Cardinality(newer) >= MaxStoredFiles
      BY <2>3 DEF NewerThan
    <3>4. MaxStoredFiles \in Nat
      BY Bounds
    <3>5. Cardinality(newer') >= MaxStoredFiles
      <4> HIDE DEF newer
      <4> QED  BY <3>2, <3>3, <3>4
    <3> QED  BY <1>4, <2>1, <3>5 DEF Kept, NewerThan
  <2>4. CASE \E f \in files : f.msg = a.msg /\ f.content = "whole" /\ f.time = a.time
    BY <1>4, <2>1, <2>4 DEF Kept
  <2> QED  BY <2>2, <2>3, <2>4 DEF Kept
<1>15. AcceptedInv'
  <2>1. \A i \in DOMAIN accepted :
          uploads[accepted[i].msg] = "ok" /\ Saved(accepted[i].msg) /\ accepted[i].time < clock + 1
    BY <1>5, Logs DEF DiskInv, AcceptedInv
  <2> QED  BY <1>4, <1>14, <2>1 DEF AcceptedInv, Saved
<1>16. BehindInv'
  <2>1. NotBefore(new.msg, accepted[Len(accepted)].msg)
    BY <1>4, LastNotBefore DEF DiskInv
  <2> QED  BY <1>4, <2>1 DEF DiskInv, BehindInv, Saved, NotBefore
<1> QED  BY <1>8, <1>10, <1>11, <1>12, <1>13, <1>15, <1>16 DEF DiskInv

\* The file of the upload is written anew, whole or in part.
LEMMA FileReplaced ==
  ASSUME TypeOK, DiskInv, busy.stage = "write",
         NEW old \in files, old.name = busy.name, old.msg = busy.msg,
         NEW new \in File, new.name = old.name, new.msg = old.msg,
         new.time = old.time \/ new.time = clock,
         files' = (files \ {old}) \cup {new},
         UNCHANGED <<saves, accepted>>
  PROVE  /\ files' \in SUBSET File /\ IsFiniteSet(files')
         /\ \A f, g \in files' : f.name = g.name \/ f.time = g.time => f = g
         /\ \A f \in files' : Saved(f.msg)' /\ (f.time < clock \/ f = new)
         /\ \A i \in DOMAIN accepted : Kept(accepted[i])'
         /\ accepted # <<>> =>
              LET last == accepted[Len(accepted)] IN
              \A f \in files' : f.time >= last.time => NotBefore(f.msg, last.msg)'
<1>1. /\ clock \in Nat /\ \A f \in files : f.time \in Nat /\ f.time < clock
      /\ new.time \in Nat /\ new.time >= old.time /\ IsFiniteSet(files)
  BY FileType, SMTT(30) DEF TypeOK, DiskInv, FilesInv
<1>2. \A f, g \in files : f.name = g.name \/ f.time = g.time => f = g
  BY DEF DiskInv, FilesInv
<1>3. \A f \in files \ {old} : f.name # new.name /\ f.time # new.time
  BY <1>1, <1>2
<1>4. files' \in SUBSET File /\ IsFiniteSet(files')
  <2>1. files \in SUBSET File
    BY DEF TypeOK
  <2>2. IsFiniteSet((files \ {old}) \cup {new})
    BY <1>1, FS_RemoveElement, FS_AddElement
  <2> QED  BY <2>1, <2>2
<1>5. \A f, g \in files' : f.name = g.name \/ f.time = g.time => f = g
  BY <1>2, <1>3
<1>6. \A f \in files' : Saved(f.msg)' /\ (f.time < clock \/ f = new)
  <2>1. \A f \in files' : Saved(f.msg)
    BY BusyIsOpen DEF DiskInv, FilesInv
  <2> QED  BY <1>1, <2>1 DEF Saved
<1>7. \A i \in DOMAIN accepted : Kept(accepted[i])'
  <2> SUFFICES ASSUME NEW i \in DOMAIN accepted PROVE Kept(accepted[i])'
    OBVIOUS
  <2>1. PICK a : a = accepted[i]
    OBVIOUS
  <2>2. a.time \in Nat /\ Kept(a) /\ a.msg # old.msg /\ accepted'[i] = a
    BY <2>1, Logs, BusyIsOpen DEF DiskInv, AcceptedInv
  <2>3. CASE Cardinality(NewerThan(a.time)) >= MaxStoredFiles
    <3> DEFINE before == {f \in files : f.time > a.time}
               after == {f \in (files \ {old}) \cup {new} : f.time > a.time}
    <3>1. new \notin files \ {old}
      BY <1>3
    <3>2. old.time \in Nat
      BY <1>1
    <3>3. Cardinality(after) >= Cardinality(before)
      <4>1. /\ IsFiniteSet(files) /\ old \in files /\ a.time \in Nat
            /\ new.time \in Nat /\ new.time >= old.time
        BY <1>1, <2>2
      <4>2. \A x : x \in before <=> x \in files /\ x.time > a.time
        OBVIOUS
      <4>3. \A x : x \in after <=> x \in (files \ {old}) \cup {new} /\ x.time > a.time
        OBVIOUS
      <4> HIDE DEF before, after
      <4> QED  BY <3>1, <3>2, <4>1, <4>2, <4>3, ReplacedNewer
    <3>4. IsFiniteSet(before) /\ IsFiniteSet(after)
      BY <1>1, <1>4, FS_Subset
    <3>5. Cardinality(before) \in Nat /\ Cardinality(after) \in Nat /\ MaxStoredFiles \in Nat
      BY <3>4, FS_CardinalityType, Bounds
    <3>6. Cardinality(before) >= MaxStoredFiles
      BY <2>3 DEF NewerThan
    <3>7. Cardinality(after) >= MaxStoredFiles
      <4> HIDE DEF before, after
      <4> QED  BY <3>3, <3>5, <3>6
    <3> QED  BY <2>2, <3>7 DEF Kept, NewerThan
  <2>4. CASE \E f \in files : f.msg = a.msg /\ f.content = "whole" /\ f.time = a.time
    BY <2>2, <2>4 DEF Kept
  <2> QED  BY <2>2, <2>3, <2>4 DEF Kept
<1>8. ASSUME accepted # <<>>
      PROVE  \A f \in files' : f.time >= accepted[Len(accepted)].time =>
               NotBefore(f.msg, accepted[Len(accepted)].msg)'
  <2>1. PICK last : last = accepted[Len(accepted)]
    OBVIOUS
  <2>2. \A f \in files : f.time >= last.time => NotBefore(f.msg, last.msg)
    BY <1>8, <2>1 DEF DiskInv, BehindInv
  <2>3. NotBefore(new.msg, last.msg)
    BY LastNotBefore DEF DiskInv
  <2>4. \A f \in files' : f.time >= last.time => NotBefore(f.msg, last.msg)
    BY <2>2, <2>3
  <2> QED  BY <2>1, <2>4 DEF NotBefore
<1> QED  BY <1>4, <1>5, <1>6, <1>7, <1>8

\* The file of the upload is known by its name.
LEMMA BusyFile ==
  ASSUME TypeOK, DiskInv, busy.stage \in {"write", "prune"}
  PROVE  \E f \in files :
           /\ f.name = busy.name /\ f.msg = busy.msg /\ f.time + 1 = clock
           /\ \A g \in files : g.name = busy.name <=> g = f
           /\ busy.stage = "prune" => f.content = "whole"
<1>1. PICK f \in files : /\ f.name = busy.name /\ f.msg = busy.msg /\ f.time + 1 = clock
                         /\ busy.stage = "prune" => f.content = "whole"
  BY DEF DiskInv, BusyInv
<1>2. \A g \in files : g.name = busy.name <=> g = f
  BY <1>1 DEF DiskInv, FilesInv
<1> QED  BY <1>1, <1>2

LEMMA WriteFileKeeps ==
  ASSUME TypeOK, DiskInv, WriteFile
  PROVE  TypeOK' /\ DiskInv'
<1>1. /\ busy.stage = "write" /\ files' = Written("whole") /\ clock' = clock + 1
      /\ busy' = [busy EXCEPT !.stage = "prune"]
      /\ UNCHANGED <<up, memory, uploads, saves, accepted, used>>
  BY DEF WriteFile
<1>2. PICK old \in files : /\ old.name = busy.name /\ old.msg = busy.msg
                           /\ \A g \in files : g.name = busy.name <=> g = old
  BY <1>1, BusyFile
<1>3. PICK new : new = [name |-> busy.name, msg |-> busy.msg, content |-> "whole", time |-> clock]
  OBVIOUS
<1>4. /\ files' = (files \ {old}) \cup {new} /\ new.name = busy.name /\ new.msg = busy.msg
      /\ new.time = clock /\ new.content = "whole"
  BY <1>1, <1>2, <1>3 DEF Written
<1>5. clock \in Nat
  BY DEF TypeOK
<1>6. new \in File
  BY <1>3, <1>5, <1>1, BusyIsOpen DEF File, TypeOK, Contents
<1>7. /\ files' \in SUBSET File /\ IsFiniteSet(files')
      /\ \A f, g \in files' : f.name = g.name \/ f.time = g.time => f = g
      /\ \A f \in files' : Saved(f.msg)' /\ (f.time < clock \/ f = new)
      /\ \A i \in DOMAIN accepted : Kept(accepted[i])'
      /\ accepted # <<>> =>
           LET last == accepted[Len(accepted)] IN
           \A f \in files' : f.time >= last.time => NotBefore(f.msg, last.msg)'
  BY <1>1, <1>2, <1>4, <1>6, FileReplaced
<1>8. busy'.stage = "prune" /\ busy'.name = busy.name /\ busy'.msg = busy.msg
  BY <1>1 DEF TypeOK
<1>9. TypeOK'
  <2>1. busy' \in [msg : Messages \cup {None}, stage : Stages, name : Nat \X Nat]
    BY <1>1 DEF TypeOK, Stages
  <2> QED  BY <1>1, <1>5, <1>7, <2>1, SMTT(30) DEF TypeOK
<1>10. BusyInv'
  BY <1>1, <1>4, <1>8 DEF DiskInv, BusyInv
<1>11. FilesInv'
  <2>1. \A f \in files' : f.time \in Nat
    BY <1>7 DEF File
  <2>2. \A f \in files' : f.time < clock + 1
    BY <1>4, <1>5, <1>7, <2>1
  <2> QED  BY <1>1, <1>7, <2>2 DEF FilesInv
<1>12. SavesInv'
  BY <1>1, <1>8 DEF DiskInv, SavesInv
<1>13. CutInv'
  <2>1. \A f \in files' : f.content # "whole" => uploads[f.msg] = "failed"
    BY <1>2, <1>4 DEF DiskInv, CutInv
  <2> QED  BY <1>1, <2>1 DEF DiskInv, CutInv
<1>14. AcceptedInv'
  <2>1. \A i \in DOMAIN accepted :
          uploads[accepted[i].msg] = "ok" /\ Saved(accepted[i].msg) /\ accepted[i].time < clock + 1
    BY <1>5, Logs DEF DiskInv, AcceptedInv
  <2> QED  BY <1>1, <1>7, <2>1 DEF AcceptedInv, Saved
<1>15. BehindInv'
  <2>1. accepted # <<>> /\ up => /\ memory.msg \in Messages /\ Saved(memory.msg)
                                 /\ NotBefore(memory.msg, accepted[Len(accepted)].msg)
    BY DEF DiskInv, BehindInv
  <2> QED  BY <1>1, <1>7, <2>1 DEF BehindInv, Saved, NotBefore
<1> QED  BY <1>9, <1>10, <1>11, <1>12, <1>13, <1>14, <1>15 DEF DiskInv

-----------------------------------------------------------------------------
(* Writing stops *)

LEMMA CutShortKeeps ==
  ASSUME TypeOK, DiskInv, CutShort, UNCHANGED <<saves, accepted>>
  PROVE  /\ files' \in SUBSET File /\ IsFiniteSet(files')
         /\ \A f, g \in files' : f.name = g.name \/ f.time = g.time => f = g
         /\ \A f \in files' :
              /\ Saved(f.msg)' /\ f.time < clock
              /\ f.content # "whole" =>
                   uploads[f.msg] = "failed" \/ (busy.stage = "write" /\ f.msg = busy.msg)
         /\ \A i \in DOMAIN accepted : Kept(accepted[i])'
         /\ accepted # <<>> =>
              LET last == accepted[Len(accepted)] IN
              \A f \in files' : f.time >= last.time => NotBefore(f.msg, last.msg)'
<1>1. CASE busy.stage # "write"
  <2>1. files' = files
    BY <1>1 DEF CutShort
  <2>2. files \in SUBSET File /\ IsFiniteSet(files)
    BY DEF TypeOK
  <2>4. /\ \A f, g \in files' : f.name = g.name \/ f.time = g.time => f = g
        /\ \A f \in files' : Saved(f.msg)' /\ f.time < clock
    BY <2>1 DEF DiskInv, FilesInv, Saved
  <2>5. \A f \in files' : f.content # "whole" => uploads[f.msg] = "failed"
    BY <1>1, <2>1 DEF DiskInv, CutInv
  <2>6. \A i \in DOMAIN accepted : Kept(accepted[i])'
    BY <2>1 DEF DiskInv, AcceptedInv, Kept, NewerThan
  <2>7. accepted # <<>> =>
          \A f \in files' : f.time >= accepted[Len(accepted)].time =>
            NotBefore(f.msg, accepted[Len(accepted)].msg)'
    BY <2>1 DEF DiskInv, BehindInv, NotBefore
  <2> QED  BY <2>1, <2>2, <2>4, <2>5, <2>6, <2>7
<1>2. CASE busy.stage = "write"
  <2>1. PICK old \in files :
          /\ old.name = busy.name /\ old.msg = busy.msg /\ old.time + 1 = clock
          /\ \A g \in files : g.name = busy.name <=> g = old
    BY <1>2, BusyFile
  <2>2. PICK c \in {"cut", "unreadable"} :
          files' = {IF f.name = busy.name THEN [f EXCEPT !.content = c] ELSE f : f \in files}
    BY <1>2 DEF CutShort
  <2>3. PICK new : new = [old EXCEPT !.content = c]
    OBVIOUS
  <2>4. old \in File
    BY DEF TypeOK
  <2>5. /\ new \in File /\ new.name = old.name /\ new.msg = old.msg /\ new.time = old.time
    BY <2>3, <2>4 DEF File, Contents
  <2>6. files' = (files \ {old}) \cup {new}
    BY <2>1, <2>2, <2>3
  <2>7. /\ files' \in SUBSET File /\ IsFiniteSet(files')
        /\ \A f, g \in files' : f.name = g.name \/ f.time = g.time => f = g
        /\ \A f \in files' : Saved(f.msg)' /\ (f.time < clock \/ f = new)
        /\ \A i \in DOMAIN accepted : Kept(accepted[i])'
        /\ accepted # <<>> =>
             LET last == accepted[Len(accepted)] IN
             \A f \in files' : f.time >= last.time => NotBefore(f.msg, last.msg)'
    BY <1>2, <2>1, <2>5, <2>6, FileReplaced
  <2>8. new.time < clock
    BY <2>1, <2>5 DEF DiskInv, FilesInv
  <2>9. \A f \in files' : f.content # "whole" => uploads[f.msg] = "failed" \/ f.msg = busy.msg
    BY <2>1, <2>5, <2>6 DEF DiskInv, CutInv
  <2> QED  BY <1>2, <2>7, <2>8, <2>9
<1> QED  BY <1>1, <1>2

\* The upload ends without an answer that the message was taken.
LEMMA UploadFails ==
  ASSUME TypeOK, DiskInv, CutShort, busy' = Idle,
         UNCHANGED <<saves, accepted, clock>>,
         up' \in BOOLEAN, memory' = memory \/ memory' = Nothing,
         up' => up /\ memory' = memory,
         uploads' \in [Messages -> Status],
         busy.stage # "idle" => uploads'[busy.msg] = "failed",
         \A m \in Messages : uploads[m] \in {"ok", "failed"} => uploads'[m] = uploads[m],
         used' \in [crashes : 0 .. MaxCrashes, failures : 0 .. MaxFailures]
  PROVE  TypeOK' /\ DiskInv'
<1>1. /\ files' \in SUBSET File /\ IsFiniteSet(files')
      /\ \A f, g \in files' : f.name = g.name \/ f.time = g.time => f = g
      /\ \A f \in files' :
           /\ Saved(f.msg)' /\ f.time < clock
           /\ f.content # "whole" =>
                uploads[f.msg] = "failed" \/ (busy.stage = "write" /\ f.msg = busy.msg)
      /\ \A i \in DOMAIN accepted : Kept(accepted[i])'
      /\ accepted # <<>> =>
           LET last == accepted[Len(accepted)] IN
           \A f \in files' : f.time >= last.time => NotBefore(f.msg, last.msg)'
  BY CutShortKeeps
<1>2. TypeOK'
  <2>1. busy' \in [msg : Messages \cup {None}, stage : Stages, name : Nat \X Nat]
    BY DEF Idle, Stages
  <2>2. memory' \in [msg : Messages \cup {None}, content : Contents]
    BY DEF TypeOK, Nothing, Contents
  <2> QED  BY <1>1, <2>1, <2>2 DEF TypeOK
<1>3. BusyInv' /\ FilesInv'
  BY <1>1 DEF BusyInv, FilesInv, Idle
<1>4. SavesInv'
  <2>1. \A i \in DOMAIN saves : uploads'[saves[i]] \in {"ok", "failed"}
    BY Logs DEF DiskInv, SavesInv
  <2> QED  BY <2>1 DEF DiskInv, SavesInv
<1>5. CutInv'
  <2>1. \A f \in files' : f.msg \in Messages
    BY <1>1 DEF File
  <2>2. \A f \in files' : f.content # "whole" => uploads'[f.msg] = "failed"
    BY <1>1, <2>1
  <2>3. memory'.content # "whole" => memory'.msg \in Messages /\ uploads'[memory'.msg] = "failed"
    BY DEF DiskInv, CutInv, Nothing
  <2> QED  BY <2>2, <2>3 DEF CutInv
<1>6. AcceptedInv'
  <2>1. \A i \in DOMAIN accepted :
          uploads'[accepted[i].msg] = "ok" /\ Saved(accepted[i].msg) /\ accepted[i].time < clock
    BY Logs DEF DiskInv, AcceptedInv
  <2> QED  BY <1>1, <2>1 DEF AcceptedInv, Saved
<1>7. BehindInv'
  <2>1. accepted # <<>> /\ up' => /\ memory'.msg \in Messages /\ Saved(memory'.msg)
                                  /\ NotBefore(memory'.msg, accepted[Len(accepted)].msg)
    BY DEF DiskInv, BehindInv
  <2> QED  BY <1>1, <2>1 DEF BehindInv, Saved, NotBefore
<1> QED  BY <1>2, <1>3, <1>4, <1>5, <1>6, <1>7 DEF DiskInv

LEMMA WriteFailsKeeps ==
  ASSUME TypeOK, DiskInv, WriteFails
  PROVE  TypeOK' /\ DiskInv'
<1>1. /\ busy.stage # "idle" /\ used.failures < MaxFailures
      /\ used' = [used EXCEPT !.failures = @ + 1]
      /\ uploads' = [uploads EXCEPT ![busy.msg] = "failed"]
      /\ busy' = Idle /\ CutShort /\ UNCHANGED <<up, memory, clock, saves, accepted>>
  BY DEF WriteFails
<1>2. uploads[busy.msg] = "receiving" /\ busy.msg \in Messages
  BY <1>1, BusyIsOpen
<1>3. /\ uploads' \in [Messages -> Status] /\ uploads'[busy.msg] = "failed"
      /\ \A m \in Messages : uploads[m] \in {"ok", "failed"} => uploads'[m] = uploads[m]
  BY <1>1, <1>2 DEF TypeOK, Status
<1>4. used' \in [crashes : 0 .. MaxCrashes, failures : 0 .. MaxFailures]
  <2>1. used \in [crashes : 0 .. MaxCrashes, failures : 0 .. MaxFailures]
    BY DEF TypeOK
  <2>2. MaxFailures \in Nat /\ used.failures \in 0 .. MaxFailures
    BY <2>1, Bounds
  <2>3. used.failures + 1 \in 0 .. MaxFailures
    BY <1>1, <2>2
  <2> QED  BY <1>1, <2>1, <2>3
<1>5. up' \in BOOLEAN /\ (up' => up /\ memory' = memory) /\ memory' = memory
  BY <1>1 DEF TypeOK
<1> QED  BY <1>1, <1>3, <1>4, <1>5, UploadFails

LEMMA CrashKeeps ==
  ASSUME TypeOK, DiskInv, Crash
  PROVE  TypeOK' /\ DiskInv'
<1>1. /\ used.crashes < MaxCrashes /\ used' = [used EXCEPT !.crashes = @ + 1]
      /\ up' = FALSE /\ memory' = Nothing /\ busy' = Idle
      /\ uploads' = [m \in Messages |-> IF uploads[m] = "receiving" THEN "failed" ELSE uploads[m]]
      /\ CutShort /\ UNCHANGED <<clock, saves, accepted>>
  BY DEF Crash
<1>2. busy.stage # "idle" => uploads[busy.msg] = "receiving" /\ busy.msg \in Messages
  BY BusyIsOpen
<1>3. /\ uploads' \in [Messages -> Status]
      /\ busy.stage # "idle" => uploads'[busy.msg] = "failed"
      /\ \A m \in Messages : uploads[m] \in {"ok", "failed"} => uploads'[m] = uploads[m]
  BY <1>1, <1>2 DEF TypeOK, Status
<1>4. used' \in [crashes : 0 .. MaxCrashes, failures : 0 .. MaxFailures]
  <2>1. used \in [crashes : 0 .. MaxCrashes, failures : 0 .. MaxFailures]
    BY DEF TypeOK
  <2>2. MaxCrashes \in Nat /\ used.crashes \in 0 .. MaxCrashes
    BY <2>1, Bounds
  <2>3. used.crashes + 1 \in 0 .. MaxCrashes
    BY <1>1, <2>2
  <2> QED  BY <1>1, <2>1, <2>3
<1> QED  BY <1>1, <1>3, <1>4, UploadFails

-----------------------------------------------------------------------------
(* Old files go *)

\* Pruning keeps every acknowledged message that is not behind enough newer files.
LEMMA PrunedKeeps ==
  ASSUME TypeOK, DiskInv, files' = Pruned,
         NEW a, a.time \in Nat, Kept(a)
  PROVE  \/ \E f \in files' : f.msg = a.msg /\ f.content = "whole" /\ f.time = a.time
         \/ Cardinality({f \in files' : f.time > a.time}) >= MaxStoredFiles
<1>1. PICK S : S = Pruned
  OBVIOUS
<1>2. /\ S \in SUBSET files
      /\ Cardinality(S) = IF Cardinality(files) > MaxStoredFiles
                          THEN MaxStoredFiles ELSE Cardinality(files)
      /\ \A f \in S, g \in files \ S : f.time > g.time
  BY <1>1, PrunedFiles DEF DiskInv
<1>3. /\ IsFiniteSet(files) /\ IsFiniteSet(S)
      /\ Cardinality(files) \in Nat /\ Cardinality(S) \in Nat
  BY <1>2, FS_Subset, FS_CardinalityType DEF TypeOK
<1>4. MaxStoredFiles \in Nat /\ \A f \in files : f.time \in Nat
  BY Bounds, FileType
<1>5. ASSUME S # files PROVE Cardinality(S) = MaxStoredFiles
  <2>1. Cardinality(S) # Cardinality(files)
    BY <1>2, <1>3, <1>5, FS_Subset
  <2> QED  BY <1>2, <2>1
<1>6. ASSUME NEW g \in files \ S, g.time >= a.time
      PROVE  Cardinality({f \in S : f.time > a.time}) >= MaxStoredFiles
  <2>1. \A f \in S : f.time > a.time
    BY <1>2, <1>4, <1>6
  <2>2. {f \in S : f.time > a.time} = S
    BY <2>1
  <2>3. Cardinality(S) = MaxStoredFiles
    BY <1>5
  <2> QED  BY <1>4, <2>2, <2>3
<1>7. CASE \E f \in files : f.msg = a.msg /\ f.content = "whole" /\ f.time = a.time
  <2>1. PICK f \in files : f.msg = a.msg /\ f.content = "whole" /\ f.time = a.time
    BY <1>7
  <2>2. CASE f \in S
    BY <1>1, <2>1, <2>2
  <2>3. CASE f \notin S
    BY <1>1, <1>4, <1>6, <2>1, <2>3
  <2> QED  BY <2>2, <2>3
<1>8. CASE Cardinality(NewerThan(a.time)) >= MaxStoredFiles
  <2>1. CASE \A g \in files \ S : ~(g.time >= a.time)
    <3>1. {f \in S : f.time > a.time} = NewerThan(a.time)
      BY <1>2, <1>4, <2>1 DEF NewerThan
    <3> QED  BY <1>1, <1>8, <3>1
  <2>2. CASE \E g \in files \ S : g.time >= a.time
    BY <1>1, <1>6, <2>2
  <2> QED  BY <2>1, <2>2
<1> QED  BY <1>7, <1>8 DEF Kept

\* The newest file is not pruned.
LEMMA NewestStays ==
  ASSUME TypeOK, DiskInv, NEW f \in files, \A g \in files : g.time <= f.time
  PROVE  f \in Pruned
<1>1. PICK S : S = Pruned
  OBVIOUS
<1>2. /\ S \in SUBSET files
      /\ Cardinality(S) = IF Cardinality(files) > MaxStoredFiles
                          THEN MaxStoredFiles ELSE Cardinality(files)
      /\ \A g \in S, h \in files \ S : g.time > h.time
  BY <1>1, PrunedFiles DEF DiskInv
<1>3. IsFiniteSet(files) /\ Cardinality(files) \in Nat
  BY FS_CardinalityType DEF TypeOK
<1>4. Cardinality(files) # 0
  BY <1>3, FS_EmptySet
<1>5. S # {}
  BY <1>2, <1>3, <1>4, FS_EmptySet, Bounds
<1>6. PICK g \in S : TRUE
  BY <1>5
<1>7. \A h \in files : h.time \in Nat
  BY FileType
<1> SUFFICES ASSUME f \notin S PROVE FALSE
  BY <1>1
<1> QED  BY <1>2, <1>6, <1>7

LEMMA PruneAndAnswerKeeps ==
  ASSUME TypeOK, DiskInv, PruneAndAnswer
  PROVE  TypeOK' /\ DiskInv'
<1> DEFINE n == Len(accepted)
<1>1. PICK f \in files : /\ f.name = busy.name /\ f.msg = busy.msg /\ f.time + 1 = clock
                         /\ f.content = "whole"
                         /\ \A g \in files : g.name = busy.name <=> g = f
  BY BusyFile DEF PruneAndAnswer
<1>2. PICK a : a = [msg |-> busy.msg, time |-> f.time]
  OBVIOUS
<1>3. /\ busy.stage = "prune" /\ files' = Pruned /\ accepted' = Append(accepted, a)
      /\ uploads' = [uploads EXCEPT ![busy.msg] = "ok"] /\ busy' = Idle
      /\ UNCHANGED <<up, memory, clock, saves, used>>
  <2>1. (CHOOSE g \in files : g.name = busy.name) = f
    BY <1>1
  <2> QED  BY <1>2, <2>1 DEF PruneAndAnswer
<1>4. /\ uploads[busy.msg] = "receiving" /\ busy.msg \in Messages /\ Saved(busy.msg)
      /\ \A i \in DOMAIN accepted : accepted[i].msg # busy.msg
      /\ memory.content = "whole"
  BY <1>3, BusyIsOpen
<1>5. /\ clock \in Nat /\ IsFiniteSet(files) /\ files' \subseteq files
      /\ \A g \in files : g.time \in Nat /\ g.time < clock /\ g.time <= f.time
  <2>1. clock \in Nat /\ IsFiniteSet(files) /\ files' \subseteq files
    BY <1>3, PrunedFiles DEF TypeOK, DiskInv
  <2>2. \A g \in files : g.time \in Nat /\ g.time < clock
    BY FileType DEF DiskInv, FilesInv
  <2> QED  BY <1>1, <2>1, <2>2
<1>6. a \in Accepted /\ a.msg = busy.msg /\ a.time = f.time /\ a.time < clock /\ a.time \in Nat
  BY <1>2, <1>4, <1>5 DEF Accepted
<1>7. /\ n \in Nat /\ DOMAIN accepted = 1 .. n /\ DOMAIN accepted' = 1 .. n + 1
      /\ Len(accepted') = n + 1 /\ accepted' \in Seq(Accepted)
      /\ accepted'[n + 1] = a /\ \A i \in DOMAIN accepted : accepted'[i] = accepted[i]
  <2>1. accepted \in Seq(Accepted)
    BY DEF TypeOK
  <2>2. accepted' = Append(accepted, a)
    BY <1>3
  <2> QED  BY <1>6, <2>1, <2>2, AppendLog
<1> HIDE DEF n
<1>8. /\ uploads' \in [Messages -> Status] /\ uploads'[busy.msg] = "ok"
      /\ \A m \in Messages : m # busy.msg => uploads'[m] = uploads[m]
  BY <1>3, <1>4 DEF TypeOK, Status
<1>9. TypeOK'
  <2>1. busy' \in [msg : Messages \cup {None}, stage : Stages, name : Nat \X Nat]
    BY <1>3 DEF Idle, Stages
  <2>2. files' \in SUBSET File /\ IsFiniteSet(files')
    BY <1>5, FS_Subset DEF TypeOK
  <2> QED  BY <1>3, <1>7, <1>8, <2>1, <2>2 DEF TypeOK
<1>10. BusyInv' /\ FilesInv'
  BY <1>3, <1>5 DEF DiskInv, BusyInv, FilesInv, Saved, Idle
<1>11. SavesInv'
  <2>1. \A i \in DOMAIN saves : uploads'[saves[i]] \in {"ok", "failed"}
    BY <1>8, Logs DEF DiskInv, SavesInv
  <2> QED  BY <1>3, <2>1 DEF DiskInv, SavesInv
<1>12. CutInv'
  <2>1. \A g \in files' : g.content # "whole" => uploads'[g.msg] = "failed"
    BY <1>3, <1>4, <1>5, <1>8, FileType DEF DiskInv, CutInv
  <2> QED  BY <1>3, <1>4, <2>1 DEF CutInv
<1>13. ASSUME NEW i \in DOMAIN accepted'
       PROVE  /\ uploads'[accepted'[i].msg] = "ok" /\ Saved(accepted'[i].msg)
              /\ accepted'[i].time < clock /\ Kept(accepted[i])'
  <2>1. CASE i = n + 1
    <3>1. f \in files'
      BY <1>3, <1>5, NewestStays
    <3>2. accepted'[i] = a
      BY <1>7, <2>1
    <3>3. \E g \in files' : g.msg = a.msg /\ g.content = "whole" /\ g.time = a.time
      BY <1>1, <1>6, <3>1
    <3> QED  BY <1>4, <1>6, <1>8, <3>2, <3>3 DEF Kept
  <2>2. CASE i # n + 1
    <3>1. i \in DOMAIN accepted /\ accepted'[i] = accepted[i]
      BY <1>7, <2>2
    <3>2. PICK b : b = accepted[i]
      OBVIOUS
    <3>3. /\ b.msg \in Messages /\ b.time \in Nat /\ b.time < clock
          /\ uploads[b.msg] = "ok" /\ Saved(b.msg) /\ Kept(b) /\ accepted'[i] = b
      BY <3>1, <3>2, Logs DEF DiskInv, AcceptedInv
    <3>4. \/ \E g \in files' : g.msg = b.msg /\ g.content = "whole" /\ g.time = b.time
          \/ Cardinality({g \in files' : g.time > b.time}) >= MaxStoredFiles
      BY <1>3, <3>3, PrunedKeeps
    <3>5. uploads'[b.msg] = "ok"
      BY <1>8, <3>3
    <3>6. Kept(accepted[i])'
      BY <3>3, <3>4 DEF Kept, NewerThan
    <3> QED  BY <3>3, <3>5, <3>6
  <2> QED  BY <2>1, <2>2
<1>14. AcceptedInv'
  BY <1>3, <1>13 DEF AcceptedInv, Saved
<1>15. BehindInv'
  <2>1. \A m : NotBefore(busy.msg, m)
    BY <1>3, LastNotBefore DEF DiskInv
  <2>2. \A g \in files' : g.time >= a.time => g = f
    <3>1. \A g \in files : g.time = f.time => g = f
      BY DEF DiskInv, FilesInv
    <3> QED  BY <1>5, <1>6, <3>1
  <2>3. \A g \in files' : g.time >= a.time => NotBefore(g.msg, a.msg)
    BY <1>1, <2>1, <2>2
  <2>4. memory.msg = busy.msg
    BY <1>3 DEF DiskInv, BusyInv
  <2>5. \A g \in files' : g.time >= a.time => NotBefore(g.msg, a.msg)'
    BY <1>3, <2>3 DEF NotBefore
  <2>6. Saved(memory.msg)' /\ NotBefore(memory.msg, a.msg)'
    BY <1>3, <1>4, <2>1, <2>4 DEF Saved, NotBefore
  <2>7. memory'.msg \in Messages /\ accepted'[Len(accepted')] = a
    BY <1>3, <1>4, <1>7, <2>4
  <2> QED  BY <2>5, <2>6, <2>7 DEF BehindInv
<1> QED  BY <1>9, <1>10, <1>11, <1>12, <1>14, <1>15 DEF DiskInv

-----------------------------------------------------------------------------
(* The process starts again *)

LEMMA StartKeeps ==
  ASSUME TypeOK, DiskInv, Start
  PROVE  TypeOK' /\ DiskInv'
<1>1. /\ ~up /\ up' = TRUE
      /\ memory' = IF files = {} THEN Nothing
                   ELSE LET f == CHOOSE f \in Newest(files) : TRUE
                        IN [msg |-> f.msg, content |-> f.content]
      /\ UNCHANGED <<files, clock, uploads, busy, saves, accepted, used>>
  BY DEF Start
<1>2. busy.stage = "idle"
  BY <1>1 DEF DiskInv, BusyInv
<1>3. files # {} =>
        \E f \in files : /\ \A g \in files : g.time <= f.time
                         /\ memory' = [msg |-> f.msg, content |-> f.content]
  <2> SUFFICES ASSUME files # {}
               PROVE  \E f \in files : /\ \A g \in files : g.time <= f.time
                                       /\ memory' = [msg |-> f.msg, content |-> f.content]
    OBVIOUS
  <2>1. PICK f : f = CHOOSE g \in Newest(files) : TRUE
    OBVIOUS
  <2>2. Newest(files) # {}
    BY NewestExists DEF Newest, DiskInv
  <2>3. f \in Newest(files)
    BY <2>1, <2>2
  <2> QED  BY <1>1, <2>1, <2>3 DEF Newest
<1>4. TypeOK'
  <2>1. memory' \in [msg : Messages \cup {None}, content : Contents]
    BY <1>1, <1>3, FileType DEF Nothing, Contents
  <2> QED  BY <1>1, <2>1 DEF TypeOK
<1>5. BusyInv' /\ FilesInv' /\ SavesInv'
  BY <1>1, <1>2 DEF DiskInv, BusyInv, FilesInv, SavesInv, Saved, Idle
<1>6. CutInv'
  <2>1. memory'.content # "whole" => memory'.msg \in Messages /\ uploads[memory'.msg] = "failed"
    BY <1>1, <1>2, <1>3, FileType DEF Nothing, DiskInv, CutInv
  <2> QED  BY <1>1, <2>1 DEF DiskInv, CutInv
<1>7. AcceptedInv'
  BY <1>1 DEF DiskInv, AcceptedInv, Kept, NewerThan, Saved
<1>8. BehindInv'
  <2> SUFFICES ASSUME accepted # <<>> PROVE BehindInv'
    BY <1>1 DEF BehindInv
  <2>1. PICK last : last = accepted[Len(accepted)]
    OBVIOUS
  <2>2. last.time \in Nat /\ Kept(last)
    BY <2>1, Logs DEF DiskInv, AcceptedInv
  <2>3. \E f \in files : f.time >= last.time
    <3>1. CASE \E f \in files : f.msg = last.msg /\ f.content = "whole" /\ f.time = last.time
      BY <2>2, <3>1
    <3>2. CASE Cardinality(NewerThan(last.time)) >= MaxStoredFiles
      <4>1. Cardinality({}) = 0
        BY FS_EmptySet
      <4>2. NewerThan(last.time) # {}
        <5>1. MaxStoredFiles \in Nat /\ MaxStoredFiles # 0
          BY Bounds
        <5>2. ~(0 >= MaxStoredFiles)
          BY ONLY <5>1
        <5> QED  BY <3>2, <4>1, <5>2
      <4> QED  BY <2>2, <4>2, FileType DEF NewerThan
    <3> QED  BY <2>2, <3>1, <3>2 DEF Kept
  <2>4. PICK f \in files : /\ \A g \in files : g.time <= f.time
                           /\ memory' = [msg |-> f.msg, content |-> f.content]
    BY <1>3, <2>3
  <2>5. f.time >= last.time
    BY <2>2, <2>3, <2>4, FileType
  <2>6. \A g \in files : g.time >= last.time => NotBefore(g.msg, last.msg)
    BY <2>1 DEF DiskInv, BehindInv
  <2>7. memory'.msg \in Messages /\ Saved(memory'.msg) /\ NotBefore(memory'.msg, last.msg)
    BY <2>4, <2>5, <2>6, FileType DEF DiskInv, FilesInv
  <2> QED  BY <1>1, <2>1, <2>6, <2>7 DEF BehindInv, Saved, NotBefore
<1> QED  BY <1>4, <1>5, <1>6, <1>7, <1>8 DEF DiskInv

-----------------------------------------------------------------------------
(* Theorems *)

LEMMA StutterKeeps ==
  ASSUME TypeOK, DiskInv, UNCHANGED vars
  PROVE  TypeOK' /\ DiskInv'
<1>1. TypeOK'
  BY DEF TypeOK, vars
<1>2. BusyInv' /\ FilesInv' /\ SavesInv' /\ CutInv'
  BY DEF DiskInv, vars, BusyInv, FilesInv, SavesInv, CutInv, Saved, Idle
<1>3. AcceptedInv' /\ BehindInv'
  BY DEF DiskInv, vars, AcceptedInv, BehindInv, Kept, NewerThan, Saved, NotBefore
<1> QED  BY <1>1, <1>2, <1>3 DEF DiskInv

LEMMA NextDisk == TypeOK /\ DiskInv /\ [Next]_vars => TypeOK' /\ DiskInv'
<1> SUFFICES ASSUME TypeOK, DiskInv, [Next]_vars PROVE TypeOK' /\ DiskInv'
  OBVIOUS
<1>1. ASSUME NEW m \in Messages, BeginUpload(m) PROVE TypeOK' /\ DiskInv'
  BY <1>1, UploadChanges DEF BeginUpload
<1>2. ASSUME NEW m \in Messages, RejectUpload(m) PROVE TypeOK' /\ DiskInv'
  BY <1>2, UploadChanges DEF RejectUpload
<1>3. ASSUME NEW m \in Messages, Save(m) PROVE TypeOK' /\ DiskInv'
  BY <1>3, SaveKeeps
<1> QED  BY <1>1, <1>2, <1>3, CreateFileKeeps, WriteFileKeeps, WriteFailsKeeps,
            PruneAndAnswerKeeps, CrashKeeps, StartKeeps, StutterKeeps DEF Next

THEOREM InvariantHolds == Spec => [](TypeOK /\ DiskInv)
  BY InitDisk, NextDisk, PTL DEF Spec

\* Every variable keeps the type of its part of app/main.py and app/storage.py.
THEOREM TypeCorrect == Spec => []TypeOK
  BY InvariantHolds, PTL

\* load_latest_message may load a part of a message, and only one whose sender was not
\* told that it was taken.
THEOREM CutNotAcknowledged == Spec => []CutWasNotAcknowledged
<1>1. TypeOK /\ DiskInv => CutWasNotAcknowledged
  BY DEF DiskInv, CutInv, CutWasNotAcknowledged
<1> QED  BY <1>1, InvariantHolds, PTL

\* What GET /latest answers is no older than the last message acknowledged, whatever
\* failures and restarts lie between.
THEOREM NeverBehind == Spec => []NeverBehindAccepted
<1>1. TypeOK /\ DiskInv => NeverBehindAccepted
  <2> SUFFICES ASSUME TypeOK, DiskInv, Serving, accepted # <<>>
               PROVE  memory # Nothing /\ SaveNumber(memory.msg) >= SaveNumber(accepted[Len(accepted)].msg)
    BY DEF NeverBehindAccepted
  <2>1. PICK last : last = accepted[Len(accepted)]
    OBVIOUS
  <2>2. memory.msg \in Messages /\ Saved(memory.msg) /\ NotBefore(memory.msg, last.msg)
    BY <2>1 DEF Serving, DiskInv, BehindInv
  <2>3. Saved(last.msg)
    BY <2>1, Logs DEF DiskInv, AcceptedInv
  <2>4. \A m : Saved(m) => SaveNumber(m) \in DOMAIN saves /\ saves[SaveNumber(m)] = m
    BY DEF Saved, SaveNumber
  <2>5. memory # Nothing
    BY <2>2, Bounds DEF Nothing
  <2> QED  BY <2>1, <2>2, <2>3, <2>4, <2>5 DEF NotBefore
<1> QED  BY <1>1, InvariantHolds, PTL

\* Pruning, names of the same second and failed writes lose an acknowledged message
\* only behind MAX_STORED_FILES newer files.
THEOREM KeptOnDisk == Spec => []AcceptedKept
<1>1. TypeOK /\ DiskInv => AcceptedKept
  BY DEF DiskInv, AcceptedInv, AcceptedKept, Kept, NewerThan
<1> QED  BY <1>1, InvariantHolds, PTL
=============================================================================
