--------------------------- MODULE DatexDownloader ---------------------------
(***************************************************************************)
(* The DATEX downloader (external/datex-downloader/app): NDIC pushes XML   *)
(* messages to it, the NDIC preprocessor fetches the latest one.  Uploads  *)
(* overlap while their bodies arrive; from storage.save to the response    *)
(* datex_in runs without an await, so one upload at a time is persisted    *)
(* and nothing is served meanwhile.  The process may die between any two   *)
(* steps and loads its newest file when it is started again.               *)
(***************************************************************************)
EXTENDS Integers, Sequences, FiniteSets, SequencesExt

CONSTANTS
  Messages,        \* the pushes
  None,            \* no message
  MaxStoredFiles,  \* MAX_STORED_FILES: 50
  TicksPerSecond,  \* file names have whole seconds, file times are finer
  MaxCrashes,      \* bound: times the process dies
  MaxFailures      \* bound: writes that fail

ASSUME ConstantsAssumption ==
  /\ {MaxStoredFiles, TicksPerSecond} \subseteq Nat \ {0}
  /\ {MaxCrashes, MaxFailures} \subseteq Nat
  /\ None \notin Messages

VARIABLES
  up,        \* the process runs
  memory,    \* storage._latest_raw: [msg, content], or nothing
  files,     \* XML_STORAGE_DIR: a set of [name, msg, content, time]
  clock,     \* the file system's; two files never get the same time
  uploads,   \* per message: "new", "receiving", "ok", "rejected", "failed"
  busy,      \* the upload between storage.save and the response
  saves,     \* history: the messages saved, in order
  accepted,  \* history: [msg, time] of those answered with ok, in order
  used       \* crashes and failures so far

vars == <<up, memory, files, clock, uploads, busy, saves, accepted, used>>

-----------------------------------------------------------------------------
\* A file that was not written to its end is "cut", or "unreadable" when the
\* cut is inside a character.
Contents == {"whole", "cut", "unreadable"}
Nothing  == [msg |-> None, content |-> "whole"]
Idle     == [msg |-> None, stage |-> "idle", name |-> <<0, 0>>]
File     == [name : Nat \X Nat, msg : Messages, content : Contents, time : Nat]

Init ==
  /\ up = TRUE /\ memory = Nothing /\ files = {} /\ clock = 1
  /\ uploads = [m \in Messages |-> "new"]
  /\ busy = Idle
  /\ saves = <<>> /\ accepted = <<>>
  /\ used = [crashes |-> 0, failures |-> 0]

Newest(S) == {f \in S : \A g \in S : g.time <= f.time}
Oldest(S) == {f \in S : \A g \in S : f.time <= g.time}

-----------------------------------------------------------------------------
(* datex_in *)

\* The request's credentials are accepted and its body begins to arrive.
BeginUpload(m) ==
  /\ up
  /\ uploads[m] = "new"
  /\ uploads' = [uploads EXCEPT ![m] = "receiving"]
  /\ UNCHANGED <<up, memory, files, clock, busy, saves, accepted, used>>

\* verify_credentials, or decode_request_xml: bad gzip, encoding or XML.
RejectUpload(m) ==
  /\ up /\ busy = Idle
  /\ uploads[m] = "receiving"
  /\ uploads' = [uploads EXCEPT ![m] = "rejected"]
  /\ UNCHANGED <<up, memory, files, clock, busy, saves, accepted, used>>

\* The body is complete and parses: storage.save.
Save(m) ==
  /\ up /\ busy = Idle
  /\ uploads[m] = "receiving"
  /\ memory' = [msg |-> m, content |-> "whole"]
  /\ saves' = Append(saves, m)
  /\ busy' = [Idle EXCEPT !.msg = m, !.stage = "create"]
  /\ UNCHANGED <<up, files, clock, uploads, accepted, used>>

\* Mutant: the name is the second alone.
NameOfSecond == <<clock \div TicksPerSecond, 0>>
\* The first free name of the second.
FreeName ==
  LET Taken(n) == \E f \in files : f.name = <<clock \div TicksPerSecond, n>>
      first == CHOOSE n \in 0 .. Cardinality(files) :
                 ~Taken(n) /\ \A k \in 0 .. n - 1 : Taken(k)
  IN <<clock \div TicksPerSecond, first>>

Written(content) ==
  {f \in files : f.name # busy.name}
    \cup {[name |-> busy.name, msg |-> busy.msg, content |-> content, time |-> clock]}

\* persist_xml chooses a name; write_text opens the file, which is empty then.
CreateFile ==
  /\ busy.stage = "create"
  /\ busy' = [busy EXCEPT !.stage = "write", !.name = FreeName]
  /\ files' = {f \in files : f.name # FreeName}
       \cup {[name |-> FreeName, msg |-> busy.msg, content |-> "cut", time |-> clock]}
  /\ clock' = clock + 1
  /\ UNCHANGED <<up, memory, uploads, saves, accepted, used>>

\* write_text to its end.
WriteFile ==
  /\ busy.stage = "write"
  /\ files' = Written("whole")
  /\ clock' = clock + 1
  /\ busy' = [busy EXCEPT !.stage = "prune"]
  /\ UNCHANGED <<up, memory, uploads, saves, accepted, used>>

\* Writing stops: the file is left as far as it came.
CutShort ==
  IF busy.stage = "write"
  THEN \E c \in {"cut", "unreadable"} :
         files' = {IF f.name = busy.name THEN [f EXCEPT !.content = c] ELSE f : f \in files}
  ELSE UNCHANGED files

\* Mutant: the error of a write is swallowed and the answer is ok.
WriteFailsQuietly ==
  /\ busy.stage \in {"create", "write"}
  /\ used.failures < MaxFailures
  /\ used' = [used EXCEPT !.failures = @ + 1]
  /\ uploads' = [uploads EXCEPT ![busy.msg] = "ok"]
  /\ busy' = Idle
  /\ CutShort
  /\ UNCHANGED <<up, memory, clock, saves, accepted>>
\* The directory or the disk refuses: an OSError, and the answer is an error.
WriteFails ==
  /\ busy.stage \in {"create", "write"}
  /\ used.failures < MaxFailures
  /\ used' = [used EXCEPT !.failures = @ + 1]
  /\ uploads' = [uploads EXCEPT ![busy.msg] = "failed"]
  /\ busy' = Idle
  /\ CutShort
  /\ UNCHANGED <<up, memory, clock, saves, accepted>>

\* prune_old_files: files go, oldest first, while there are too many.
Pruned == CHOOSE S \in SUBSET files :
  /\ Cardinality(S) = IF Cardinality(files) > MaxStoredFiles THEN MaxStoredFiles
                                                             ELSE Cardinality(files)
  /\ \A f \in S, g \in files \ S : f.time > g.time

PruneAndAnswer ==
  /\ busy.stage = "prune"
  /\ files' = Pruned
  /\ accepted' = Append(accepted,
       [msg |-> busy.msg, time |-> (CHOOSE f \in files : f.name = busy.name).time])
  /\ uploads' = [uploads EXCEPT ![busy.msg] = "ok"]
  /\ busy' = Idle
  /\ UNCHANGED <<up, memory, clock, saves, used>>

-----------------------------------------------------------------------------
(* The process *)

\* Whatever was being written is cut where the file system had it.
Crash ==
  /\ up
  /\ used.crashes < MaxCrashes
  /\ used' = [used EXCEPT !.crashes = @ + 1]
  /\ up' = FALSE /\ memory' = Nothing /\ busy' = Idle
  /\ uploads' = [m \in Messages |->
                   IF uploads[m] = "receiving" THEN "failed" ELSE uploads[m]]
  /\ CutShort
  /\ UNCHANGED <<clock, saves, accepted>>

\* Mutant: < for > in the comparison of the files' times.
LoadOldest ==
  /\ ~up
  /\ \A f \in Oldest(files) : f.content # "unreadable"
  /\ up' = TRUE
  /\ memory' = IF files = {} THEN Nothing
               ELSE LET f == CHOOSE f \in Oldest(files) : TRUE
                    IN [msg |-> f.msg, content |-> f.content]
  /\ UNCHANGED <<files, clock, uploads, busy, saves, accepted, used>>

\* startup_event: load_latest_message reads the newest file as it is; one that
\* cannot be decoded ends the process again.
Start ==
  /\ ~up
  /\ \A f \in Newest(files) : f.content # "unreadable"
  /\ up' = TRUE
  /\ memory' = IF files = {} THEN Nothing
               ELSE LET f == CHOOSE f \in Newest(files) : TRUE
                    IN [msg |-> f.msg, content |-> f.content]
  /\ UNCHANGED <<files, clock, uploads, busy, saves, accepted, used>>

Next == \/ \E m \in Messages : BeginUpload(m) \/ RejectUpload(m) \/ Save(m)
        \/ CreateFile \/ WriteFile \/ WriteFails \/ PruneAndAnswer
        \/ Crash \/ Start

Spec == Init /\ [][Next]_vars
-----------------------------------------------------------------------------
(* Properties *)

Serving == up /\ busy = Idle
SaveNumber(m) == CHOOSE i \in DOMAIN saves : saves[i] = m

\* What is served is never older than the last message that was acknowledged,
\* whatever crashes, restarts and failed writes lie in between.
NeverBehindAccepted ==
  Serving /\ accepted # <<>> =>
    /\ memory # Nothing
    /\ SaveNumber(memory.msg) >= SaveNumber(accepted[Len(accepted)].msg)

\* An acknowledged message leaves the disk only behind MAX_STORED_FILES newer
\* files: neither a name taken twice in a second nor pruning loses it earlier.
AcceptedKept ==
  \A i \in DOMAIN accepted :
    \/ \E f \in files : f.msg = accepted[i].msg /\ f.content = "whole"
    \/ Cardinality({f \in files : f.time > accepted[i].time}) >= MaxStoredFiles

\* After a crash within write_text the newest file is a part of a message that
\* nobody verified, and the restarted process serves it.  It may be so only with a
\* message whose sender was not told that it was taken.
CutWasNotAcknowledged ==
  up /\ memory.content # "whole" => uploads[memory.msg] = "failed"
=============================================================================
