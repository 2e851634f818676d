------------------------------ MODULE SavedBackups ------------------------------
(***************************************************************************)
(* The full backups kept on the server: a directory of files, named by the *)
(* second they were made in, and index.json, which lists them from the     *)
(* oldest to the newest.  Saving, saving a copy after a download, the      *)
(* scheduled backup and deleting each read the index, change the directory *)
(* and write the whole index, without a lock.  os.WriteFile empties the    *)
(* file before it writes, and an index that cannot be read counts as one   *)
(* without entries.  The page shows the list and asks for it again after   *)
(* what it does.                                                           *)
(***************************************************************************)
EXTENDS Naturals, Sequences, FiniteSets

CONSTANTS
    MaxCopies,      \* backup_max_copies
    MaxSecond,      \* bound: seconds in which backups are made
    Job,            \* places for requests and background saves
    MaxJobs,        \* bound: saves and deletions
    Failing         \* FALSE leaves failures out of an instance (bound)

ASSUME MaxCopiesAssumption == MaxCopies \in Nat \ {0}

VARIABLES
    second,
    files,      \* the backups in the directory
    index,      \* the entries of index.json, or Torn
    job,        \* saves and deletions under way
    shown,      \* savedBackups of the page
    busy,       \* fullBackupLoading: the job the page waits for
    fetching,   \* the page has asked for the list
    jobs,       \* number of saves and deletions so far
    astray      \* history: files saved beside another job, or that a failure or an
                \* overlap left without their entry

backupVars == <<second, files, index, job, shown, busy, fetching, jobs, astray>>

NoJob == [op |-> "none", pc |-> "none", file |-> 0, entries |-> <<>>, page |-> FALSE]
Nobody == 0
\* Text that is no list of entries: it names no backup that is there.
Torn == <<0>>

BackupsInit ==
    /\ second = 1
    /\ files = {} /\ index = <<>>
    /\ job = [j \in Job |-> NoJob]
    /\ shown = {} /\ busy = Nobody /\ fetching = FALSE
    /\ jobs = 0 /\ astray = {}

\* Where the entries are whose files are there; the others are left out.
loadBackupIndex == {i \in DOMAIN index : index[i] \in files}
Listed == {index[i] : i \in loadBackupIndex}

Writing == \E j \in Job : job[j].pc = "write"
Working == {j \in Job : job[j] # NoJob}
Saved == {job[j].file : j \in {k \in Job : job[k].op = "save"}}

Start(j, new) ==
    /\ job[j] = NoJob
    /\ jobs < MaxJobs /\ jobs' = jobs + 1
    /\ job' = [job EXCEPT ![j] = new]
    /\ astray' = IF Working = {} THEN astray
                 ELSE astray \cup Saved \cup (IF new.op = "save" THEN {new.file} ELSE {})

Move(j, pc) == job' = [job EXCEPT ![j].pc = pc]
End(j) == job' = [job EXCEPT ![j] = NoJob]

\* The page's button is on again, and the page asks for the list if all went well.
Answered(j, well) ==
    /\ busy' = IF busy = j THEN Nobody ELSE busy
    /\ fetching' = (fetching \/ (job[j].page /\ well))

Tick == /\ second < MaxSecond /\ second' = second + 1
        /\ UNCHANGED <<files, index, job, shown, busy, fetching, astray, jobs>>
-----------------------------------------------------------------------------
(* Saving. *)

NewSave(page) == [NoJob EXCEPT !.op = "save", !.pc = "read", !.file = second, !.page = page]

\* The archive has been built.  The button is off until the answer.
handleSaveFullBackup(j) ==
    /\ busy = Nobody /\ busy' = j
    /\ Start(j, NewSave(TRUE))
    /\ UNCHANGED <<second, files, index, shown, fetching>>

\* After a download, in a goroutine, or once an hour if a backup is due.
autoSaveBackupCopy(j) ==
    /\ Start(j, NewSave(FALSE))
    /\ UNCHANGED <<second, files, index, shown, busy, fetching>>

\* The entries are read in their order; the one deleted is left out as well.  While
\* another job writes the index, it may be empty: what is not read will not be written.
ReadIndex(j) ==
    LET kept == {i \in loadBackupIndex : job[j].op = "delete" => index[i] # job[j].file} IN
    /\ job[j].pc = "read"
    /\ astray' = IF Writing THEN astray \cup files ELSE astray
    /\ \E place \in [1 .. Cardinality(kept) -> kept] :
          /\ \A m, n \in DOMAIN place : m < n => place[m] < place[n]
          /\ job' = [job EXCEPT ![j].pc = IF job[j].op = "save" THEN "prune" ELSE "index",
                                ![j].entries = [n \in DOMAIN place |-> index[place[n]]]]
    /\ UNCHANGED <<second, files, index, shown, busy, fetching, jobs>>

\* os.ReadFile fails: there are no entries, and the job goes on.
ReadIndexFails(j) ==
    /\ Failing /\ job[j].pc = "read"
    /\ job' = [job EXCEPT ![j].pc = IF job[j].op = "save" THEN "prune" ELSE "index",
                          ![j].entries = <<>>]
    /\ astray' = astray \cup files
    /\ UNCHANGED <<second, files, index, shown, busy, fetching, jobs>>

\* One more than the limit is kept.
FullLate(entries) == Len(entries) > MaxCopies

Full(entries) == Len(entries) >= MaxCopies

\* The oldest goes until there is room.
Prune(j) ==
    /\ job[j].pc = "prune" /\ Full(job[j].entries)
    /\ files' = files \ {Head(job[j].entries)}
    /\ job' = [job EXCEPT ![j].entries = Tail(@)]
    /\ UNCHANGED <<second, index, shown, busy, fetching, astray, jobs>>

\* os.Remove fails, which is ignored: the entry goes and the file stays.
PruneFails(j) ==
    /\ Failing
    /\ job[j].pc = "prune" /\ Full(job[j].entries)
    /\ job' = [job EXCEPT ![j].entries = Tail(@)]
    /\ astray' = astray \cup {Head(job[j].entries)}
    /\ UNCHANGED <<second, files, index, shown, busy, fetching, jobs>>

WriteFile(j) ==
    /\ job[j].pc = "prune" /\ ~Full(job[j].entries)
    /\ files' = files \cup {job[j].file}
    /\ job' = [job EXCEPT ![j].pc = "index", ![j].entries = Append(@, job[j].file)]
    /\ UNCHANGED <<second, index, shown, busy, fetching, astray, jobs>>

\* os.WriteFile opens the index, which empties it ...
TruncateIndex(j) ==
    /\ job[j].pc = "index" /\ Move(j, "write")
    /\ index' = <<>>
    /\ UNCHANGED <<second, files, shown, busy, fetching, astray, jobs>>

\* ... and writes it.  If another job has written meanwhile, the end of a longer text
\* may remain behind the new one.
saveBackupIndex(j) ==
    /\ job[j].pc = "write"
    /\ \/ index' = job[j].entries /\ UNCHANGED astray
       \/ index # <<>> /\ index' = Torn /\ astray' = astray \cup files
    /\ End(j) /\ Answered(j, TRUE)
    /\ UNCHANGED <<second, files, shown, jobs>>

\* What an end at this point leaves without an entry: the archive, written in full or
\* in part, before the index is opened; all there is, once the index is emptied.
Abandoned(j) ==
    CASE job[j].pc = "write" -> files
      [] job[j].pc = "index" /\ job[j].op = "save" -> {job[j].file}
      [] OTHER -> {}

\* Writing the index may fail, which is logged; anything else is an error, as is a
\* process that ends here.  An index opened for writing stays as it is, or gets a part.
JobFails(j) ==
    /\ Failing /\ job[j] # NoJob
    /\ index' \in {index} \cup (IF job[j].pc = "write" THEN {Torn} ELSE {})
    /\ astray' = astray \cup Abandoned(j)
    /\ \E well \in {job[j].pc \in {"index", "write"}, FALSE} : Answered(j, well)
    /\ End(j)
    /\ UNCHANGED <<second, files, shown, jobs>>
-----------------------------------------------------------------------------
(* Deleting, from the list the page shows, after a confirmation. *)

deleteSavedBackup(j, f) ==
    /\ f \in shown
    /\ Start(j, [NoJob EXCEPT !.op = "delete", !.pc = "remove", !.file = f, !.page = TRUE])
    /\ UNCHANGED <<second, files, index, shown, busy, fetching>>

RemoveFile(j) ==
    /\ job[j].pc = "remove" /\ job[j].file \in files
    /\ files' = files \ {job[j].file}
    /\ Move(j, "read")
    /\ UNCHANGED <<second, index, shown, busy, fetching, astray, jobs>>

NoSuchFile(j) ==
    /\ job[j].pc = "remove" /\ job[j].file \notin files
    /\ End(j) /\ Answered(j, FALSE)
    /\ UNCHANGED <<second, files, index, shown, astray, jobs>>
-----------------------------------------------------------------------------
(* The list of the page. *)

Expand == /\ ~fetching /\ fetching' = TRUE
          /\ UNCHANGED <<second, files, index, job, shown, busy, astray, jobs>>

fetchSavedBackups ==
    /\ fetching /\ fetching' = FALSE
    /\ shown' \in {Listed, {}}      \* empty on an error
    /\ UNCHANGED <<second, files, index, job, busy, astray, jobs>>
-----------------------------------------------------------------------------
BackupsNext ==
    \/ Tick \/ Expand \/ fetchSavedBackups
    \/ \E j \in Job :
          \/ handleSaveFullBackup(j) \/ autoSaveBackupCopy(j)
          \/ ReadIndex(j) \/ ReadIndexFails(j) \/ Prune(j) \/ PruneFails(j) \/ WriteFile(j)
          \/ TruncateIndex(j) \/ saveBackupIndex(j) \/ JobFails(j)
          \/ RemoveFile(j) \/ NoSuchFile(j)
          \/ \E f \in shown : deleteSavedBackup(j, f)

BackupsSpec == BackupsInit /\ [][BackupsNext]_backupVars
-----------------------------------------------------------------------------
(* Properties. *)

\* Whatever overlaps or fails, the page never lists more than backup_max_copies.  A
\* backup in the directory can be listed, restored, deleted and pruned: while the index
\* is not being written it is in there, those aside whose save is under way or ran
\* beside another job, or that an overlap or a failure left without their entry; these
\* are the orphans, which nothing ever puts back in the index.
IndexMatchesFiles ==
    LET settled == files \ (astray \cup Saved)
    IN  /\ Cardinality(Listed) <= MaxCopies
        /\ ~Writing => settled \subseteq Listed /\ Cardinality(settled) <= MaxCopies

\* As autoSaveBackupCopy says of itself, it is "enforcing the backup_max_copies
\* setting": with nothing under way, and no failure, there are no more backups than that.
CopiesLimited == Working = {} => Cardinality(files) <= MaxCopies

===============================================================================
