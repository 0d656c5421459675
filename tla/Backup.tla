------------------------------- MODULE Backup -------------------------------
(***************************************************************************)
(* The commands backup and restore (cmd/deviceos/backup.go) beside the     *)
(* server that uses the same database file: step by step over the files,   *)
(* with each step failing or the process being killed between two of them. *)
(*                                                                         *)
(* A database is a main file and, beside it, a write-ahead log (-wal) with *)
(* what was committed since the last checkpoint (PRAGMA journal_mode=WAL,  *)
(* internal/db/db.go).  The content is the set of transactions in it.      *)
(* SQLite's part, from how the code uses it: the last connection that      *)
(* closes in order moves the log into the main file; one that dies leaves  *)
(* the log; who opens the file next reads the log that lies beside it,     *)
(* whichever file it was written for.                                      *)
(***************************************************************************)
EXTENDS Integers, FiniteSets

CONSTANTS
  MaxTx,      \* bound: transactions the server commits
  FileIds,    \* what tells one database file from another
  NoFile      \* no such file

Contents == SUBSET (0..MaxTx)
File == [id : FileIds, data : Contents]

ASSUME FilesAssumption ==
  /\ MaxTx \in Nat
  /\ \A i \in FileIds : FileIds # {i}
  /\ NoFile \notin File /\ \A data \in Contents : NoFile # data

VARIABLES
  main,     \* the file at storage.path: [id, data], or NoFile
  wal,      \* the log beside it: [id, data], id the file it is for, or NoFile
  bak,      \* the data of <path>.bak, or NoFile
  archive,  \* the output of backup: [whole, data], or NoFile
  server,   \* the server runs
  bk,       \* the backup command: [pc, data]
  rs,       \* the restore command: [pc, data]
  sameFS,   \* os.TempDir is on the file system of storage.path
  tx,       \* transactions committed so far
  past,     \* history: the contents the database had
  moves,    \* history: times the database was moved to .bak, up to 2
  dirty,    \* history: it was moved while a log lay beside it
  broken    \* history: a log was replayed into another file

fileVars == <<main, wal, bak, archive, server, bk, rs, sameFS, tx, past,
              moves, dirty, broken>>

\* A file that was not written to the end holds no database: {0}.
Torn == {0}

FilesTypeOK ==
  /\ main \in File \cup {NoFile}
  /\ wal \in File \cup {NoFile}
  /\ bak \in Contents \cup {NoFile}
  /\ archive \in [whole : BOOLEAN, data : Contents] \cup {NoFile}
  /\ server \in BOOLEAN
  /\ bk \in [pc : {"idle", "snapped", "writing"}, data : Contents]
  /\ rs \in [pc : {"idle", "verified", "moved"}, data : Contents]
  /\ sameFS \in BOOLEAN
  /\ tx \in 0..MaxTx
  /\ past \subseteq Contents
  /\ moves \in 0..2
  /\ dirty \in BOOLEAN
  /\ broken \in BOOLEAN
  /\ server => main # NoFile

NoCommand == [pc |-> "idle", data |-> {}]

FilesInit ==
  /\ main = NoFile /\ wal = NoFile /\ bak = NoFile /\ archive = NoFile
  /\ server = FALSE
  /\ bk = NoCommand /\ rs = NoCommand
  /\ sameFS \in BOOLEAN
  /\ tx = 0
  /\ past = {{}}
  /\ moves = 0
  /\ dirty = FALSE /\ broken = FALSE

\* What one reads who opens the file with the log beside it.
Content == main.data \cup (IF wal = NoFile THEN {} ELSE wal.data)

Foreign == wal # NoFile /\ main # NoFile /\ wal.id # main.id

\* A new file at the path is none that the log there may be for.
Fresh == {i \in FileIds : wal = NoFile \/ wal.id # i}

Capped(n) == IF n > 2 THEN 2 ELSE n

\* The log goes into the main file.
Checkpointed == [main EXCEPT !.data = Content]

(***************************************************************************)
(* The server, as far as the file sees it.  It is started only while no    *)
(* restore runs ("Restore requires the server to be stopped",              *)
(* Docs/deployment.md:186).                                                *)
(***************************************************************************)
Start ==
  /\ ~server
  /\ rs.pc = "idle"
  /\ \/ /\ main = NoFile  \* a new file; a log without its file is removed
        /\ \E i \in Fresh : main' = [id |-> i, data |-> {}]
        /\ wal' = NoFile
        /\ broken' = broken
     \/ /\ main # NoFile
        /\ broken' = (broken \/ Foreign)
        /\ main' = Checkpointed
        /\ wal' = NoFile
  /\ server' = TRUE
  /\ UNCHANGED <<bak, archive, bk, rs, sameFS, tx, past, moves, dirty>>

Commit ==
  /\ server
  /\ tx < MaxTx
  /\ wal' = [id |-> main.id, data |-> Content \cup {tx + 1}]
  /\ tx' = tx + 1
  /\ past' = past \cup {Content \cup {tx + 1}}
  /\ UNCHANGED <<main, bak, archive, server, bk, rs, sameFS, moves, dirty, broken>>

\* database.Close in cmdStart.
Shutdown ==
  /\ server
  /\ server' = FALSE
  /\ main' = Checkpointed
  /\ wal' = NoFile
  /\ UNCHANGED <<bak, archive, bk, rs, sameFS, tx, past, moves, dirty, broken>>

Crash ==
  /\ server
  /\ server' = FALSE
  /\ UNCHANGED <<main, wal, bak, archive, bk, rs, sameFS, tx, past, moves, dirty, broken>>

(***************************************************************************)
(* backup                                                                  *)
(***************************************************************************)

\* createSnapshot: VACUUM INTO reads one state of the database.  Without a
\* server its connection is the last one, and closing it empties the log.
CreateSnapshot ==
  /\ bk.pc = "idle"
  /\ main # NoFile
  /\ bk' = [pc |-> "snapped", data |-> Content]
  /\ IF server
       THEN UNCHANGED <<main, wal, broken>>
       ELSE /\ main' = Checkpointed
            /\ wal' = NoFile
            /\ broken' = (broken \/ Foreign)
  /\ UNCHANGED <<bak, archive, server, rs, sameFS, tx, past, moves, dirty>>

\* compressFile truncates what is at the output path ...
CreateOutput ==
  /\ bk.pc = "snapped"
  /\ archive' = [whole |-> FALSE, data |-> Torn]
  /\ bk' = [bk EXCEPT !.pc = "writing"]
  /\ UNCHANGED <<main, wal, bak, server, rs, sameFS, tx, past, moves, dirty, broken>>

\* ... and copies; both writers are closed.
WriteOutput ==
  /\ bk.pc = "writing"
  /\ archive' = [whole |-> TRUE, data |-> bk.data]
  /\ bk' = NoCommand
  /\ UNCHANGED <<main, wal, bak, server, rs, sameFS, tx, past, moves, dirty, broken>>

\* An error after os.Create removes the output.
OutputFails ==
  /\ bk.pc \in {"snapped", "writing"}
  /\ archive' = IF bk.pc = "writing" THEN NoFile ELSE archive
  /\ bk' = NoCommand
  /\ UNCHANGED <<main, wal, bak, server, rs, sameFS, tx, past, moves, dirty, broken>>

BackupKilled ==
  /\ bk.pc # "idle"
  /\ bk' = NoCommand
  /\ UNCHANGED <<main, wal, bak, archive, server, rs, sameFS, tx, past, moves, dirty, broken>>

(***************************************************************************)
(* restore                                                                 *)
(***************************************************************************)

\* Mutant: the result of the integrity check is not looked at.
MutDecompressAndVerify ==
  /\ rs.pc = "idle"
  /\ ~server
  /\ archive # NoFile
  /\ rs' = [pc |-> "verified", data |-> archive.data]
  /\ UNCHANGED <<main, wal, bak, archive, server, bk, sameFS, tx, past, moves, dirty, broken>>

\* decompressAndVerify: gzip's trailer or the integrity check tells a torn
\* archive, which ends the command.
DecompressAndVerify ==
  /\ rs.pc = "idle"
  /\ ~server
  /\ archive # NoFile
  /\ archive.whole
  /\ rs' = [pc |-> "verified", data |-> archive.data]
  /\ UNCHANGED <<main, wal, bak, archive, server, bk, sameFS, tx, past, moves, dirty, broken>>

\* Not confirmed, or the first rename fails, or the process is killed.
RestoreEnds ==
  /\ rs.pc # "idle"
  /\ rs' = NoCommand
  /\ UNCHANGED <<main, wal, bak, archive, server, bk, sameFS, tx, past, moves, dirty, broken>>

\* Mutant: the database is removed instead of moved.
MutMoveAway ==
  /\ rs.pc = "verified"
  /\ moves' = Capped(moves + 1)
  /\ main' = NoFile
  /\ rs' = [rs EXCEPT !.pc = "moved"]
  /\ UNCHANGED <<wal, bak, archive, server, bk, sameFS, tx, past, dirty, broken>>

\* os.Rename(dest, dest + ".bak"), over an older one, if there is a database.
MoveAway ==
  /\ rs.pc = "verified"
  /\ \/ /\ main # NoFile
        /\ bak' = main.data
        /\ main' = NoFile
        /\ moves' = Capped(moves + 1)
        /\ dirty' = (dirty \/ wal # NoFile)
     \/ /\ main = NoFile
        /\ UNCHANGED <<bak, main, moves, dirty>>
  /\ rs' = [rs EXCEPT !.pc = "moved"]
  /\ UNCHANGED <<wal, archive, server, bk, sameFS, tx, past, broken>>

\* os.Rename(restoredPath, dest).  Across file systems it fails: RestoreEnds.
PutRestored ==
  /\ rs.pc = "moved"
  /\ sameFS
  /\ \E i \in Fresh : main' = [id |-> i, data |-> rs.data]
  /\ rs' = NoCommand
  /\ UNCHANGED <<wal, bak, archive, server, bk, sameFS, tx, past, moves, dirty, broken>>

FilesNext ==
  \/ Start \/ Commit \/ Shutdown \/ Crash
  \/ CreateSnapshot \/ CreateOutput \/ WriteOutput \/ OutputFails \/ BackupKilled
  \/ DecompressAndVerify \/ MoveAway \/ PutRestored \/ RestoreEnds

FilesSpec == FilesInit /\ [][FilesNext]_fileVars

-----------------------------------------------------------------------------

\* What is at the path, in .bak and in a finished archive is a state the
\* database was in: no torn archive is installed, no log is replayed into a
\* file it was not written for, wherever the commands and the server stopped
\* (backup.go:100-112, 181-230) - if the server had closed the database before
\* each restore, which leaves the log where it is.
OnlyCommittedStates ==
  ~dirty =>
    /\ ~broken
    /\ main # NoFile => ~Foreign /\ Content \in past
    /\ bak # NoFile => bak \in past
    /\ archive # NoFile /\ archive.whole => archive.data \in past

\* A single restore, wherever it fails or is killed, loses no transaction:
\* each is at the path or in .bak (backup.go:100-112) - if the server had closed
\* the database before it.  A second one may: the server makes a new file where
\* the first left none, and that goes to .bak.
OneRestoreLosesNothing ==
  ~dirty /\ moves <= 1 =>
    \A t \in 1..tx : \/ main # NoFile /\ t \in Content
                     \/ bak # NoFile /\ t \in bak

\* A restore that has ended leaves a database at the path: the restored one,
\* or the one that was there (Docs/deployment.md:184, "Replaces the current
\* database with the restored copy").  This does not hold: the second rename
\* (backup.go:109) fails from /tmp to a volume, or the process is killed.
RestoreLeavesADatabase == moves > 0 /\ rs.pc = "idle" => main # NoFile
-----------------------------------------------------------------------------
(***************************************************************************)
(* The inductive invariant: a restore is alone with the files, a log lies  *)
(* beside its own file, copies under way are of a past state, and before   *)
(* the first restore everything is at the path.                            *)
(***************************************************************************)
RestoreIsAlone ==
  /\ rs.pc # "idle" => ~server
  /\ rs.pc = "moved" => main = NoFile

LogHasItsFile == ~dirty /\ wal # NoFile => main # NoFile /\ wal.id = main.id

CopiesWerePast ==
  ~dirty => /\ {} \in past
            /\ bk.pc # "idle" => bk.data \in past
            /\ rs.pc # "idle" => rs.data \in past

UnmovedIsComplete ==
  ~dirty /\ moves = 0 => \A t \in 1..tx : main # NoFile /\ t \in Content

FilesIInv ==
  /\ FilesTypeOK /\ RestoreIsAlone /\ LogHasItsFile /\ CopiesWerePast
  /\ UnmovedIsComplete /\ OnlyCommittedStates /\ OneRestoreLosesNothing
=============================================================================
