------------------------------ MODULE LogTail ------------------------------
(***************************************************************************)
(* AuditdCollector and HoneypotLogCollector: one thread that follows a log *)
(* which another program writes, renames, deletes and creates again.       *)
(*                                                                         *)
(* A file is a number, never used twice: the inode of a file that is held  *)
(* open is not given to another. A line is written in one piece or in two; *)
(* readline returns what there is up to the end of the line or the file.   *)
(***************************************************************************)
EXTENDS Naturals, Sequences, FiniteSets

CONSTANTS
  MaxFiles,   \* bound of the model: files the log has
  MaxLines    \* bound of the model: lines that are written

ASSUME LogTailAssumption == MaxFiles \in Nat \ {0} /\ MaxLines \in Nat

Files == 1..MaxFiles
NoFile == 0
Formats == {"auditd", "cowrie"}

(* A piece of a line; the piece with its newline ends it. A line that is   *)
(* not UTF-8 raises in the reader.                                         *)
Pieces == [line : 1..MaxLines, first : BOOLEAN, ends : BOOLEAN, text : BOOLEAN]

VARIABLES
  format,     \* which collector
  content,    \* pieces in each file
  path,       \* the file under the log's name, or NoFile
  output,     \* the file the logging program writes to
  files,      \* files there were
  written,    \* lines whose writing has begun
  rpc,        \* the collector: look, stat, readline, stopped
  rfile,      \* the file it has open, or NoFile
  offset,     \* pieces of it before the position
  offered,    \* the lines it offered to safe_enqueue, in order
  stop        \* COLLECTOR_STOP

logVars == <<content, path, output, files, written>>
tailVars == <<rpc, rfile, offset, offered>>
logTailVars == <<format, logVars, tailVars, stop>>

TailInit ==
  /\ format \in Formats
  /\ content = [f \in Files |-> <<>>]
  /\ path = NoFile /\ output = NoFile /\ files = 0 /\ written = 0
  /\ rpc = "look" /\ rfile = NoFile /\ offset = 0 /\ offered = <<>>
  /\ stop = FALSE

-----------------------------------------------------------------------------
(***************************************************************************)
(* The logging program and whoever rotates its log.                        *)
(***************************************************************************)
MidLine(f) ==
  f # NoFile /\ content[f] # <<>> /\ ~content[f][Len(content[f])].ends

Create ==
  /\ path = NoFile /\ files < MaxFiles /\ ~MidLine(output)
  /\ files' = files + 1 /\ path' = files + 1 /\ output' = files + 1
  /\ UNCHANGED <<format, content, written, tailVars, stop>>

(* The log is renamed or deleted; it is written on until a new one is made.*)
Unlink ==
  /\ path # NoFile
  /\ path' = NoFile
  /\ UNCHANGED <<format, content, output, files, written, tailVars, stop>>

Write ==
  /\ output # NoFile /\ ~MidLine(output) /\ written < MaxLines
  /\ \E ends, text \in BOOLEAN :
       content' = [content EXCEPT ![output] = Append(@,
         [line |-> written + 1, first |-> TRUE, ends |-> ends, text |-> text])]
  /\ written' = written + 1
  /\ UNCHANGED <<format, path, output, files, tailVars, stop>>

WriteRest ==
  /\ output # NoFile /\ MidLine(output)
  /\ content' = [content EXCEPT ![output] = Append(@,
       [line |-> written, first |-> FALSE, ends |-> TRUE, text |-> TRUE])]
  /\ UNCHANGED <<format, path, output, files, written, tailVars, stop>>

-----------------------------------------------------------------------------
(***************************************************************************)
(* The collector.                                                          *)
(***************************************************************************)
Continue(next) ==
  /\ rpc' = next
  /\ UNCHANGED <<format, logVars, rfile, offset, offered, stop>>

OpensAtBug(f) == 0
OpensPastEndBug(f) == Len(content[f]) + 1

(* f.seek(0, 2): what is in the file already is not read.                  *)
OpensAt(f) == Len(content[f])

(* exists, open and seek; or the log is missing and is looked for again.   *)
Open ==
  /\ rpc = "look" /\ ~stop /\ path # NoFile
  /\ rfile' = path /\ offset' = OpensAt(path) /\ rpc' = "stat"
  /\ UNCHANGED <<format, logVars, offered, stop>>

(* The name no longer leads to the file that is open.                      *)
RotatedBug == FALSE
Rotated == path # rfile

Reopen ==
  /\ rpc = "stat" /\ ~stop /\ Rotated
  /\ rfile' = NoFile /\ offset' = 0 /\ rpc' = "look"
  /\ UNCHANGED <<format, logVars, offered, stop>>

Stat == rpc = "stat" /\ ~stop /\ ~Rotated /\ Continue("readline")

(* stat raises, though the log is there: it is opened again.               *)
StatFails ==
  /\ rpc = "stat" /\ ~stop /\ rfile = path
  /\ rfile' = NoFile /\ offset' = 0 /\ rpc' = "look"
  /\ UNCHANGED <<format, logVars, offered, stop>>

Unread ==
  IF rfile = NoFile THEN <<>>
  ELSE SubSeq(content[rfile], offset + 1, Len(content[rfile]))

(* How many pieces readline returns: to the end of the line or the file.   *)
Taken == IF Len(Unread) >= 2 /\ ~Unread[1].ends THEN 2 ELSE 1
TextTaken == \A i \in 1..Taken : Unread[i].text
Whole == Unread[1].first /\ Unread[Taken].ends

(* An audit record, or a part of one, is an event when it has one of the   *)
(* words; a JSON entry is one when it parses, and a part of it does not.   *)
ReadLine ==
  /\ rpc = "readline" /\ Unread # <<>> /\ TextTaken
  /\ offset' = offset + Taken
  /\ \/ /\ Whole \/ format = "auditd"
        /\ offered' = Append(offered, [line |-> Unread[1].line, whole |-> Whole])
     \/ UNCHANGED offered
  /\ rpc' = "stat"
  /\ UNCHANGED <<format, logVars, rfile, stop>>

AtEnd == rpc = "readline" /\ Unread = <<>> /\ Continue("stat")

(* An exception that is no OSError, when the buffer that is read ahead is  *)
(* decoded: the audit collector ends, the honeypot collector begins again. *)
DecodeFails ==
  /\ rpc = "readline" /\ \E i \in DOMAIN Unread : ~Unread[i].text
  /\ rpc' = IF format = "auditd" THEN "stopped" ELSE "look"
  /\ rfile' = NoFile /\ offset' = 0
  /\ UNCHANGED <<format, logVars, offered, stop>>

Leave ==
  /\ rpc \in {"look", "stat"} /\ stop
  /\ rpc' = "stopped" /\ rfile' = NoFile /\ offset' = 0
  /\ UNCHANGED <<format, logVars, offered, stop>>

RequestStop ==
  /\ ~stop /\ stop' = TRUE
  /\ UNCHANGED <<format, logVars, tailVars>>

Follow == Open \/ Reopen \/ Stat \/ ReadLine \/ AtEnd \/ DecodeFails \/ Leave

TailNext == Create \/ Unlink \/ Write \/ WriteRest \/ Follow \/ StatFails \/ RequestStop

TailSpec == TailInit /\ [][TailNext]_logTailVars

(* The collector's thread runs; each of its waits is timed.                *)
TailFairness == WF_logTailVars(Follow)

-----------------------------------------------------------------------------
(***************************************************************************)
(* Properties.                                                             *)
(***************************************************************************)
TailTypeOK ==
  /\ format \in Formats
  /\ content \in [Files -> Seq(Pieces)]
  /\ path \in Files \cup {NoFile} /\ output \in Files \cup {NoFile}
  /\ files \in 0..MaxFiles /\ written \in 0..MaxLines
  /\ path # NoFile => path = files /\ output = files
  /\ rpc \in {"look", "stat", "readline", "stopped"}
  /\ rpc \in {"stat", "readline"} <=> rfile # NoFile
  /\ rfile \in Files \cup {NoFile}
  /\ offset \in Nat /\ (rfile # NoFile => offset <= Len(content[rfile]))
  /\ offered \in Seq([line : 1..MaxLines, whole : BOOLEAN])
  /\ stop \in BOOLEAN

(* Through rotations, deletions and every way to begin again, no line is   *)
(* offered twice or after a later one. Only the two parts of an audit      *)
(* record that was read while it was written are both offered.             *)
OfferedInOrder ==
  \A i, j \in DOMAIN offered : i < j =>
    \/ offered[i].line < offered[j].line
    \/ /\ offered[i].line = offered[j].line /\ j = i + 1
       /\ format = "auditd" /\ ~offered[i].whole /\ ~offered[j].whole

(* A collector that has neither been stopped nor ended by an exception     *)
(* comes to the end of the file that is under the log's name, again and    *)
(* again: no rotation leaves it with the old file.                         *)
FollowsTheLog ==
  []<>(rpc = "stopped" \/ path = NoFile \/ (rfile = path /\ Unread = <<>>))
=============================================================================
