--------------------------- MODULE SourcesProofs ---------------------------
(***************************************************************************)
(* Proofs about the log collectors, the watchers and the Go agent, for any *)
(* number of files, lines, pids, endpoints, workers and frames and any     *)
(* size of the channel.                                                    *)
(***************************************************************************)
EXTENDS LogTail, HostWatchers, Agent, FiniteSetTheorems, SequenceTheorems, TLAPS

-----------------------------------------------------------------------------
(***************************************************************************)
(* The log's files. Lines are numbered as they are written; a line has one *)
(* piece or two next to each other, and only the last line written may be  *)
(* without its end, in the file that is written to.                        *)
(***************************************************************************)
SameLine(p, q) ==
  p.line = q.line /\ p.first /\ ~p.ends /\ ~q.first /\ q.ends

FilesOK ==
  \A f \in Files :
    /\ \A i \in DOMAIN content[f] : content[f][i].line <= written
    /\ \A i, j \in DOMAIN content[f] : i < j =>
         \/ content[f][i].line < content[f][j].line
         \/ j = i + 1 /\ SameLine(content[f][i], content[f][j])
    /\ f # output => ~MidLine(f)

(* A line without its end is the only piece of the last line.              *)
OpenLine ==
  MidLine(output) =>
    /\ content[output][Len(content[output])].line = written
    /\ content[output][Len(content[output])].first
    /\ \A f \in Files : \A i \in DOMAIN content[f] :
         content[f][i].line = written => f = output /\ i = Len(content[output])

(* What was offered is older than what is written next, and older than     *)
(* what the collector has not read; only a part of an audit record may be  *)
(* of the same line as the piece that comes next.                          *)
PartOffered(i) == i = Len(offered) /\ ~offered[i].whole /\ format = "auditd"

OlderThanWritten ==
  \A i \in DOMAIN offered :
    /\ offered[i].line <= written
    /\ offered[i].line = written /\ MidLine(output) => PartOffered(i)

OlderThanUnread ==
  rfile # NoFile =>
    \A i \in DOMAIN offered : \A k \in DOMAIN content[rfile] : k > offset =>
      \/ offered[i].line < content[rfile][k].line
      \/ /\ offered[i].line = content[rfile][k].line
         /\ k = offset + 1 /\ PartOffered(i)
         /\ ~content[rfile][k].first /\ content[rfile][k].ends

TailInv ==
  /\ TailTypeOK /\ FilesOK /\ OpenLine
  /\ OlderThanWritten /\ OlderThanUnread /\ OfferedInOrder

-----------------------------------------------------------------------------
(***************************************************************************)
(* The writer.                                                             *)
(***************************************************************************)
LEMMA SeqFacts ==
  ASSUME NEW S, NEW q \in Seq(S)
  PROVE  Len(q) \in Nat /\ DOMAIN q = 1..Len(q) /\ \A k \in DOMAIN q : q[k] \in S
OBVIOUS

Offers == [line : 1..MaxLines, whole : BOOLEAN]

Numbers ==
  /\ \A f \in Files : /\ Len(content[f]) \in Nat
                      /\ DOMAIN content[f] = 1..Len(content[f])
                      /\ \A i \in DOMAIN content[f] : content[f][i].line \in Nat
  /\ Len(offered) \in Nat /\ DOMAIN offered = 1..Len(offered)
  /\ \A i \in DOMAIN offered : offered[i].line \in Nat
  /\ written \in Nat /\ offset \in Nat

LEMMA NumbersTyped ==
  ASSUME TailTypeOK
  PROVE  Numbers
<1>1. /\ content \in [Files -> Seq(Pieces)] /\ offered \in Seq(Offers)
      /\ written \in 0..MaxLines /\ offset \in Nat
  BY DEF TailTypeOK, Offers
<1>2. MaxLines \in Nat
  BY LogTailAssumption
<1>3. /\ \A p \in Pieces : p.line \in Nat
      /\ \A o \in Offers : o.line \in Nat
  BY <1>2 DEF Pieces, Offers
<1>4. ASSUME NEW f \in Files
      PROVE  /\ Len(content[f]) \in Nat
             /\ DOMAIN content[f] = 1..Len(content[f])
             /\ \A i \in DOMAIN content[f] : content[f][i].line \in Nat
  <2>1. content[f] \in Seq(Pieces)
    BY <1>1
  <2> QED BY <1>3, <2>1, SeqFacts
<1>5. /\ Len(offered) \in Nat /\ DOMAIN offered = 1..Len(offered)
      /\ \A i \in DOMAIN offered : offered[i].line \in Nat
  BY <1>1, <1>3, SeqFacts
<1>6. written \in Nat /\ offset \in Nat
  BY <1>1, <1>2
<1> QED BY <1>4, <1>5, <1>6 DEF Numbers

LEMMA PieceAppended ==
  ASSUME NEW f \in Files, NEW p \in Pieces, TailTypeOK,
         content' = [content EXCEPT ![f] = Append(@, p)]
  PROVE  /\ content' \in [Files -> Seq(Pieces)]
         /\ \A g \in Files \ {f} : content'[g] = content[g]
         /\ Len(content'[f]) = Len(content[f]) + 1 /\ Len(content[f]) \in Nat
         /\ DOMAIN content[f] = 1..Len(content[f])
         /\ DOMAIN content'[f] = 1..(Len(content[f]) + 1)
         /\ \A i \in DOMAIN content[f] : content'[f][i] = content[f][i]
         /\ content'[f][Len(content[f]) + 1] = p
<1>1. content \in [Files -> Seq(Pieces)]
  BY DEF TailTypeOK
<1>2. content'[f] = Append(content[f], p) /\ content[f] \in Seq(Pieces)
  BY <1>1
<1>3. content' \in [Files -> Seq(Pieces)] /\ \A g \in Files \ {f} : content'[g] = content[g]
  BY <1>1, <1>2
<1> QED BY <1>2, <1>3

LEMMA WriteStep ==
  ASSUME TailInv, Write
  PROVE  TailInv'
<1>1. /\ TailTypeOK /\ FilesOK /\ OpenLine
      /\ OlderThanWritten /\ OlderThanUnread /\ OfferedInOrder
  BY DEF TailInv
<1>0. Numbers
  BY <1>1, NumbersTyped
<1>2. PICK ends \in BOOLEAN, text \in BOOLEAN :
        content' = [content EXCEPT ![output] = Append(@,
          [line |-> written + 1, first |-> TRUE, ends |-> ends, text |-> text])]
  BY DEF Write
<1> DEFINE p == [line |-> written + 1, first |-> TRUE, ends |-> ends, text |-> text]
<1>3. /\ output \in Files /\ written \in Nat /\ written + 1 \in 1..MaxLines
      /\ written' = written + 1 /\ ~MidLine(output)
      /\ format' = format /\ path' = path /\ output' = output /\ files' = files
      /\ rpc' = rpc /\ rfile' = rfile /\ offset' = offset /\ offered' = offered
      /\ stop' = stop
  BY <1>1, LogTailAssumption DEF Write, TailTypeOK, tailVars, NoFile
<1>4. p \in Pieces /\ p.line = written + 1 /\ p.first
  BY <1>3 DEF Pieces
<1>5. content' = [content EXCEPT ![output] = Append(@, p)]
  BY <1>2
<1> HIDE DEF p
<1> DEFINE n == Len(content[output])
<1>6. /\ content' \in [Files -> Seq(Pieces)]
      /\ \A g \in Files \ {output} : content'[g] = content[g]
      /\ Len(content'[output]) = n + 1 /\ n \in Nat
      /\ DOMAIN content[output] = 1..n
      /\ DOMAIN content'[output] = 1..(n + 1)
      /\ \A i \in DOMAIN content[output] : content'[output][i] = content[output][i]
      /\ content'[output][n + 1] = p
  BY <1>1, <1>3, <1>4, <1>5, PieceAppended
<1> HIDE DEF n
<1>7. TailTypeOK'
  <2>1. ASSUME rfile # NoFile
        PROVE  offset <= Len(content'[rfile])
    <3>1. rfile \in Files /\ offset <= Len(content[rfile]) /\ offset \in Nat
      BY <1>1, <2>1 DEF TailTypeOK
    <3>2. CASE rfile = output
      BY <1>6, <3>1, <3>2 DEF n
    <3>3. CASE rfile # output
      BY <1>6, <3>1, <3>3
    <3> QED BY <3>2, <3>3
  <2> QED BY <1>1, <1>3, <1>6, <2>1, LogTailAssumption DEF TailTypeOK
<1>8. FilesOK'
  <2> SUFFICES ASSUME NEW f \in Files
               PROVE  /\ \A i \in DOMAIN content'[f] : content'[f][i].line <= written'
                      /\ \A i, j \in DOMAIN content'[f] : i < j =>
                           \/ content'[f][i].line < content'[f][j].line
                           \/ j = i + 1 /\ SameLine(content'[f][i], content'[f][j])
                      /\ f # output' => ~MidLine(f)'
    BY DEF FilesOK
  <2>1. CASE f # output
    <3>1. content'[f] = content[f]
      BY <1>6, <2>1
    <3>2. ~MidLine(f)'
      BY <1>1, <2>1, <3>1 DEF FilesOK, MidLine
    <3> QED BY <1>0, <1>1, <1>3, <3>1, <3>2 DEF FilesOK, Numbers
  <2>2. CASE f = output
    <3>1. \A i \in DOMAIN content'[f] : content'[f][i].line <= written'
      BY <1>0, <1>1, <1>3, <1>4, <1>6, <2>2 DEF FilesOK, Numbers
    <3>2. ASSUME NEW i \in DOMAIN content'[f], NEW j \in DOMAIN content'[f], i < j
          PROVE  \/ content'[f][i].line < content'[f][j].line
                 \/ j = i + 1 /\ SameLine(content'[f][i], content'[f][j])
      <4>1. i \in DOMAIN content[f]
        BY <1>6, <2>2, <3>2
      <4>2. CASE j = n + 1
        BY <1>0, <1>1, <1>3, <1>4, <1>6, <2>2, <4>1, <4>2 DEF FilesOK, Numbers
      <4>3. CASE j \in DOMAIN content[f]
        BY <1>1, <1>6, <2>2, <3>2, <4>1, <4>3 DEF FilesOK
      <4> QED BY <1>6, <2>2, <4>2, <4>3
    <3> QED BY <1>3, <2>2, <3>1, <3>2
  <2> QED BY <2>1, <2>2
<1>9. OpenLine'
  <2>1. \A f \in Files : \A i \in DOMAIN content[f] : content[f][i].line < written'
    BY <1>0, <1>1, <1>3 DEF FilesOK, Numbers
  <2>2. \A f \in Files : \A i \in DOMAIN content'[f] :
          content'[f][i].line = written' => f = output /\ i = n + 1
    <3> SUFFICES ASSUME NEW f \in Files, NEW i \in DOMAIN content'[f]
                 PROVE  content'[f][i].line = written' => f = output /\ i = n + 1
      OBVIOUS
    <3>1. CASE f # output
      BY <1>0, <1>3, <1>6, <2>1, <3>1 DEF Numbers
    <3>2. CASE f = output /\ i \in DOMAIN content[f]
      BY <1>0, <1>3, <1>6, <2>1, <3>2 DEF Numbers
    <3> QED BY <1>6, <3>1, <3>2
  <2> QED BY <1>3, <1>4, <1>6, <2>2 DEF OpenLine
<1>10. OlderThanWritten'
  BY <1>0, <1>1, <1>3 DEF OlderThanWritten, Numbers
<1>11. OlderThanUnread'
  <2> SUFFICES ASSUME rfile # NoFile, NEW i \in DOMAIN offered,
                      NEW k \in DOMAIN content'[rfile], k > offset
               PROVE  \/ offered[i].line < content'[rfile][k].line
                      \/ /\ offered[i].line = content'[rfile][k].line
                         /\ k = offset + 1 /\ PartOffered(i)
                         /\ ~content'[rfile][k].first /\ content'[rfile][k].ends
    BY <1>3 DEF OlderThanUnread, PartOffered
  <2>1. rfile \in Files
    BY <1>1 DEF TailTypeOK
  <2>2. CASE k \in DOMAIN content[rfile]
    <3>1. content'[rfile][k] = content[rfile][k]
      BY <1>6, <2>1, <2>2
    <3> QED BY <1>1, <2>2, <3>1 DEF OlderThanUnread
  <2>3. CASE rfile = output /\ k = n + 1
    BY <1>0, <1>1, <1>3, <1>4, <1>6, <2>3 DEF OlderThanWritten, Numbers
  <2> QED BY <1>6, <2>1, <2>2, <2>3
<1>12. OfferedInOrder'
  BY <1>1, <1>3 DEF OfferedInOrder
<1> QED BY <1>7, <1>8, <1>9, <1>10, <1>11, <1>12 DEF TailInv

(* The rest of a line: what was offered of that line, if it was, is the    *)
(* part before, and the collector has come to its end.                     *)
LEMMA WriteRestStep ==
  ASSUME TailInv, WriteRest
  PROVE  TailInv'
<1>1. /\ TailTypeOK /\ FilesOK /\ OpenLine
      /\ OlderThanWritten /\ OlderThanUnread /\ OfferedInOrder
  BY DEF TailInv
<1>0. Numbers
  BY <1>1, NumbersTyped
<1> DEFINE p == [line |-> written, first |-> FALSE, ends |-> TRUE, text |-> TRUE]
           n == Len(content[output])
<1>2. /\ output \in Files /\ MidLine(output)
      /\ written' = written
      /\ format' = format /\ path' = path /\ output' = output /\ files' = files
      /\ rpc' = rpc /\ rfile' = rfile /\ offset' = offset /\ offered' = offered
      /\ stop' = stop
      /\ content' = [content EXCEPT ![output] = Append(@, p)]
  BY <1>1 DEF WriteRest, TailTypeOK, tailVars, NoFile
<1>3. /\ n \in DOMAIN content[output] /\ n \in Nat
      /\ content[output][n].line = written
      /\ content[output][n].first /\ ~content[output][n].ends
      /\ \A f \in Files : \A i \in DOMAIN content[f] :
           content[f][i].line = written => f = output /\ i = n
  <2>1. content[output] \in Seq(Pieces) /\ content[output] # <<>>
    BY <1>1, <1>2 DEF MidLine, TailTypeOK
  <2>2. n \in Nat /\ n # 0 /\ DOMAIN content[output] = 1..n
    BY <2>1, EmptySeq
  <2> QED BY <1>1, <1>2, <2>2 DEF MidLine, OpenLine
<1>4. p \in Pieces /\ p.line = written /\ ~p.first /\ p.ends
  <2>1. written \in 1..MaxLines
    <3>1. content[output][n] \in Pieces
      BY <1>1, <1>2, <1>3, SeqFacts DEF TailTypeOK
    <3> QED BY <1>3, <3>1 DEF Pieces
  <2> QED BY <2>1 DEF Pieces
<1> HIDE DEF p
<1>5. /\ content' \in [Files -> Seq(Pieces)]
      /\ \A g \in Files \ {output} : content'[g] = content[g]
      /\ Len(content'[output]) = n + 1
      /\ DOMAIN content[output] = 1..n
      /\ DOMAIN content'[output] = 1..(n + 1)
      /\ \A i \in DOMAIN content[output] : content'[output][i] = content[output][i]
      /\ content'[output][n + 1] = p
  BY <1>1, <1>2, <1>4, PieceAppended
<1> HIDE DEF n
<1>6. TailTypeOK'
  <2>1. ASSUME rfile # NoFile
        PROVE  offset <= Len(content'[rfile])
    <3>1. rfile \in Files /\ offset <= Len(content[rfile]) /\ offset \in Nat
      BY <1>1, <2>1 DEF TailTypeOK
    <3>2. CASE rfile = output
      BY <1>3, <1>5, <3>1, <3>2 DEF n
    <3>3. CASE rfile # output
      BY <1>5, <3>1, <3>3
    <3> QED BY <3>2, <3>3
  <2> QED BY <1>1, <1>2, <1>5, <2>1 DEF TailTypeOK
<1>7. ~MidLine(output)'
  BY <1>2, <1>3, <1>4, <1>5 DEF MidLine
<1>8. FilesOK'
  <2> SUFFICES ASSUME NEW f \in Files
               PROVE  /\ \A i \in DOMAIN content'[f] : content'[f][i].line <= written'
                      /\ \A i, j \in DOMAIN content'[f] : i < j =>
                           \/ content'[f][i].line < content'[f][j].line
                           \/ j = i + 1 /\ SameLine(content'[f][i], content'[f][j])
                      /\ f # output' => ~MidLine(f)'
    BY DEF FilesOK
  <2>1. CASE f # output
    <3>1. content'[f] = content[f]
      BY <1>5, <2>1
    <3>2. ~MidLine(f)'
      BY <1>1, <2>1, <3>1 DEF FilesOK, MidLine
    <3> QED BY <1>1, <1>2, <3>1, <3>2 DEF FilesOK
  <2>2. CASE f = output
    <3>1. ASSUME NEW i \in DOMAIN content'[f]
          PROVE  content'[f][i].line <= written'
      <4>1. CASE i = n + 1
        BY <1>0, <1>2, <1>4, <1>5, <2>2, <4>1 DEF Numbers
      <4>2. CASE i \in DOMAIN content[f]
        BY <1>1, <1>2, <1>5, <2>2, <4>2 DEF FilesOK
      <4> QED BY <1>3, <1>5, <2>2, <4>1, <4>2
    <3>2. ASSUME NEW i \in DOMAIN content'[f], NEW j \in DOMAIN content'[f], i < j
          PROVE  \/ content'[f][i].line < content'[f][j].line
                 \/ j = i + 1 /\ SameLine(content'[f][i], content'[f][j])
      <4>1. i \in DOMAIN content[f] /\ content'[f][i] = content[f][i]
        BY <1>3, <1>5, <2>2, <3>2
      <4>2. CASE j = n + 1 /\ i # n
        <5>1. content[f][i].line # written /\ content[f][i].line <= written
          BY <1>1, <1>3, <2>2, <4>1, <4>2 DEF FilesOK
        <5> QED BY <1>0, <1>4, <1>5, <2>2, <4>1, <4>2, <5>1 DEF Numbers
      <4>3. CASE j = n + 1 /\ i = n
        <5>1. content'[f][i] = content[output][n] /\ content'[f][j] = p
          BY <1>5, <2>2, <4>1, <4>3
        <5> QED BY <1>3, <1>4, <4>3, <5>1 DEF SameLine
      <4>4. CASE j \in DOMAIN content[f]
        BY <1>1, <1>5, <2>2, <3>2, <4>1, <4>4 DEF FilesOK
      <4> QED BY <1>3, <1>5, <2>2, <4>2, <4>3, <4>4
    <3> QED BY <1>2, <2>2, <3>1, <3>2
  <2> QED BY <2>1, <2>2
<1>9. OpenLine' /\ OlderThanWritten'
  BY <1>1, <1>2, <1>7 DEF OpenLine, OlderThanWritten
<1>10. OlderThanUnread'
  <2> SUFFICES ASSUME rfile # NoFile, NEW i \in DOMAIN offered,
                      NEW k \in DOMAIN content'[rfile], k > offset
               PROVE  \/ offered[i].line < content'[rfile][k].line
                      \/ /\ offered[i].line = content'[rfile][k].line
                         /\ k = offset + 1 /\ PartOffered(i)
                         /\ ~content'[rfile][k].first /\ content'[rfile][k].ends
    BY <1>2 DEF OlderThanUnread, PartOffered
  <2>1. rfile \in Files
    BY <1>1 DEF TailTypeOK
  <2>2. CASE k \in DOMAIN content[rfile]
    <3>1. content'[rfile][k] = content[rfile][k]
      BY <1>5, <2>1, <2>2
    <3> QED BY <1>1, <2>2, <3>1 DEF OlderThanUnread
  <2>3. CASE rfile = output /\ k = n + 1
    <3>1. CASE offered[i].line # written
      BY <1>0, <1>1, <1>4, <1>5, <2>3, <3>1 DEF OlderThanWritten, Numbers
    <3>2. CASE offered[i].line = written
      <4>1. PartOffered(i)
        BY <1>1, <1>2, <3>2 DEF OlderThanWritten
      <4>2. ~(n > offset)
        BY <1>0, <1>1, <1>3, <2>3, <3>2 DEF OlderThanUnread, Numbers
      <4>3. k = offset + 1
        BY <1>0, <1>3, <2>3, <4>2 DEF Numbers
      <4>4. content'[rfile][k] = p
        BY <1>5, <2>3
      <4> QED BY <1>4, <3>2, <4>1, <4>3, <4>4
    <3> QED BY <3>1, <3>2
  <2> QED BY <1>3, <1>5, <2>1, <2>2, <2>3
<1>11. OfferedInOrder'
  BY <1>1, <1>2 DEF OfferedInOrder
<1> QED BY <1>6, <1>8, <1>9, <1>10, <1>11 DEF TailInv

LEMMA CreateStep ==
  ASSUME TailInv, Create
  PROVE  TailInv'
<1>1. /\ TailTypeOK /\ FilesOK /\ OpenLine
      /\ OlderThanWritten /\ OlderThanUnread /\ OfferedInOrder
  BY DEF TailInv
<1>2. /\ content' = content /\ written' = written /\ ~MidLine(output)
      /\ format' = format /\ rfile' = rfile /\ offset' = offset /\ offered' = offered
  BY DEF Create, tailVars
<1>3. \A f \in Files : ~MidLine(f)'
  BY <1>1, <1>2 DEF FilesOK, MidLine
<1>4. TailTypeOK'
  BY <1>1, LogTailAssumption DEF Create, TailTypeOK, tailVars, Files, NoFile
<1>5. ~MidLine(output)'
  BY <1>3, <1>4 DEF TailTypeOK, MidLine
<1>6. FilesOK' /\ OpenLine' /\ OlderThanWritten'
  BY <1>1, <1>2, <1>3, <1>5 DEF FilesOK, OpenLine, OlderThanWritten
<1>7. OlderThanUnread' /\ OfferedInOrder'
  BY <1>1, <1>2 DEF OlderThanUnread, PartOffered, OfferedInOrder
<1> QED BY <1>4, <1>6, <1>7 DEF TailInv

LEMMA UnlinkStep ==
  ASSUME TailInv, Unlink
  PROVE  TailInv'
BY DEF Unlink, TailInv, TailTypeOK, FilesOK, MidLine, OpenLine, OlderThanWritten,
       OlderThanUnread, PartOffered, OfferedInOrder, tailVars

-----------------------------------------------------------------------------
(***************************************************************************)
(* The reader.                                                             *)
(***************************************************************************)
LogInv == FilesOK /\ OpenLine /\ OlderThanWritten /\ OfferedInOrder

(* A step that offers nothing and leaves the log alone.                    *)
LEMMA LogLeftAlone ==
  ASSUME LogInv, UNCHANGED <<logVars, format, offered>>
  PROVE  LogInv'
BY DEF LogInv, logVars, FilesOK, MidLine, OpenLine, OlderThanWritten, PartOffered,
       OfferedInOrder

(* A file is read from its end when it is opened.                          *)
LEMMA OpenStep ==
  ASSUME TailInv, Open
  PROVE  TailInv'
<1>1. /\ TailTypeOK /\ LogInv /\ content' = content
      /\ path \in Files /\ rfile' = path /\ offset' = Len(content[path])
  BY DEF TailInv, LogInv, Open, OpensAt, logVars, TailTypeOK
<1>2. DOMAIN content[path] = 1..Len(content[path]) /\ Len(content[path]) \in Nat
  BY <1>1, NumbersTyped DEF Numbers
<1>3. OlderThanUnread'
  BY <1>1, <1>2 DEF OlderThanUnread
<1>4. TailTypeOK'
  BY <1>1, <1>2 DEF TailTypeOK, Open, logVars, Files, NoFile
<1>5. LogInv'
  BY <1>1, LogLeftAlone DEF Open
<1> QED BY <1>3, <1>4, <1>5 DEF TailInv, LogInv

(* The steps after which no file is open.                                  *)
LEMMA FileClosed ==
  ASSUME TailInv, Reopen \/ StatFails \/ DecodeFails \/ Leave
  PROVE  TailInv'
<1>1. /\ TailTypeOK /\ LogInv /\ UNCHANGED <<format, logVars, offered, stop>>
      /\ rfile' = NoFile /\ offset' = 0 /\ rpc' \in {"look", "stopped"}
  BY DEF TailInv, LogInv, Reopen, StatFails, DecodeFails, Leave
<1>2. TailTypeOK'
  BY <1>1 DEF TailTypeOK, logVars
<1>3. LogInv'
  BY <1>1, LogLeftAlone
<1> QED BY <1>1, <1>2, <1>3 DEF TailInv, LogInv, OlderThanUnread

(* The steps that move neither the position nor the log.                   *)
LEMMA PositionKept ==
  ASSUME TailInv, Stat \/ AtEnd \/ RequestStop \/ UNCHANGED logTailVars
  PROVE  TailInv'
<1>1. TailTypeOK /\ LogInv /\ OlderThanUnread
  BY DEF TailInv, LogInv
<1>2. UNCHANGED <<format, logVars, rfile, offset, offered>>
  BY DEF Stat, AtEnd, RequestStop, Continue, logTailVars, tailVars
<1>3. stop' \in BOOLEAN /\ rpc' \in {"look", "stat", "readline", "stopped"}
      /\ (rpc' \in {"stat", "readline"} <=> rfile # NoFile)
  BY <1>1 DEF TailTypeOK, Stat, AtEnd, RequestStop, Continue, logTailVars, tailVars
<1>4. TailTypeOK'
  BY <1>1, <1>2, <1>3 DEF TailTypeOK, logVars
<1>5. LogInv'
  BY <1>1, <1>2, LogLeftAlone
<1>6. OlderThanUnread'
  BY <1>1, <1>2 DEF OlderThanUnread, PartOffered, logVars
<1> QED BY <1>4, <1>5, <1>6 DEF TailInv, LogInv

(* What readline returns: a piece, or the two pieces of one line.          *)
LEMMA WhatIsRead ==
  ASSUME TailTypeOK, FilesOK, rfile # NoFile, Unread # <<>>
  PROVE  /\ rfile \in Files /\ offset + 1 \in DOMAIN content[rfile]
         /\ Unread[1] = content[rfile][offset + 1]
         /\ Taken \in {1, 2} /\ offset + Taken \in DOMAIN content[rfile]
         /\ Unread[Taken] = content[rfile][offset + Taken]
         /\ Taken = 1 => Unread[1].ends \/ offset + 1 = Len(content[rfile])
         /\ Taken = 2 => ~Unread[1].ends
<1>1. /\ rfile \in Files /\ offset \in Nat /\ content[rfile] \in Seq(Pieces)
      /\ offset <= Len(content[rfile])
  BY DEF TailTypeOK
<1> DEFINE n == Len(content[rfile])
<1>2. n \in Nat /\ DOMAIN content[rfile] = 1..n
  BY <1>1, SeqFacts
<1>3. Unread = SubSeq(content[rfile], offset + 1, n)
  BY DEF Unread
<1>4. /\ Len(Unread) = n - offset
      /\ \A k \in 1..(n - offset) : Unread[k] = content[rfile][offset + k]
  BY <1>1, <1>2, <1>3
<1>5. n - offset > 0
  BY <1>1, <1>2, <1>3, SubSeqProperties
<1> HIDE DEF n
<1>6. Taken \in {1, 2} /\ Taken <= n - offset
      /\ (Taken = 1 => Unread[1].ends \/ n - offset = 1)
      /\ (Taken = 2 => ~Unread[1].ends)
  BY <1>1, <1>2, <1>4, <1>5 DEF Taken
<1> QED BY <1>1, <1>2, <1>4, <1>5, <1>6 DEF n

(* The line that is read is newer than what was offered, but for the rest  *)
(* of a record whose first part was offered; what remains unread is newer. *)
LEMMA ReadLineStep ==
  ASSUME TailInv, ReadLine
  PROVE  TailInv'
<1> DEFINE a == content[rfile][offset + 1]
           b == content[rfile][offset + Taken]
           o == [line |-> a.line, whole |-> a.first /\ b.ends]
           m == Len(offered) + 1
<1>1. /\ TailTypeOK /\ FilesOK /\ OpenLine
      /\ OlderThanWritten /\ OlderThanUnread /\ OfferedInOrder
  BY DEF TailInv
<1>2. Numbers
  BY <1>1, NumbersTyped
<1>3. /\ rfile # NoFile /\ Unread # <<>> /\ offset' = offset + Taken /\ rpc' = "stat"
      /\ UNCHANGED <<format, content, path, output, files, written, rfile, stop>>
  BY <1>1 DEF ReadLine, TailTypeOK, logVars
<1>4. /\ rfile \in Files /\ offset + 1 \in DOMAIN content[rfile]
      /\ Unread[1] = a /\ Unread[Taken] = b
      /\ Taken \in {1, 2} /\ offset + Taken \in DOMAIN content[rfile]
      /\ Taken = 1 => a.ends \/ offset + 1 = Len(content[rfile])
      /\ Taken = 2 => ~a.ends
  BY <1>1, <1>3, WhatIsRead
<1>5. \/ (o.whole \/ format = "auditd") /\ offered' = Append(offered, o)
      \/ offered' = offered
  BY <1>4 DEF ReadLine, Whole
<1>6. a \in Pieces /\ b \in Pieces
  BY <1>1, <1>4, SeqFacts DEF TailTypeOK
<1>7. o \in Offers /\ o.line = a.line /\ o.line \in Nat /\ o.line <= written
  BY <1>1, <1>2, <1>4, <1>6 DEF Pieces, Offers, FilesOK, Numbers
<1>8. /\ offered \in Seq(Offers) /\ m \in Nat /\ DOMAIN offered = 1..(m - 1)
      /\ \A i \in DOMAIN offered : offered[i].line \in Nat
  BY <1>1, <1>2 DEF TailTypeOK, Offers, Numbers
<1>9. ASSUME NEW i \in DOMAIN offered
      PROVE  \/ offered[i].line < o.line
             \/ offered[i].line = o.line /\ PartOffered(i) /\ ~a.first
  BY <1>1, <1>2, <1>3, <1>4, <1>7, <1>9 DEF OlderThanUnread, Numbers
<1>10. ASSUME NEW k \in DOMAIN content[rfile], k > offset + Taken
       PROVE  /\ o.line < content[rfile][k].line
              /\ \A i \in DOMAIN offered : offered[i].line < content[rfile][k].line
  <2>1. offset \in Nat /\ k \in Nat /\ k > offset + 1 /\ content[rfile][k].line \in Nat
        /\ k <= Len(content[rfile])
    BY <1>2, <1>4, <1>10 DEF Numbers
  <2>2. ~(k = offset + 2 /\ SameLine(a, content[rfile][k]))
    BY <1>4, <1>10, <2>1 DEF SameLine
  <2>3. o.line < content[rfile][k].line
    BY <1>1, <1>4, <1>7, <2>1, <2>2 DEF FilesOK
  <2>4. \A i \in DOMAIN offered : offered[i].line < content[rfile][k].line
    BY <1>1, <1>3, <1>10, <2>1 DEF OlderThanUnread
  <2> QED BY <2>3, <2>4
<1>11. ASSUME o.line = written, MidLine(output)
       PROVE  /\ ~o.whole
              /\ \A i \in DOMAIN offered : offered[i].line # written
  <2>1. rfile = output /\ offset + 1 = Len(content[rfile]) /\ a.first /\ ~a.ends
    BY <1>1, <1>4, <1>7, <1>11 DEF OpenLine, MidLine
  <2>2. Taken = 1
    BY <1>2, <1>4, <2>1 DEF Numbers
  <2>3. ~o.whole
    BY <2>1, <2>2
  <2> HIDE DEF o
  <2>4. \A i \in DOMAIN offered : offered[i].line < o.line
    BY <1>9, <2>1, <1>4, <1>11
  <2> QED BY <1>7, <1>8, <1>11, <2>3, <2>4
<1>12. TailTypeOK'
  <2>1. offset' \in Nat /\ offset' <= Len(content[rfile])
    BY <1>2, <1>3, <1>4 DEF Numbers
  <2>2. offered' \in Seq(Offers)
    BY <1>5, <1>7, <1>8
  <2> QED BY <1>1, <1>3, <2>1, <2>2 DEF TailTypeOK, Offers
<1>13. FilesOK' /\ OpenLine'
  BY <1>1, <1>3 DEF FilesOK, OpenLine, MidLine
<1>14. CASE offered' = offered
  <2>1. OlderThanWritten' /\ OfferedInOrder'
    BY <1>1, <1>3, <1>14 DEF OlderThanWritten, PartOffered, OfferedInOrder, MidLine
  <2>2. OlderThanUnread'
    BY <1>3, <1>10, <1>14 DEF OlderThanUnread
  <2> QED BY <1>12, <1>13, <2>1, <2>2 DEF TailInv
<1>15. CASE (o.whole \/ format = "auditd") /\ offered' = Append(offered, o)
  <2>1. /\ Len(offered') = m /\ DOMAIN offered' = 1..m /\ offered'[m] = o
        /\ \A i \in DOMAIN offered : offered'[i] = offered[i]
    BY <1>7, <1>8, <1>15
  <2> HIDE DEF o, m
  <2>2. OlderThanWritten'
    <3> SUFFICES ASSUME NEW i \in DOMAIN offered'
                 PROVE  /\ offered'[i].line <= written
                        /\ offered'[i].line = written /\ MidLine(output) => PartOffered(i)'
      BY <1>3 DEF OlderThanWritten, MidLine
    <3>1. CASE i = m
      BY <1>3, <1>7, <1>11, <1>15, <2>1, <3>1 DEF PartOffered
    <3>2. CASE i \in DOMAIN offered
      <4>1. offered'[i] = offered[i] /\ offered[i].line <= written
        BY <1>1, <2>1, <3>2 DEF OlderThanWritten
      <4>2. ~(offered[i].line = written /\ MidLine(output))
        BY <1>2, <1>7, <1>8, <1>9, <1>11, <3>2 DEF Numbers
      <4> QED BY <4>1, <4>2
    <3> QED BY <1>8, <2>1, <3>1, <3>2
  <2>3. OlderThanUnread'
    BY <1>3, <1>8, <1>10, <2>1 DEF OlderThanUnread
  <2>4. OfferedInOrder'
    <3> SUFFICES ASSUME NEW i \in DOMAIN offered', NEW j \in DOMAIN offered', i < j
                 PROVE  \/ offered'[i].line < offered'[j].line
                        \/ /\ offered'[i].line = offered'[j].line /\ j = i + 1
                           /\ format = "auditd" /\ ~offered'[i].whole /\ ~offered'[j].whole
      BY <1>3 DEF OfferedInOrder
    <3>1. i \in DOMAIN offered /\ offered'[i] = offered[i]
      BY <1>8, <2>1
    <3>2. CASE j = m
      <4>1. ~a.first => ~o.whole
        BY DEF o
      <4>2. m = Len(offered) + 1
        BY DEF m
      <4> QED BY <1>9, <2>1, <3>1, <3>2, <4>1, <4>2 DEF PartOffered
    <3>3. CASE j \in DOMAIN offered
      BY <1>1, <2>1, <3>1, <3>3 DEF OfferedInOrder
    <3> QED BY <1>8, <2>1, <3>2, <3>3
  <2> QED BY <1>12, <1>13, <2>2, <2>3, <2>4 DEF TailInv
<1> QED BY <1>5, <1>14, <1>15

LEMMA TailStart ==
  ASSUME TailInit
  PROVE  TailInv
<1>1. TailTypeOK
  <2>1. \A S : <<>> \in Seq(S)
    OBVIOUS
  <2>2. content \in [Files -> Seq(Pieces)]
    BY <2>1 DEF TailInit
  <2>3. /\ offered \in Seq([line : 1..MaxLines, whole : BOOLEAN])
        /\ files \in 0..MaxFiles /\ written \in 0..MaxLines
    BY <2>1, LogTailAssumption DEF TailInit
  <2> QED BY <2>2, <2>3 DEF TailInit, TailTypeOK
<1>2. FilesOK /\ OpenLine
  BY DEF TailInit, FilesOK, OpenLine, MidLine
<1>3. OlderThanWritten /\ OlderThanUnread /\ OfferedInOrder
  BY DEF TailInit, OlderThanWritten, OlderThanUnread, OfferedInOrder
<1> QED BY <1>1, <1>2, <1>3 DEF TailInv

LEMMA TailStep ==
  ASSUME TailInv, [TailNext]_logTailVars
  PROVE  TailInv'
BY CreateStep, UnlinkStep, WriteStep, WriteRestStep, OpenStep, FileClosed, PositionKept,
   ReadLineStep
   DEF TailNext, Follow

(* The types of the model of AuditdCollector and HoneypotLogCollector, and *)
(* what the invariant adds: no open file is read past its end.             *)
THEOREM TailTyped == TailSpec => []TailTypeOK
<1>1. TailInv => TailTypeOK
  BY DEF TailInv
<1> QED BY <1>1, TailStart, TailStep, PTL DEF TailSpec

(* Of a log that is renamed, deleted and made again while it is read, no   *)
(* line is offered twice or out of order, whatever the number of files and *)
(* of lines.                                                               *)
THEOREM LinesInOrder == TailSpec => []OfferedInOrder
<1>1. TailInv => OfferedInOrder
  BY DEF TailInv
<1> QED BY <1>1, TailStart, TailStep, PTL DEF TailSpec

-----------------------------------------------------------------------------
(***************************************************************************)
(* The watchers. ReportedOnce holds because a process that was reported is *)
(* in seen_pids for as long as it has its pid: the second glob of a scan   *)
(* takes out no pid that is in use, and a process that is born had not     *)
(* been reported.                                                          *)
(***************************************************************************)
HostOK ==
  /\ births \in 0..MaxBirths
  /\ alive \in [Pids -> 0..births]
  /\ \A p, q \in Pids : alive[p] # 0 /\ alive[p] = alive[q] => p = q
  /\ suspicious \subseteq 1..births

ProcessesOK ==
  /\ seenPids \subseteq Pids /\ toScan \subseteq Pids
  /\ reported \in [1..MaxBirths -> {0, 1}]
  /\ \A n \in 1..MaxBirths : reported[n] = 1 => n \in suspicious
  /\ \A p \in Pids : alive[p] # 0 /\ reported[alive[p]] = 1 => p \in seenPids

EndpointsOK ==
  \A e \in Endpoints :
    alerts[e] = {} \/ (e \in seenConnections /\ \E c : alerts[e] = {c})

WatchersInv == HostOK /\ ProcessesOK /\ EndpointsOK

LEMMA WatchersInitInv == WatchersInit => WatchersInv
BY WatchersAssumption
   DEF WatchersInit, WatchersInv, HostOK, ProcessesOK, EndpointsOK

LEMMA WatchersNextInv == WatchersInv /\ [WatchersNext]_hostWatcherVars => WatchersInv'
<1> SUFFICES ASSUME WatchersInv, [WatchersNext]_hostWatcherVars PROVE WatchersInv'
  OBVIOUS
<1> USE WatchersAssumption
<1>1. ASSUME NEW p \in Pids, Birth(p) PROVE WatchersInv'
  <2>1. HostOK'
    BY <1>1 DEF Birth, WatchersInv, HostOK
  <2>2. ProcessesOK'
    <3>1. births + 1 \in 1..MaxBirths /\ births + 1 \notin suspicious
      BY <1>1 DEF Birth, WatchersInv, HostOK
    <3>2. reported[births + 1] # 1
      BY <3>1 DEF WatchersInv, ProcessesOK
    <3>3. ASSUME NEW q \in Pids, alive'[q] # 0, reported'[alive'[q]] = 1
          PROVE  q \in seenPids'
      <4>1. q # p
        BY <1>1, <3>2, <3>3 DEF Birth, watcherVars, WatchersInv, HostOK
      <4> QED BY <1>1, <3>3, <4>1 DEF Birth, watcherVars, WatchersInv, HostOK, ProcessesOK
    <3> QED BY <1>1, <3>3 DEF Birth, watcherVars, WatchersInv, ProcessesOK
  <2> QED BY <1>1, <2>1, <2>2 DEF Birth, watcherVars, WatchersInv, EndpointsOK
<1>2. ASSUME NEW p \in Pids, Exec(p) PROVE WatchersInv'
  <2>1. HostOK'
    <3>1. alive[p] \in 1..births
      BY <1>2 DEF Exec, WatchersInv, HostOK
    <3> QED BY <1>2, <3>1 DEF Exec, WatchersInv, HostOK
  <2>2. ProcessesOK'
    <3>1. suspicious \subseteq suspicious'
      BY <1>2 DEF Exec
    <3> QED BY <1>2, <3>1 DEF Exec, watcherVars, WatchersInv, ProcessesOK
  <2> QED BY <1>2, <2>1, <2>2 DEF Exec, watcherVars, WatchersInv, EndpointsOK
<1>3. ASSUME NEW p \in Pids, Death(p) PROVE WatchersInv'
  <2>1. HostOK'
    BY <1>3 DEF Death, WatchersInv, HostOK
  <2>2. ProcessesOK'
    BY <1>3 DEF Death, watcherVars, WatchersInv, HostOK, ProcessesOK
  <2> QED BY <1>3, <2>1, <2>2 DEF Death, watcherVars, WatchersInv, EndpointsOK
<1>4. ASSUME NEW e \in Endpoints, Connect(e) \/ Disconnect(e) PROVE WatchersInv'
  BY <1>4 DEF Connect, Disconnect, watcherVars, WatchersInv, HostOK, ProcessesOK, EndpointsOK
<1>5. CASE Glob
  BY <1>5 DEF Glob, Alive, hostVars, WatchersInv, HostOK, ProcessesOK, EndpointsOK
<1>6. CASE Prune
  BY <1>6 DEF Prune, Kept, Alive, hostVars, WatchersInv, HostOK, ProcessesOK, EndpointsOK
<1>7. CASE ScanConnections
  <2>1. ASSUME NEW e \in Endpoints
        PROVE  \/ alerts'[e] = {}
               \/ e \in seenConnections' /\ \E c : alerts'[e] = {c}
    <3>1. CASE e \in NewEndpoints
      <4>1. alerts[e] = {} /\ e \in seenConnections'
        BY <1>7, <3>1 DEF ScanConnections, NewEndpoints, WatchersInv, EndpointsOK
      <4>2. alerts'[e] = {connected[e]}
        BY <1>7, <3>1, <4>1 DEF ScanConnections
      <4> QED BY <4>1, <4>2
    <3>2. CASE e \notin NewEndpoints
      BY <1>7, <3>2 DEF ScanConnections, WatchersInv, EndpointsOK
    <3> QED BY <3>1, <3>2
  <2> QED BY <1>7, <2>1
          DEF ScanConnections, hostVars, WatchersInv, HostOK, ProcessesOK, EndpointsOK
<1>8. ASSUME NEW p \in Pids, NEW readable \in BOOLEAN, Examine(p, readable)
      PROVE  WatchersInv'
  <2>1. HostOK' /\ EndpointsOK'
    BY <1>8 DEF Examine, hostVars, WatchersInv, HostOK, EndpointsOK
  <2>2. CASE p \in seenPids \/ p \notin Alive \/ ~readable
    BY <1>8, <2>1, <2>2 DEF Examine, hostVars, WatchersInv, ProcessesOK
  <2>3. CASE ~(p \in seenPids \/ p \notin Alive \/ ~readable)
    <3>1. alive[p] \in 1..MaxBirths /\ reported[alive[p]] = 0
      BY <2>3 DEF Alive, WatchersInv, HostOK, ProcessesOK
    <3>2. ASSUME NEW q \in Pids, alive[q] # 0, reported'[alive[q]] = 1
          PROVE  q \in seenPids \cup {p}
      BY <1>8, <2>3, <3>1, <3>2 DEF Examine, WatchersInv, HostOK, ProcessesOK
    <3> QED BY <1>8, <2>1, <2>3, <3>1, <3>2 DEF Examine, hostVars, WatchersInv, ProcessesOK
  <2> QED BY <2>2, <2>3
<1>9. CASE UNCHANGED hostWatcherVars
  BY <1>9 DEF hostWatcherVars, hostVars, watcherVars, WatchersInv, HostOK, ProcessesOK,
              EndpointsOK
<1> QED BY <1>1, <1>2, <1>3, <1>4, <1>5, <1>6, <1>7, <1>8, <1>9 DEF WatchersNext

(* ProcessWatcher reports a process at most once and only if it was        *)
(* suspicious, however often its pid is forgotten, taken over and given    *)
(* away; NetworkWatcher reports an endpoint once.                          *)
THEOREM NothingReportedTwice == WatchersSpec => []ReportedOnce
<1>1. ASSUME WatchersInv PROVE ReportedOnce
  <2>1. ASSUME NEW n \in 1..MaxBirths
        PROVE  reported[n] <= (IF n \in suspicious THEN 1 ELSE 0)
    BY <1>1 DEF WatchersInv, ProcessesOK
  <2>2. ASSUME NEW e \in Endpoints PROVE Cardinality(alerts[e]) <= 1
    <3>1. CASE alerts[e] = {}
      BY <3>1, FS_EmptySet
    <3>2. CASE \E c : alerts[e] = {c}
      <4>1. PICK c : alerts[e] = {c}
        BY <3>2
      <4>2. Cardinality({c}) = 1
        BY FS_Singleton
      <4> QED BY <4>1, <4>2
    <3> QED BY <1>1, <3>1, <3>2 DEF WatchersInv, EndpointsOK
  <2> QED BY <2>1, <2>2 DEF ReportedOnce
<1> QED BY <1>1, WatchersInitInv, WatchersNextInv, PTL DEF WatchersSpec

-----------------------------------------------------------------------------
(***************************************************************************)
(* The agent. EachFrameOnce needs to know that a frame is in the channel *)
(* once, and that nothing is known of a frame before it arrives.           *)
(***************************************************************************)
ChannelOK ==
  /\ frames \in 0..MaxFrames
  /\ channel \in Seq(1..frames)
  /\ \A i, j \in 1..Len(channel) : channel[i] = channel[j] => i = j

FramesOK ==
  /\ accepted \in [Frames -> Nat]
  /\ atServer \subseteq 1..frames /\ lost \subseteq 1..frames
  /\ \A f \in Frames : f > frames => accepted[f] = 0

(* FrameAccounting without arithmetic: a frame has one of four fates.      *)
OneFate ==
  \A f \in 1..frames :
    \/ accepted[f] = 1 /\ f \notin lost /\ f \notin atServer /\ f \notin Queued
    \/ accepted[f] = 0 /\ f \in lost /\ f \notin atServer /\ f \notin Queued
    \/ accepted[f] = 0 /\ f \notin lost /\ f \in atServer /\ f \notin Queued
    \/ accepted[f] = 0 /\ f \notin lost /\ f \notin atServer /\ f \in Queued

AgentInv == ChannelOK /\ FramesOK /\ OneFate

LEMMA AgentInitInv == AgentInit => AgentInv
BY AgentAssumption
   DEF AgentInit, AgentInv, ChannelOK, FramesOK, OneFate, Frames, Queued

(* What is queued after a frame was put in, taken out, or all were lost.   *)
LEMMA QueuedAfterAppend ==
  ASSUME NEW n \in Nat, NEW c \in Seq(1..n), NEW f
  PROVE  {Append(c, f)[i] : i \in DOMAIN Append(c, f)} = {c[i] : i \in DOMAIN c} \cup {f}
<1>1. DOMAIN Append(c, f) = 1..(Len(c) + 1) /\ DOMAIN c = 1..Len(c)
  OBVIOUS
<1>2. \A i \in 1..Len(c) : Append(c, f)[i] = c[i]
  OBVIOUS
<1>3. Append(c, f)[Len(c) + 1] = f
  OBVIOUS
<1> QED BY <1>1, <1>2, <1>3

LEMMA QueuedAfterTail ==
  ASSUME NEW n \in Nat, NEW c \in Seq(1..n), c # <<>>,
         \A i, j \in 1..Len(c) : c[i] = c[j] => i = j
  PROVE  /\ {Tail(c)[i] : i \in DOMAIN Tail(c)} = {c[i] : i \in DOMAIN c} \ {Head(c)}
         /\ Head(c) \in {c[i] : i \in DOMAIN c}
<1>1. DOMAIN Tail(c) = 1..(Len(c) - 1) /\ DOMAIN c = 1..Len(c) /\ Len(c) > 0
  OBVIOUS
<1>2. \A i \in 1..(Len(c) - 1) : Tail(c)[i] = c[i + 1]
  OBVIOUS
<1>3. Head(c) = c[1]
  OBVIOUS
<1>4. ASSUME NEW i \in 2..Len(c) PROVE c[i] # Head(c) /\ c[i] = Tail(c)[i - 1]
  BY <1>1, <1>2, <1>3, <1>4
<1>5. ASSUME NEW x \in {c[i] : i \in DOMAIN c}, x # Head(c)
      PROVE  x \in {Tail(c)[i] : i \in DOMAIN Tail(c)}
  <2>1. PICK i \in 1..Len(c) : x = c[i]
    BY <1>1
  <2>2. i \in 2..Len(c) /\ i - 1 \in DOMAIN Tail(c)
    BY <1>1, <1>3, <1>5, <2>1
  <2> QED BY <1>4, <2>1, <2>2
<1>6. ASSUME NEW x \in {Tail(c)[i] : i \in DOMAIN Tail(c)}
      PROVE  x \in {c[i] : i \in DOMAIN c} /\ x # Head(c)
  <2>1. PICK i \in 1..(Len(c) - 1) : x = c[i + 1]
    BY <1>1, <1>2
  <2> QED BY <1>1, <1>4, <2>1
<1>7. Head(c) \in {c[i] : i \in DOMAIN c}
  BY <1>1, <1>3
<1> QED BY <1>5, <1>6, <1>7

(* One frame's account.                                                    *)
LEMMA AgentNextInv == AgentInv /\ [AgentNext]_agentVars => AgentInv'
<1> SUFFICES ASSUME AgentInv, [AgentNext]_agentVars PROVE AgentInv'
  OBVIOUS
<1> USE AgentAssumption DEF Frames
<1>0. /\ frames \in 0..MaxFrames /\ channel \in Seq(1..frames)
      /\ Queued \subseteq 1..frames
  BY DEF AgentInv, ChannelOK, Queued
<1>1. CASE Arrive
  <2>1. frames' = frames + 1 /\ frames' \in 1..MaxFrames
    BY <1>0, <1>1 DEF Arrive
  <2>2. /\ atServer' = atServer /\ accepted' = accepted
    BY <1>1 DEF Arrive
  <2>3. /\ frames' \notin Queued /\ frames' \notin atServer /\ frames' \notin lost
        /\ accepted[frames'] = 0
    BY <1>0, <2>1 DEF AgentInv, FramesOK
  <2>4. CASE Len(channel) < QueueSize
    <3>1. channel' = Append(channel, frames') /\ lost' = lost
      BY <1>1, <2>1, <2>4 DEF Arrive
    <3>2. Queued' = Queued \cup {frames'}
      <4>1. frames \in Nat
        BY <1>0
      <4>2. {Append(channel, frames')[i] : i \in DOMAIN Append(channel, frames')}
              = {channel[i] : i \in DOMAIN channel} \cup {frames'}
        BY <1>0, <4>1, QueuedAfterAppend
      <4> QED BY <3>1, <4>2 DEF Queued
    <3>3. ChannelOK'
      <4>1. channel' \in Seq(1..frames')
        BY <1>0, <2>1, <3>1
      <4>2. ASSUME NEW i \in 1..Len(channel'), NEW j \in 1..Len(channel'),
                   channel'[i] = channel'[j]
            PROVE  i = j
        <5>1. Len(channel') = Len(channel) + 1
          BY <1>0, <3>1
        <5>2. \A k \in 1..Len(channel) : channel'[k] = channel[k] /\ channel[k] # frames'
          BY <1>0, <2>1, <3>1
        <5>3. channel'[Len(channel) + 1] = frames'
          BY <1>0, <3>1
        <5> QED BY <1>0, <4>2, <5>1, <5>2, <5>3 DEF AgentInv, ChannelOK
      <4> QED BY <2>1, <4>1, <4>2 DEF ChannelOK
    <3>4. FramesOK'
      BY <1>0, <2>1, <2>2, <3>1 DEF AgentInv, FramesOK
    <3>5. OneFate'
      BY <1>0, <2>1, <2>2, <2>3, <3>1, <3>2 DEF AgentInv, OneFate
    <3> QED BY <3>3, <3>4, <3>5 DEF AgentInv
  <2>5. CASE ~(Len(channel) < QueueSize)
    <3>1. channel' = channel /\ lost' = lost \cup {frames'}
      BY <1>1, <2>1, <2>5 DEF Arrive
    <3>2. Queued' = Queued
      BY <3>1 DEF Queued
    <3>3. ChannelOK'
      <4>1. channel' \in Seq(1..frames')
        BY <1>0, <2>1, <3>1
      <4> QED BY <2>1, <3>1, <4>1 DEF AgentInv, ChannelOK
    <3>4. FramesOK'
      BY <1>0, <2>1, <2>2, <3>1 DEF AgentInv, FramesOK
    <3>5. OneFate'
      BY <1>0, <2>1, <2>2, <2>3, <3>1, <3>2 DEF AgentInv, OneFate
    <3> QED BY <3>3, <3>4, <3>5 DEF AgentInv
  <2> QED BY <2>4, <2>5
<1>2. ASSUME NEW w \in Workers, Post(w) PROVE AgentInv'
  <2>1. channel # <<>> /\ channel' = Tail(channel) /\ frames' = frames
    BY <1>2 DEF Post
  <2>2. /\ Queued' = Queued \ {Head(channel)} /\ Head(channel) \in Queued
    <3>1. frames \in Nat /\ \A i, j \in 1..Len(channel) : channel[i] = channel[j] => i = j
      BY <1>0 DEF AgentInv, ChannelOK
    <3>2. /\ {Tail(channel)[i] : i \in DOMAIN Tail(channel)}
               = {channel[i] : i \in DOMAIN channel} \ {Head(channel)}
          /\ Head(channel) \in {channel[i] : i \in DOMAIN channel}
      BY <1>0, <2>1, <3>1, QueuedAfterTail
    <3> QED BY <2>1, <3>2 DEF Queued
  <2>3. ChannelOK'
    <3>1. channel' \in Seq(1..frames') /\ Len(channel') = Len(channel) - 1
      BY <1>0, <2>1
    <3>2. \A k \in 1..Len(channel') : channel'[k] = channel[k + 1]
      BY <1>0, <2>1
    <3>3. ASSUME NEW i \in 1..Len(channel'), NEW j \in 1..Len(channel'),
                 channel'[i] = channel'[j]
          PROVE  i = j
      <4>1. i + 1 \in 1..Len(channel) /\ j + 1 \in 1..Len(channel)
        BY <1>0, <3>1
      <4>2. channel[i + 1] = channel[j + 1]
        BY <3>2, <3>3
      <4>3. i + 1 = j + 1
        BY <4>1, <4>2 DEF AgentInv, ChannelOK
      <4> QED BY <1>0, <3>1, <4>3
    <3> QED BY <1>0, <2>1, <3>1, <3>3 DEF ChannelOK
  <2>4. /\ atServer' = atServer \cup {Head(channel)}
        /\ accepted' = accepted /\ lost' = lost
    BY <1>2 DEF Post
  <2>5. FramesOK'
    BY <1>0, <2>1, <2>2, <2>4 DEF AgentInv, FramesOK
  <2>6. OneFate'
    BY <2>1, <2>2, <2>4 DEF AgentInv, OneFate
  <2> QED BY <2>3, <2>5, <2>6 DEF AgentInv
<1>3. ASSUME NEW w \in Workers, PostEnds(w) PROVE AgentInv'
  <2>1. UNCHANGED <<frames, channel, atServer, accepted, lost>> /\ Queued' = Queued
    BY <1>3 DEF PostEnds, Queued
  <2>2. ChannelOK'
    BY <2>1 DEF AgentInv, ChannelOK
  <2>3. FramesOK' /\ OneFate'
    BY <2>1 DEF AgentInv, FramesOK, OneFate
  <2> QED BY <2>2, <2>3 DEF AgentInv
<1>4. ASSUME NEW f \in Frames, NEW taken \in BOOLEAN, Serve(f, taken) PROVE AgentInv'
  <2>1. /\ f \in 1..frames /\ frames' = frames /\ channel' = channel
        /\ atServer' = atServer \ {f} /\ Queued' = Queued /\ f \in atServer
    BY <1>4 DEF Serve, AgentInv, FramesOK, Queued
  <2>2. ChannelOK'
    BY <2>1 DEF AgentInv, ChannelOK
  <2>3. /\ accepted[f] = 0 /\ f \notin lost /\ f \notin Queued
    BY <1>0, <2>1 DEF AgentInv, FramesOK, OneFate
  <2>4. CASE taken
    <3>1. accepted' = [accepted EXCEPT ![f] = 1] /\ lost' = lost
      BY <1>4, <2>3, <2>4 DEF Serve, AgentInv, FramesOK
    <3>2. FramesOK'
      BY <1>0, <2>1, <3>1 DEF AgentInv, FramesOK
    <3>3. OneFate'
      BY <1>0, <2>1, <2>3, <3>1 DEF AgentInv, FramesOK, OneFate
    <3> QED BY <2>2, <3>2, <3>3 DEF AgentInv
  <2>5. CASE ~taken
    <3>1. accepted' = accepted /\ lost' = lost \cup {f}
      BY <1>4, <2>5 DEF Serve
    <3>2. FramesOK'
      BY <1>0, <2>1, <3>1 DEF AgentInv, FramesOK
    <3>3. OneFate'
      BY <1>0, <2>1, <2>3, <3>1 DEF AgentInv, FramesOK, OneFate
    <3> QED BY <2>2, <3>2, <3>3 DEF AgentInv
  <2> QED BY <2>4, <2>5
<1>5. CASE Exit
  <2>1. /\ channel' = <<>> /\ frames' = frames /\ lost' = lost \cup Queued
        /\ atServer' = atServer /\ accepted' = accepted
    BY <1>5 DEF Exit, Queued
  <2>2. Queued' = {}
    BY <2>1 DEF Queued
  <2>3. ChannelOK'
    BY <1>0, <2>1 DEF ChannelOK
  <2>4. FramesOK'
    BY <1>0, <2>1 DEF AgentInv, FramesOK
  <2>5. OneFate'
    BY <1>0, <2>1, <2>2 DEF AgentInv, FramesOK, OneFate
  <2> QED BY <2>3, <2>4, <2>5 DEF AgentInv
<1>6. CASE UNCHANGED agentVars
  <2>1. UNCHANGED <<frames, channel, atServer, accepted, lost>> /\ Queued' = Queued
    BY <1>6 DEF agentVars, Queued
  <2>2. ChannelOK'
    BY <2>1 DEF AgentInv, ChannelOK
  <2>3. FramesOK' /\ OneFate'
    BY <2>1 DEF AgentInv, FramesOK, OneFate
  <2> QED BY <2>2, <2>3 DEF AgentInv
<1> QED BY <1>1, <1>2, <1>3, <1>4, <1>5, <1>6 DEF AgentNext

(* A frame is taken once, lost, or on its way, whatever the server and the *)
(* client's timeouts do, and across the agent's exit.                      *)
THEOREM EachFrameOnce == AgentSpec => []FrameAccounting
<1>1. ASSUME OneFate, NEW f \in 1..frames
      PROVE  accepted[f] + (IF f \in lost THEN 1 ELSE 0) + (IF f \in atServer THEN 1 ELSE 0)
               + (IF f \in Queued THEN 1 ELSE 0) = 1
  BY <1>1 DEF OneFate
<1>2. AgentInv => FrameAccounting
  BY <1>1 DEF AgentInv, FrameAccounting
<1> QED BY <1>2, AgentInitInv, AgentNextInv, PTL DEF AgentSpec
=============================================================================
