------------------------------- MODULE Tailer -------------------------------
(***************************************************************************)
(* The tail of Slack's log and the scanners of its lines                   *)
(* (internal/tailer, internal/notifylog). The log is written line by line, *)
(* a line perhaps in two goes; it may be moved aside or cut to nothing at  *)
(* any time. The tailer reads the file it has open to its end before it    *)
(* looks whether it is still the log.                                      *)
(*                                                                         *)
(* A notification is a block of lines: a header, which is a log entry, the *)
(* fields, a brace. Other entries may come between them, and some of those *)
(* say that the owner has read a message.                                  *)
(***************************************************************************)
EXTENDS Integers, SequencesExt

CONSTANTS
    Logged,     \* the messages Slack notifies of
    None,
    MaxLines,   \* bound: lines written
    MaxUpsets   \* bound: entries, torn lines, blocks broken off, rotations and
                \* cuts, messages that are not admitted, crashes

ASSUME TailerAssumption ==
    /\ None \notin Logged
    /\ {MaxLines, MaxUpsets} \subseteq Nat

VARIABLES
    files,    \* the files that have been the log; the last one is
    block,    \* what Slack has still to write of a block
    tail,     \* the tailer: its file, offset, and the partial line
    scan,     \* the Scanner: collecting, lines
    heard,    \* the messages that were admitted
    lost,     \* history: has the log been cut, a message not admitted, or has
              \* the daemon died?
    written, upsets

bounds == <<written, upsets>>
tailVars == <<files, block, tail, scan, heard, lost, bounds>>

Nothing == [kind |-> "none", of |-> None]
Header == [kind |-> "header", of |-> None]
Fields(m) == [kind |-> "fields", of |-> m]
Brace == [kind |-> "brace", of |-> None]
\* of: the message the owner has read, None in any other entry.
Entry(m) == [kind |-> "entry", of |-> m]
\* What is left of a line without its beginning, or with that of another one.
Splinter == [kind |-> "splinter", of |-> None]

Log == Len(files)
EmptyFile == [lines |-> <<>>, torn |-> FALSE]

\* Offsets are counted in halves of lines: of a torn one the first is there.
Size(f) == 2 * Len(f.lines) - IF f.torn THEN 1 ELSE 0

\* at: the offset. held: the line whose first half is in partial. astray: the
\* file was cut, and the offset need not be between two halves of its lines.
Opened(n, at) == [pc |-> "read", file |-> n, at |-> at, held |-> Nothing, astray |-> FALSE]
NewScanner == [collecting |-> FALSE, lines |-> <<>>]

TailInit ==
    /\ files = <<EmptyFile>> /\ block = <<>>
    /\ tail = Opened(1, 0) /\ scan = NewScanner
    /\ heard = {} /\ lost = FALSE /\ written = 0 /\ upsets = 0

Upset == upsets < MaxUpsets /\ upsets' = upsets + 1

-----------------------------------------------------------------------------
(* Slack *)

Adds(line, torn) ==
    /\ ~files[Log].torn /\ written < MaxLines
    /\ files' = [files EXCEPT ![Log] = [lines |-> Append(@.lines, line), torn |-> torn]]
    /\ written' = written + 1

BeginBlock(m, torn) == Adds(Header, torn) /\ block' = <<Fields(m), Brace>>

\* A block about a message, or the next line of the one begun.
WriteBlock ==
    /\ \E torn \in BOOLEAN :
          /\ IF torn THEN Upset ELSE UNCHANGED upsets
          /\ \/ /\ block # <<>>
                /\ Adds(Head(block), torn) /\ block' = Tail(block)
             \/ block = <<>> /\ \E m \in Logged : BeginBlock(m, torn)
    /\ UNCHANGED <<tail, scan, heard, lost>>

\* The rest of a block is never written: the header of another one follows.
BreakOff ==
    /\ Upset /\ block # <<>>
    /\ \E m \in Logged, torn \in BOOLEAN : BeginBlock(m, torn)
    /\ UNCHANGED <<tail, scan, heard, lost>>

\* Another entry, in the middle of a block as well.
WriteEntry ==
    /\ Upset
    /\ \E m \in Logged \cup {None}, torn \in BOOLEAN : Adds(Entry(m), torn)
    /\ UNCHANGED <<block, tail, scan, heard, lost>>

FinishLine ==
    /\ files[Log].torn
    /\ files' = [files EXCEPT ![Log].torn = FALSE]
    /\ UNCHANGED <<block, tail, scan, heard, lost, bounds>>

\* The log is moved aside, what there is of a torn line with it.
Rotate ==
    /\ Upset /\ files[Log].lines # <<>>
    /\ files' = Append(files, EmptyFile)
    /\ UNCHANGED <<block, tail, scan, heard, lost, written>>

\* The log is cut to nothing, and may grow before the tailer looks.
Cut ==
    /\ Upset /\ files[Log].lines # <<>>
    /\ files' = [files EXCEPT ![Log] = EmptyFile]
    /\ tail' = IF tail.file = Log /\ tail.at > 0 THEN [tail EXCEPT !.astray = TRUE] ELSE tail
    /\ lost' = TRUE
    /\ UNCHANGED <<block, scan, heard, written>>

-----------------------------------------------------------------------------
(* Scanner.Feed and LastReadScanner.Feed *)

IsLogEntry(line) == line.kind \in {"header", "entry"}

StartIfHeader(line) == [NewScanner EXCEPT !.collecting = line.kind = "header"]

\* Mutant: the entry that breaks a block off is not looked at.
FeedBreaksOff(line) ==
    CASE ~scan.collecting -> StartIfHeader(line)
      [] scan.collecting /\ (IsLogEntry(line) \/ line.kind = "brace") -> NewScanner
      [] OTHER -> [scan EXCEPT !.lines = Append(@, line)]

Feed(line) ==
    CASE ~scan.collecting \/ IsLogEntry(line) -> StartIfHeader(line)
      [] scan.collecting /\ line.kind = "brace" -> NewScanner
      [] OTHER -> [scan EXCEPT !.lines = Append(@, line)]

\* A block decodes when it is all fields of one notification.
Banner(line) ==
    {m \in Logged : scan.collecting /\ line.kind = "brace" /\ scan.lines = <<Fields(m)>>}

\* The owner's own read marker, unless it is too old.
LastRead(line) ==
    LET m == IF line.kind = "entry" THEN {line.of} \cap Logged ELSE {} IN {{}, m}

-----------------------------------------------------------------------------
(* Tailer.Run *)

Mine == files[tail.file]

\* The lines of the file that are read, with the newline, and those begun.
Begun == (tail.at + 1) \div 2 + IF tail.at % 2 = 0 THEN 1 ELSE 0
Whole == Len(Mine.lines) - IF Mine.torn THEN 1 ELSE 0

\* partial and the rest of the line that the offset is in.
Joined ==
    LET line == Mine.lines[Begun] IN
    IF tail.held = (IF tail.at % 2 = 0 THEN Nothing ELSE line) THEN line ELSE Splinter

\* The next line, when its newline is there. A line without its beginning may still
\* hold what a scanner looks for.
Chunks ==
    IF Begun > Whole THEN {} ELSE {Joined} \cup IF tail.astray THEN {Splinter} ELSE {}

\* The callback hands over what the line notifies of; when the inbox is not
\* written it takes no notice.
ReadLine ==
    /\ tail.pc = "read"
    /\ \E line \in Chunks :
          /\ \E marked \in LastRead(line), ok \in BOOLEAN :
                LET found == Banner(line) \cup marked IN
                IF ok THEN heard' = heard \cup found /\ UNCHANGED <<lost, upsets>>
                ELSE found # {} /\ Upset /\ lost' = TRUE /\ UNCHANGED heard
          /\ scan' = Feed(line)
    /\ tail' = [tail EXCEPT !.at = 2 * Begun, !.held = Nothing, !.astray = FALSE]
    /\ UNCHANGED <<files, block, written>>

\* No newline: what there is of a torn line is added to partial.
ReadToEnd ==
    /\ tail.pc = "read" /\ Begun > Whole
    /\ tail' = IF Size(Mine) > tail.at
               THEN [tail EXCEPT !.pc = "look", !.at = Size(Mine),
                                 !.held = IF tail.at % 2 = 0 /\ @ = Nothing
                                          THEN Last(Mine.lines) ELSE Splinter]
               ELSE [tail EXCEPT !.pc = "look"]
    /\ UNCHANGED <<files, block, scan, heard, lost, bounds>>

Rotated == tail.file # Log \/ Size(files[Log]) < tail.at

\* Mutant: the half line of the old file stays in partial.
LookKeeping ==
    /\ tail.pc = "look"
    /\ tail' = IF Rotated THEN [Opened(Log, 0) EXCEPT !.held = tail.held]
               ELSE [tail EXCEPT !.pc = "read"]
    /\ UNCHANGED <<files, block, scan, heard, lost, bounds>>

\* What came into the old file since it was read to its end is lost; what the
\* scanner has collected is not reset.
Look ==
    /\ tail.pc = "look"
    /\ tail' = IF Rotated THEN Opened(Log, 0) ELSE [tail EXCEPT !.pc = "read"]
    /\ UNCHANGED <<files, block, scan, heard, lost, bounds>>

\* The daemon dies, or Run ends with an error and the daemon with it; the next one
\* begins at the end of the log.
Restart ==
    /\ Upset
    /\ tail' = Opened(Log, Size(files[Log])) /\ scan' = NewScanner
    /\ lost' = TRUE
    /\ UNCHANGED <<files, block, heard, written>>

Run == ReadLine \/ ReadToEnd \/ Look

TailNext == WriteBlock \/ BreakOff \/ WriteEntry \/ FinishLine \/ Rotate \/ Cut \/ Run \/ Restart

TailSpec == TailInit /\ [][TailNext]_tailVars

\* Fairness: Run looks at its file again and again.
FairTailSpec == TailSpec /\ WF_tailVars(Run)

-----------------------------------------------------------------------------
(* Properties *)

\* The types of the variables; partial is of the line the offset is in. (Not among
\* the properties of the run.)
TailTypeOK ==
    /\ tail.pc \in {"read", "look"} /\ tail.file \in 1..Log /\ tail.at \in Nat
    /\ tail.held # Nothing => tail.at % 2 = 1
    /\ scan.collecting \in BOOLEAN /\ heard \subseteq Logged /\ lost \in BOOLEAN
    /\ written \in 0..MaxLines /\ upsets \in 0..MaxUpsets

\* The whole block of m is in what the tailer has yet to read of its file, but for
\* the first half of its header perhaps.
Unread(m) ==
    /\ tail.pc = "read"
    /\ \E i \in Begun..(Whole - 2) :
          SubSeq(Mine.lines, i, i + 2) = <<Header, Fields(m), Brace>>

\* A notification that Slack wrote is admitted: in lines that came in two goes,
\* after a block that was broken off, out of a log that is moved aside while it is
\* read. Unless the log was cut, the inbox not written, or the daemon died.
LoggedIsAdmitted == \A m \in Logged : Unread(m) ~> m \in heard \/ lost
=============================================================================
