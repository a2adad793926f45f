------------------------------ MODULE CallLog ------------------------------
(***************************************************************************)
(* src/src/call_log.rs and the Recents list of src/src/window.rs: the call *)
(* log in memory, calls.log on disk and the rows on the screen.  The list  *)
(* starts with what the program's start finds in the file.                 *)
(*                                                                         *)
(* A caller is a sequence of tokens, as glue.c 918-925 composes it:        *)
(* "name <user@host>", "user@host", or the number the user dialled.        *)
(***************************************************************************)
EXTENDS Subsequence, SequencesExt

CONSTANTS
    Raws,        \* the callers: sequences of Token
    MaxRecords,  \* 500: what the log keeps
    MaxCalls,    \* bound: calls that are logged
    Fault        \* what may go wrong: see Faults

Token == {"name", "<", "user", "@host", ">", "|"}
Faults == {"crash",  \* the program dies, also in the middle of a write
           "full"}   \* a file cannot be opened, or its write comes to an end

ASSUME CallLogAssumption ==
    /\ Raws \subseteq Seq(Token) /\ Fault \subseteq Faults
    \* callable slices up to the first ">", which must not come before the "<"
    /\ \A raw \in Raws : \A i, j \in DOMAIN raw : raw[i] = "<" /\ raw[j] = ">" => i < j
    /\ MaxRecords \in Nat \ {0} /\ MaxCalls \in Nat

VARIABLES
    records,     \* CallLog.records, newest first
    calls_log,   \* the lines of calls.log
    recents,     \* the rows of call_list_box, from the top
    calls,       \* started_at of the last call: calls are numbered
    logged       \* the last save changed the file

logVars == <<records, calls_log, recents, calls, logged>>

-----------------------------------------------------------------------------
Before(raw, token) == SubSeq(raw, 1, SelectInSeq(raw, LAMBDA t : t = token) - 1)
After(raw, token) == SubSeq(raw, SelectInSeq(raw, LAMBDA t : t = token) + 1, Len(raw))

CutAt(raw, token) == IF Contains(raw, token) THEN Before(raw, token) ELSE raw

\* The name before the bracket, else the user's part of the address, which ends at
\* the last closing bracket.
display_name(raw) ==
    LET name == Before(raw, "<")
        rest == After(raw, "<")
        close == SelectLastInSeq(rest, LAMBDA t : t = ">")
        inner == IF close = 0 THEN rest ELSE SubSeq(rest, 1, close - 1) IN
    IF ~Contains(raw, "<") THEN CutAt(raw, "@host")
    ELSE IF name # <<>> THEN name ELSE CutAt(inner, "@host")

callable(raw) ==
    IF Contains(raw, "<") /\ Contains(raw, ">") THEN Before(After(raw, "<"), ">") ELSE raw

\* make_call_row: what a row shows and whom it dials.
Row(r) == [at |-> r.started_at, title |-> display_name(r.number), dials |-> callable(r.number)]
Rows(log) == [i \in DOMAIN log |-> Row(log[i])]

\* A line is split at its first four bars: one in the caller's name leaves the
\* duration unreadable, and parse_file skips the line.
Readable(r) == ~Contains(r.number, "|")
parse_file(lines) == Where(lines, Readable)

Prefix(s, n) == SubSeq(s, 1, IF n < Len(s) THEN n ELSE Len(s))

\* Mutant of Lines: the file is in the order of the calls.
LinesOldestFirst(log) == Reverse(log)

\* save writes records as they are, the newest first.
Lines(log) == log

\* What save leaves of the log: the whole file, the old one if it cannot be opened,
\* or its head if the disk is full.  A line that is cut off before its duration is
\* skipped by parse_file, as if it were not there.
Saved(log, file) ==
    {Lines(log)} \cup (IF "full" \in Fault
                       THEN {file} \cup {Prefix(Lines(log), n) : n \in 0 .. Len(log)}
                       ELSE {})

Pushed(r) == Prefix(<<r>> \o records, MaxRecords)
NewRecord == {[started_at |-> calls + 1, number |-> raw] : raw \in Raws}

LogInit ==
    /\ records = <<>> /\ calls_log = <<>> /\ recents = <<>> /\ calls = 0 /\ logged = TRUE

\* finalize_pending_call: the row, then CallLog::push.
CallLogged ==
    /\ calls < MaxCalls
    /\ \E r \in NewRecord :
        /\ recents' = <<Row(r)>> \o recents
        /\ records' = Pushed(r)
        /\ calls_log' \in Saved(records', calls_log)
        /\ logged' = (calls_log' # calls_log)
    /\ calls' = calls + 1

\* CallLog::load and the rows appended for its records.
LogLoaded(file) ==
    /\ calls_log' = file
    /\ records' = parse_file(file)
    /\ recents' = Rows(parse_file(file))

\* The program dies while save writes, and is started again.
CrashInSave ==
    /\ "crash" \in Fault /\ calls < MaxCalls
    /\ \E r \in NewRecord, n \in 0 .. MaxRecords : LogLoaded(Prefix(Lines(Pushed(r)), n))
    /\ calls' = calls + 1 /\ logged' = TRUE

\* It ends in another way, and is started again.
LogRestarts == LogLoaded(calls_log) /\ logged' = TRUE /\ UNCHANGED calls
=============================================================================
