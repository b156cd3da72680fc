------------------------------ MODULE AuditLog ------------------------------
(***************************************************************************)
(* The hash-chained audit log (JsonlAuditLog, src/src/ops/persistence.py): *)
(* one file, and the processes that have it open. A process reads the file *)
(* once, when it is built (build_runtime), and from then on chains every   *)
(* row to the last one in its own memory.                                  *)
(*                                                                         *)
(* append is one synchronous call, so that nothing of its process runs in  *)
(* the middle of it, but it may be cut: the process or the machine dies,   *)
(* or a write, flush or fsync raises and the caller goes on (order_router, *)
(* kill_switch and the cockpit all do). Whatever was cut, the file may     *)
(* have nothing of the row, a piece of it, all of it without its newline,  *)
(* or all of it. A second process on the same directory is one script      *)
(* started twice: run_paper.py appends its boot row before it finds the    *)
(* port taken. Hashes do not collide, so that a row's hash is the row.     *)
(***************************************************************************)
EXTENDS Naturals, Sequences

CONSTANTS
    Processes,   \* those that build a JsonlAuditLog for the file
    MaxRows,     \* bound of the model: appends that are tried
    Genesis,     \* GENESIS
    Piece,       \* a part of a row's JSON, which does not parse
    Refused      \* _load raises

ASSUME AuditAssumption == MaxRows \in Nat

VARIABLES
    file,        \* its lines, each the sequence of what was written to it
    ended,       \* the last line ends with a newline
    open,        \* the processes that have loaded the file and run
    rows,        \* _rows, per process
    tried,       \* appends so far; a row's ts and content make it unlike others
    acked,       \* ghost: rows whose append returned, in that order
    calm         \* ghost: no append was cut, no two processes ran at once

auditVars == <<file, ended, open, rows, tried, acked, calm>>

\* A row is its number, in the order of trying, and its prev_hash: the number of
\* the row it was chained to, which is as good as its hash.
Ids == {Genesis} \union 1 .. MaxRows
Rows == [id : 1 .. MaxRows, prev : Ids]

\* GENESIS is the hash of no row, a piece is not a row, an error not a log.
ASSUME UnlikeRows ==
    Genesis \notin 1 .. MaxRows /\ Piece \notin Rows /\ Refused \notin Seq(Rows)

LastId(s) == IF s = <<>> THEN Genesis ELSE s[Len(s)].id

------------------------------------------------------------------------------
(* Reading.                                                                 *)

\* One line, one row.
Parses(line) == Len(line) = 1 /\ line[1] # Piece

\* The rows of a file whose lines all parse.
RowsOf(f) == [i \in 1 .. Len(f) |-> f[i][1]]

Chained(s) == \A i \in 1 .. Len(s) : s[i].prev = LastId(SubSeq(s, 1, i - 1))

\* _load. (LoadedSkipping: a line that does not parse is passed over like an
\* empty one.)
LoadedSkipping(f) ==
    LET s == RowsOf(SelectSeq(f, Parses)) IN IF Chained(s) THEN s ELSE Refused
Loaded(f) ==
    IF (\A i \in 1 .. Len(f) : Parses(f[i])) /\ Chained(RowsOf(f))
    THEN RowsOf(f)
    ELSE Refused

------------------------------------------------------------------------------
AuditInit ==
    /\ file = <<>> /\ ended = TRUE
    /\ open = {}
    /\ rows = [p \in Processes |-> <<>>]
    /\ tried = 0
    /\ acked = <<>>
    /\ calm = TRUE

\* The file with something more at its end.
Extended(what) ==
    IF ended THEN Append(file, <<what>>)
    ELSE [file EXCEPT ![Len(file)] = Append(@, what)]

\* build_runtime: an existing file is read, and refused if it is damaged.
Build(p) ==
    /\ p \notin open
    /\ Loaded(file) # Refused
    /\ open' = open \union {p}
    /\ rows' = [rows EXCEPT ![p] = Loaded(file)]
    /\ calm' = (calm /\ open = {})
    /\ UNCHANGED <<file, ended, tried, acked>>

\* The row append makes.
NewRow(p) == [id |-> tried + 1, prev |-> LastId(rows[p])]

Trying(p) ==
    /\ p \in open
    /\ tried < MaxRows
    /\ tried' = tried + 1

\* append, to its return.
Remembers(p) == [rows EXCEPT ![p] = Append(@, NewRow(p))]

AppendRow(p) ==
    /\ Trying(p)
    /\ file' = Extended(NewRow(p))
    /\ ended' = TRUE
    /\ rows' = Remembers(p)
    /\ acked' = Append(acked, NewRow(p))
    /\ UNCHANGED <<open, calm>>

\* append, cut before it returned: what the file has of it.
Cut(p) ==
    /\ Trying(p)
    /\ \/ UNCHANGED <<file, ended>>
       \/ file' = Extended(Piece) /\ ended' = FALSE
       \/ file' = Extended(NewRow(p)) /\ ended' \in BOOLEAN
    /\ calm' = FALSE
    /\ UNCHANGED <<rows, acked>>

\* It raises, and its process goes on ...
AppendRaises(p) == Cut(p) /\ UNCHANGED open

\* ... or dies there.
DieWriting(p) == Cut(p) /\ open' = open \ {p}

Die(p) ==
    /\ p \in open
    /\ open' = open \ {p}
    /\ UNCHANGED <<file, ended, rows, tried, acked, calm>>

AuditNext ==
    \E p \in Processes :
        Build(p) \/ AppendRow(p) \/ AppendRaises(p) \/ DieWriting(p) \/ Die(p)

AuditSpec == AuditInit /\ [][AuditNext]_auditVars

------------------------------------------------------------------------------
\* The variables have their types: every line is made of rows and pieces.
AuditTypeOK ==
    /\ file \in Seq(Seq(Rows \union {Piece})) /\ ended \in BOOLEAN
    /\ open \subseteq Processes
    /\ rows \in [Processes -> Seq(Rows)]
    /\ tried \in 0 .. MaxRows
    /\ acked \in Seq(Rows)
    /\ calm \in BOOLEAN

\* Every acknowledged row is in what _load returns, in order, if it returns at
\* all (persistence.py:4-6): cut appends, restarts and second writers included.
\* What a running process shows as the log (rows, persistence.py:69-71) is the
\* beginning of it. One process after another whose appends are never cut leave a
\* file that loads and has just the acknowledged rows.
NothingSilentlyLost ==
    /\ Loaded(file) # Refused =>
        /\ \E at \in [1 .. Len(acked) -> 1 .. Len(Loaded(file))] :
            /\ \A i \in 1 .. Len(acked) : Loaded(file)[at[i]] = acked[i]
            /\ \A i, j \in 1 .. Len(acked) : i < j => at[i] < at[j]
        /\ \A p \in open :
            /\ Len(rows[p]) <= Len(Loaded(file))
            /\ rows[p] = SubSeq(Loaded(file), 1, Len(rows[p]))
    /\ calm => Loaded(file) = acked

\* The log's promise: see DurableLog.
Log == INSTANCE DurableLog WITH readable <- Loaded(file)
LogSpec == Log!Spec

\* persistence.py:3-5: backends "that survive restarts", "a crash cannot lose an
\* acknowledged row": a process that starts again gets the acknowledged rows. The
\* code does not keep it: see the README, Divergences.
SurvivesRestart == acked # <<>> => Loaded(file) # Refused
=============================================================================
