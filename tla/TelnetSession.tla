---------------------------- MODULE TelnetSession ----------------------------
(***************************************************************************)
(* One session of the telnet server (telnet/server): option negotiation,   *)
(* login, and a line editor with a history.  Sessions share no state, so   *)
(* one stands for all.  The session always has one asynchronous operation  *)
(* under way, a write of start() or a read; an action is one completion    *)
(* handler.  An Input is what one read delivers: the options of the DO     *)
(* commands in it, one key, or bytes the code passes over (several keys at *)
(* once, a lone escape, a line end other than CR NUL).  What is sent is    *)
(* carried out by the client's terminal.                                   *)
(***************************************************************************)
EXTENDS Integers, Sequences, FiniteSets, SequencesExt

CONSTANTS
    Char,        \* printable characters
    User,        \* the user name authorize() knows
    Pass,        \* its password
    MaxHistory,  \* MAX_HISTORY_LEGTH, 80 in the code
    Home,        \* cells that HOME moves the cursor to the left, 80 in the code
    SizeMod,     \* values of std::size_t, 2^64
    Widths,      \* cells in a row of the terminals
    MaxLine      \* bound: characters typed into one line

Line == BoundedSeq(Char, MaxLine)
Option == {"Echo", "SuppressGoAhead"}

\* A cell of a row: blank, a character, the echo of a password, or a prompt,
\* which is one cell here.
Cell == Char \cup {"blank", "star", "username", "password"}
Terminal == UNION {[width : {w}, row : BoundedSeq(Cell, w), col : 0 .. w] : w \in Widths}

ASSUME TelnetAssumption ==
    /\ User \in Line /\ Pass \in Line /\ User # <<>>
    /\ MaxHistory \in Nat \ {0} /\ Home \in Nat \ {0} /\ MaxLine \in Nat
    /\ SizeMod \in Nat /\ MaxLine < SizeMod
    /\ Widths \subseteq Nat \ {0}

VARIABLES
    op,          \* "none", the write under way in start(), "read", "lost", "stopped"
    state,       \* _state
    toConfirm,   \* _optionsToConfirm
    username, password,
    buffer,      \* _buffer
    lines,       \* _history
    historyPos,  \* _historyPos, counted from 0
    terminal,    \* the row of the cursor: its width, its cells and the number of
                 \* cells before the cursor; a send that fails is logged and
                 \* ignored: nobody sees that terminal
    pastHome     \* history of the cursor, for ScreenShowsBuffer alone: it has been
                 \* more than Home cells from the left while a line was edited

loginVars == <<username, password>>
historyVars == <<lines, historyPos>>
screenVars == <<terminal, pastHome>>
vars == <<op, state, toConfirm, loginVars, buffer, historyVars, screenVars>>

(***************************************************************************)
(* The client's terminal, as ECMA-48 and the VT100 do it: a character      *)
(* behind the last cell of a row begins the next row, which is empty; with *)
(* a full row the cursor waits in its last cell.                           *)
(***************************************************************************)
Cursor(t) == IF t.col < t.width THEN t.col ELSE t.width - 1

\* The characters of s, one after the other.
Display(t, s) ==
    LET end == t.col + Len(s)
        last == ((end - 1) % t.width) + 1
    IN  IF end <= t.width
        THEN [t EXCEPT !.col = end,
                       !.row = [i \in 1 .. (IF end < Len(t.row) THEN Len(t.row) ELSE end) |->
                                  IF i > t.col /\ i <= end THEN s[i - t.col]
                                  ELSE IF i <= Len(t.row) THEN t.row[i] ELSE "blank"]]
        ELSE [t EXCEPT !.col = last, !.row = SubSeq(s, Len(s) - last + 1, Len(s))]

\* CR LF.
NewRow(t) == [t EXCEPT !.col = 0, !.row = <<>>]

\* ESC [2K: the cursor stays where it is.
EraseRow(t) == [t EXCEPT !.row = <<>>]

\* ESC [nD: not beyond the first cell.
CursorLeft(t, n) == [t EXCEPT !.col = IF Cursor(t) > n THEN Cursor(t) - n ELSE 0]

SendEraseLine_EraseOnly(t) == EraseRow(t)

SendEraseLine(t) == CursorLeft(EraseRow(t), Home)

(***************************************************************************)
(* Accepting and negotiating.                                              *)
(***************************************************************************)
\* acceptConnection's handler and the first write of start().
Accept ==
    /\ op = "none"
    /\ op' = "willEcho"
    /\ toConfirm' = Option
    /\ UNCHANGED <<state, loginVars, buffer, historyVars, screenVars>>

\* The handlers of start(): each write begins the next, the last the reading.
Written ==
    /\ \/ op = "willEcho" /\ op' = "dontEcho"
       \/ op = "dontEcho" /\ op' = "willSuppressGoAhead"
       \/ op = "willSuppressGoAhead" /\ op' = "read"
    /\ UNCHANGED <<state, toConfirm, loginVars, buffer, historyVars, screenVars>>

\* A write of start() or a read fails: nothing follows, the session stays.
Lost ==
    /\ op \notin {"none", "lost", "stopped"}
    /\ op' = "lost"
    /\ UNCHANGED <<state, toConfirm, loginVars, buffer, historyVars, screenVars>>

\* A signal: shutdown() stops the io_context.
Shutdown ==
    /\ op # "stopped"
    /\ op' = "stopped"
    /\ UNCHANGED <<state, toConfirm, loginVars, buffer, historyVars, screenVars>>

StartAuthentication(t) ==
    /\ buffer' = <<>> /\ username' = <<>> /\ password' = <<>>
    /\ state' = "Authentication"
    /\ terminal' = Display(t, <<"username">>)

\* A read in state Negotiation; opts are the options it holds a DO for.
Negotiate(opts) ==
    /\ op = "read" /\ state = "Negotiation"
    /\ toConfirm' = toConfirm \ opts
    /\ \/ toConfirm' = {} /\ StartAuthentication(terminal)
       \/ toConfirm' # {} /\ UNCHANGED <<state, loginVars, buffer, terminal>>
    /\ UNCHANGED <<op, historyVars, pastHome>>

(***************************************************************************)
(* Logging in.                                                             *)
(***************************************************************************)
AuthKey(ch) ==
    /\ op = "read" /\ state = "Authentication"
    /\ Len(buffer) < MaxLine
    /\ buffer' = Append(buffer, ch)
    /\ terminal' = Display(terminal, <<"star">>)
    /\ UNCHANGED <<op, state, toConfirm, loginVars, historyVars, pastHome>>

Authorize_NameOnly(name, word) == name = User

Authorize(name, word) == name = User /\ word = Pass

\* CR NUL: an empty user name is asked for again, under the prompt "Password:".
AuthEnter ==
    /\ op = "read" /\ state = "Authentication"
    /\ \/ /\ username = <<>>
          /\ username' = buffer /\ buffer' = <<>>
          /\ terminal' = Display(NewRow(terminal), <<"password">>)
          /\ UNCHANGED <<state, password>>
       \/ /\ username # <<>> /\ Authorize(username, buffer)
          /\ password' = buffer /\ buffer' = <<>>
          /\ state' = "Interaction" /\ terminal' = NewRow(terminal)
          /\ UNCHANGED username
       \/ username # <<>> /\ ~Authorize(username, buffer) /\ StartAuthentication(NewRow(terminal))
    /\ UNCHANGED <<op, toConfirm, historyVars, pastHome>>

(***************************************************************************)
(* Editing.                                                                *)
(***************************************************************************)
\* The history variable follows the cursor.
Noted == pastHome' = (pastHome \/ Cursor(terminal') > Home)

Key(ch) ==
    /\ op = "read" /\ state = "Interaction"
    /\ Len(buffer) < MaxLine
    /\ buffer' = Append(buffer, ch)
    /\ terminal' = Display(terminal, <<ch>>) /\ Noted
    /\ UNCHANGED <<op, state, toConfirm, loginVars, historyVars>>

\* sendEraseLine and sendLine(_buffer), with the new buffer b.
Redraw(b) ==
    /\ buffer' = b
    /\ terminal' = Display(SendEraseLine(terminal), b) /\ Noted

\* substr(0, n).
Prefix(b, n) == SubSeq(b, 1, IF n < Len(b) THEN n ELSE Len(b))

\* With an empty buffer length() - 1 is the largest size.
BackSpace ==
    /\ op = "read" /\ state = "Interaction"
    /\ Redraw(Prefix(buffer, (Len(buffer) - 1) % SizeMod))
    /\ UNCHANGED <<op, state, toConfirm, loginVars, historyVars>>

AddToHistory_Grow(line) ==
    /\ lines' = IF Contains(lines, line) THEN lines ELSE Append(lines, line)
    /\ historyPos' = (CHOOSE i \in DOMAIN lines' : lines'[i] = line) - 1

AddToHistory_PosKept(line) ==
    IF Contains(lines, line) THEN UNCHANGED historyVars
    ELSE /\ lines' = IF Len(lines) = MaxHistory THEN Append(Tail(lines), line) ELSE Append(lines, line)
         /\ historyPos' = Len(lines') - 1

AddToHistory_PosAtEnd(line) ==
    /\ lines' = CASE Contains(lines, line)    -> lines
                 [] Len(lines) = MaxHistory -> Append(Tail(lines), line)
                 [] OTHER                   -> Append(lines, line)
    /\ historyPos' = Len(lines')

\* addToHistory: a known line is found again, a new one pushes out the oldest.
AddToHistory(line) ==
    \/ /\ Contains(lines, line)
       /\ historyPos' = (CHOOSE i \in DOMAIN lines : lines[i] = line) - 1
       /\ UNCHANGED lines
    \/ /\ ~Contains(lines, line)
       /\ lines' = IF Len(lines) = MaxHistory THEN Append(Tail(lines), line) ELSE Append(lines, line)
       /\ historyPos' = Len(lines') - 1

\* CR NUL: the line is handed to _lineCompleteCB and remembered.
Enter ==
    /\ op = "read" /\ state = "Interaction"
    /\ AddToHistory(buffer)
    /\ Redraw(<<>>)
    /\ UNCHANGED <<op, state, toConfirm, loginVars>>

DownFrom(p) == IF p # Len(lines) - 1 THEN p + 1 ELSE 0
UpFrom(p) == IF p # 0 THEN p - 1 ELSE Len(lines) - 1

\* processEscapeSequence: with one remembered line the keys do nothing.
Arrow ==
    /\ op = "read" /\ state = "Interaction"
    /\ Len(lines) > 1
    /\ historyPos' \in {DownFrom(historyPos), UpFrom(historyPos)}
    /\ Redraw(lines[historyPos' + 1])
    /\ UNCHANGED <<op, state, toConfirm, loginVars, lines>>

Init ==
    /\ op = "none"
    /\ state = "Negotiation"
    /\ toConfirm = {}
    /\ username = <<>> /\ password = <<>> /\ buffer = <<>>
    /\ lines = <<>> /\ historyPos = 0
    /\ \E w \in Widths : terminal = [width |-> w, row |-> <<>>, col |-> 0]
    /\ pastHome = FALSE

\* A read that no state gives a meaning to leaves everything as it is.
Next ==
    \/ Accept \/ Written \/ Lost \/ Shutdown
    \/ \E opts \in SUBSET Option : Negotiate(opts)
    \/ AuthEnter \/ BackSpace \/ Enter \/ Arrow
    \/ \E ch \in Char : AuthKey(ch) \/ Key(ch)

Spec == Init /\ [][Next]_vars

(***************************************************************************)
(* Properties.                                                             *)
(***************************************************************************)
\* Type correctness; the history never outgrows MAX_HISTORY_LEGTH.
TypeOK ==
    /\ op \in {"none", "willEcho", "dontEcho", "willSuppressGoAhead", "read", "lost", "stopped"}
    /\ state \in {"Negotiation", "Authentication", "Interaction"}
    /\ toConfirm \subseteq Option
    /\ {username, password, buffer} \subseteq Line
    /\ lines \in BoundedSeq(Line, MaxHistory)
    /\ historyPos \in Nat
    /\ terminal \in Terminal
    /\ pastHome \in BOOLEAN

\* A session that takes command lines, or has taken one, has negotiated and
\* logged in with the known name and its password, however often it failed
\* before (telnet_session.cpp:140-160, 284-303).
OnlyLoggedIn ==
    state = "Interaction" \/ lines # <<>> =>
        toConfirm = {} /\ username = User /\ password = Pass

\* _history[_historyPos] is an element of _history whenever there is one: the
\* erase of the oldest line, a line entered again and the arrow keys that wrap
\* at both ends keep the position inside (telnet_session.cpp:266-282, 328-364).
HistoryPosInside == lines # <<>> => historyPos < Len(lines)

\* What a row of w cells shows of a line that begins in its first cell: the line,
\* or what is left of it for the last row it reaches.
InRow(w, b) ==
    IF b = <<>> THEN <<>>
    ELSE SubSeq(b, Len(b) - ((Len(b) - 1) % w), Len(b))

\* The cursor's row shows the line that Enter would hand to the callback, to its
\* end, with the cursor right behind it: echo, erase, HOME and redraw keep step
\* with _buffer (telnet_session.cpp:166-220, 305-311).  HOME moves the cursor 80
\* cells: on a wider terminal a line longer than that leaves what follows it
\* displaced, and is excepted.
ScreenShowsBuffer ==
    state = "Interaction" /\ (terminal.width <= Home + 1 \/ ~pastHome) =>
        /\ terminal.row = InRow(terminal.width, buffer)
        /\ terminal.col = Len(terminal.row)

\* Entering a line puts the history position on that line, new or known.
EnteredIsCurrent ==
    [][Enter => lines'[historyPos' + 1] = buffer]_vars

=============================================================================
