----------------------------- MODULE CdcConsole -----------------------------
(***************************************************************************)
(* A serial port and the application behind it: the CDC-ACM interfaces     *)
(* (usbip/classes/device/cdc_acm.py, CDCComm.on_control, CDCData.on_out)   *)
(* and the console of examples/cdc_hid_device.py (build_device), which     *)
(* echoes what is typed, collects lines of bounded length over bulk OUT    *)
(* packets of any size and taps a consumer key for each word of a line.    *)
(* The callbacks run on the serve thread, one transfer at a time.          *)
(*                                                                         *)
(* Abstracted: a character is a key of the console's vocabulary, an unknown*)
(* word, a space or an end of line, every key being one character long; a  *)
(* line coding is a value; what is written to the port is the echo, or a   *)
(* message named for what it says.                                         *)
(***************************************************************************)
EXTENDS Integers, Sequences, SequencesExt

CONSTANTS
    Keys,       \* the words that tap a key
    NoKey,      \* a character of a word that is none of them
    LineMaxLen, \* LINE_MAX_LEN, 64 in the code
    MaxPacket,  \* bound: characters in a bulk OUT packet
    MaxTyped    \* bound: characters that are typed while the port is open

Space == "space"
Eol   == "eol"
Chars == Keys \cup {NoKey, Space, Eol}

VARIABLES
    port,    \* the class: whether it is open, and its line coding
    console, \* the application: the line so far and whether it is too long
    made,    \* what the application made: reports of the consumer interface,
             \* and texts written to the port, since on_open
    typed    \* history: what was received since on_open

cdcVars == <<port, console, made, typed>>

-----------------------------------------------------------------------------
(* The application.  A handler is a function of the application: its       *)
(* console and what it made, in one record.                                *)

Write(c, text) == [c EXCEPT !.out = Append(@, text)]

\* tap: press, then release.
Tap(c, key) == [c EXCEPT !.reports = @ \o <<key, "released">>]

\* handle_word.
HandleWord(c, word) ==
    IF Len(word) = 1 /\ word[1] \in Keys THEN Tap(Write(c, "named"), word[1])
    ELSE Write(c, "unknown")

\* str.split: the maximal runs without a space.
Words(line) ==
    LET EndWord(acc) == IF acc.word = <<>> THEN acc.words ELSE Append(acc.words, acc.word)
        Step(acc, ch) == IF ch = Space THEN [words |-> EndWord(acc), word |-> <<>>]
                         ELSE [acc EXCEPT !.word = Append(@, ch)]
    IN  EndWord(FoldLeft(Step, [words |-> <<>>, word |-> <<>>], line))

\* handle_line: a bare Enter gets the greeting.
HandleLine(c, line) ==
    IF Words(line) = <<>> THEN Write(c, "greeting") ELSE FoldLeft(HandleWord, c, Words(line))

\* Mutant: the overflow flag outlives the line that was too long.
FlagOutlivesLine(c) == [c EXCEPT !.line = <<>>]

Emptied(c) == [c EXCEPT !.line = <<>>, !.overflow = FALSE]

\* An end of line.
EndLine(c) ==
    LET e == Write(c, "newline")
    IN  Emptied(IF e.overflow THEN Write(e, "too long") ELSE HandleLine(e, e.line))

\* One character of on_rx: echoed, then collected.
OnChar(c, ch) ==
    LET e == Write(c, ch)
    IN  CASE ch = Eol                                      -> EndLine(e)
          [] ch # Eol /\ Len(e.line) < LineMaxLen - 1      -> [e EXCEPT !.line = Append(@, ch)]
          [] OTHER                                         -> [e EXCEPT !.overflow = TRUE]

OnRx(c, data) == FoldLeft(OnChar, c, data)

-----------------------------------------------------------------------------
Fresh == [line |-> <<>>, overflow |-> FALSE]
Nothing == [reports |-> <<>>, out |-> <<>>]

CdcInit ==
    /\ port = [isOpen |-> FALSE, coding |-> "default"]
    /\ console = Fresh
    /\ made = Nothing
    /\ typed = <<>>

\* SET_LINE_CODING.
SetLineCoding(coding) ==
    /\ port' = [port EXCEPT !.coding = coding]
    /\ UNCHANGED <<console, made, typed>>

\* SET_CONTROL_LINE_STATE: bit 0 is DTR, and only an edge of it is told to the
\* application, whose on_open empties the line.  No hook resets the port: it
\* stays open when a host goes away without dropping DTR.
SetControlLineState(dtr) ==
    /\ port' = [port EXCEPT !.isOpen = dtr]
    /\ IF dtr /\ ~port.isOpen THEN console' = Fresh /\ made' = Nothing /\ typed' = <<>>
       ELSE UNCHANGED <<console, made, typed>>

\* A bulk OUT packet; the class does not ask whether the port is open.
Receive(data) ==
    /\ Len(typed) + Len(data) <= MaxTyped
    /\ typed' = typed \o data
    /\ LET c == OnRx(console @@ made, data)
       IN  /\ console' = [line |-> c.line, overflow |-> c.overflow]
           /\ made' = [reports |-> c.reports, out |-> c.out]
    /\ UNCHANGED port

CdcNext ==
    \/ \E coding \in {"default", "other"} : SetLineCoding(coding)
    \/ \E dtr \in BOOLEAN : SetControlLineState(dtr)
    \/ \E n \in 1 .. MaxPacket : \E data \in [1 .. n -> Chars] : Receive(data)

CdcSpec == CdcInit /\ [][CdcNext]_cdcVars

-----------------------------------------------------------------------------
(* Properties.                                                             *)

\* The lines of a text, by where their ends are.
LinesOf(s) ==
    LET ends == SetToSortSeq({i \in DOMAIN s : s[i] = Eol}, <)
    IN  [k \in DOMAIN ends |-> SubSeq(s, IF k = 1 THEN 1 ELSE ends[k - 1] + 1, ends[k] - 1)]

\* The keys that a line asks for: characters between spaces or the line's ends.
KeysOf(line) ==
    LET alone == {i \in DOMAIN line :
                     /\ line[i] \in Keys
                     /\ i = 1 \/ line[i - 1] = Space
                     /\ i = Len(line) \/ line[i + 1] = Space}
        order == SetToSortSeq(alone, <)
    IN  [k \in DOMAIN order |-> line[order[k]]]

\* In whatever packets the text comes, the consumer interface has sent a press
\* and a release for each key of each line of it, in order, and nothing for a
\* line that was too long; and the echo is the text.
LinesTapTheirKeys ==
    LET short == SelectSeq(LinesOf(typed), LAMBDA line : Len(line) < LineMaxLen)
        keys  == FlattenSeq([k \in DOMAIN short |-> KeysOf(short[k])])
    IN  /\ made.reports = FlattenSeq([k \in DOMAIN keys |-> <<keys[k], "released">>])
        /\ SelectSeq(made.out, LAMBDA t : t \in Chars) = typed
=============================================================================
