-------------------------------- MODULE Hid ---------------------------------
(***************************************************************************)
(* Keyboards that type: examples/hid_device.py, whose main thread types    *)
(* one text on a HID interface (usbip/classes/device/hid.py, send_report   *)
(* and GET_REPORT), and examples/doc/boot_keyboard.py, which starts a      *)
(* thread each time that the device is reset.  A host reads the reports    *)
(* that wait in the interrupt pipe; it may come in the middle of a text.   *)
(*                                                                         *)
(* Abstracted: a report is the set of keys that are down, and waits in the *)
(* pipe as a whole.  Features, output reports, idle rates and the protocol *)
(* are stored and given back, and are left out.                            *)
(***************************************************************************)
EXTENDS Integers, Sequences, FiniteSets, SequencesExt

CONSTANTS
    Text,       \* what a thread types
    Unmapped,   \* characters of it that have no key
    MaxTypists  \* bound: threads that boot_keyboard starts

ASSUME HidAssumption == Text \in Seq(Range(Text))

VARIABLES
    program,   \* which of the two examples runs
    lastInput, \* _last_input, what GET_REPORT tells
    typists,   \* the threads: what each has still to do
    pipe,      \* reports in the IN endpoint
    keys,      \* the host: keys that are down, and what was typed as it sees it
    writers    \* history: threads that wrote since the last reset

hidVars == <<program, lastInput, typists, pipe, keys, writers>>

-----------------------------------------------------------------------------
\* The characters that have a key, in their order.
Mapped == {i \in DOMAIN Text : Text[i] \notin Unmapped}
Wanted == [k \in 1 .. Cardinality(Mapped) |->
              Text[CHOOSE i \in Mapped : Cardinality({j \in Mapped : j <= i}) = k]]

\* send_report, for one report after another, keeps each for GET_REPORT and
\* then queues it; the boot keyboard writes to its endpoint and keeps none.
Send(prog, reports) ==
    IF prog = "hid_device"
    THEN [k \in 1 .. 2 * Len(reports) |-> <<IF k % 2 = 1 THEN "keep" ELSE "queue", reports[(k + 1) \div 2]>>]
    ELSE [k \in 1 .. Len(reports) |-> <<"queue", reports[k]>>]

\* Mutant: the keys come up at the end of the text only.
TypeHeld(prog) == Send(prog, Append([k \in DOMAIN Wanted |-> {Wanted[k]}], {}))

\* type_string: for each character that has a key, down and up.
Reports == [r \in 1 .. 2 * Len(Wanted) |-> IF r % 2 = 1 THEN {Wanted[(r + 1) \div 2]} ELSE {}]
TypeString(prog) == Send(prog, Reports)

-----------------------------------------------------------------------------
NoKeys == [down |-> {}, seen |-> <<>>]

Programs == {"boot_keyboard", "hid_device"}

HidInit(programs) ==
    /\ program \in programs
    /\ typists = IF program = "hid_device" THEN <<TypeString(program)>> ELSE <<>>
    /\ lastInput = {} /\ pipe = <<>> /\ keys = NoKeys /\ writers = {}

\* reset_io, for a new host or a new configuration: the pipe is flushed, then
\* the boot keyboard's hook starts a thread; those of earlier resets go on.
Reset ==
    /\ CASE program = "hid_device" -> UNCHANGED typists
         [] program = "boot_keyboard" ->
              /\ Len(typists) < MaxTypists
              /\ typists' = Append(typists, TypeString(program))
    /\ pipe' = <<>> /\ keys' = NoKeys /\ writers' = {}
    /\ UNCHANGED <<program, lastInput>>

\* A thread's next step.
Type(t) ==
    /\ typists[t] # <<>>
    /\ LET step == Head(typists[t])
       IN  IF step[1] = "keep"
           THEN lastInput' = step[2] /\ UNCHANGED <<pipe, writers>>
           ELSE pipe' = Append(pipe, step[2]) /\ writers' = writers \cup {t} /\ UNCHANGED lastInput
    /\ typists' = [typists EXCEPT ![t] = Tail(@)]
    /\ UNCHANGED <<program, keys>>

\* The host reads a report: a key that was not down is typed.
ReadReport ==
    /\ pipe # <<>>
    /\ keys' = [down |-> Head(pipe), seen |-> keys.seen \o SetToSeq(Head(pipe) \ keys.down)]
    /\ pipe' = Tail(pipe)
    /\ UNCHANGED <<program, lastInput, typists, writers>>

HidNext ==
    \/ Reset
    \/ \E t \in DOMAIN typists : Type(t)
    \/ ReadReport

HidSpec == HidInit(Programs) /\ [][HidNext]_hidVars

-----------------------------------------------------------------------------
(* Properties.                                                             *)

\* No key stays down once every thread is done and the host has read all, and
\* GET_REPORT says so too, even when threads of earlier resets typed among
\* each other.  A host of the boot keyboard to which only its own thread typed
\* sees that text and no other, letters that come twice included; a host that
\* comes while hid_device types sees the text from there to its end.
TypedTextArrives ==
    LET quiet == pipe = <<>> /\ \A t \in DOMAIN typists : typists[t] = <<>>
    IN  /\ quiet => keys.down = {} /\ lastInput = {}
        /\ program = "boot_keyboard" /\ writers \subseteq {Len(typists)} =>
              /\ IsPrefix(keys.seen, Wanted)
              /\ quiet /\ writers # {} => keys.seen = Wanted
        /\ program = "hid_device" =>
              /\ \E from \in 1 .. Len(Wanted) + 1 :
                    IsPrefix(keys.seen, SubSeq(Wanted, from, Len(Wanted)))
              /\ quiet => IsSuffix(keys.seen, Wanted)
=============================================================================
